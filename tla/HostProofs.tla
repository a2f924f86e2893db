----------------------------- MODULE HostProofs -----------------------------
(***************************************************************************)
(* What the Host run checks of sign-in on two tabs, proved for any number  *)
(* of tabs, accounts, addresses and configurations, any Apps and           *)
(* migrations, and every bound: no restart ends a session, no login is     *)
(* refused without a cause, and the database is what the tracking table    *)
(* says of it.                                                             *)
(***************************************************************************)
EXTENDS Host, SequenceTheorems, TLAPS

Listening == {"serving", "draining"}

(* The key a boot would load, where there is one.                          *)
Kept == IF Secret = "long" THEN 0 ELSE keyfile
KeyKnown == Secret = "long" \/ keyfile \notin {None, Short}
SignedByKept(t) == t.key \in lost \/ (KeyKnown /\ t.key = Kept)

(* Whatever is signed was signed with the key the next boot will load, or  *)
(* with one that is lost.  A host with a key of its own has lost the kept. *)
KeyInv ==
  /\ SignInTypeOK
  /\ host \in Listening =>
       \/ KeyKnown /\ key = Kept
       \/ key \in lost /\ (KeyKnown => Kept \in lost)
  /\ session # None => SignedByKept(session)
  /\ \A l \in Logins : /\ minted[l] # None => SignedByKept(minted[l])
                       /\ answer[l] # None => SignedByKept(answer[l])

(* A login nothing has come in the way of carries its own handshake from   *)
(* step to step, under the configuration it was begun with.                *)
Ongoing == {"redirect", "page", "back", "exchange"}

Regular(l) ==
  LET hs == minted[l]
      o  == minted[l].offered
  IN /\ stage[l] # "idle" =>
          /\ hs \in Handshakes
          /\ hs.state = l /\ hs.client = o.client /\ hs.scope = Scope(o)
     /\ stage[l] \in Ongoing => o = Resolve(config)
     /\ stage[l] = "page" => handshake = hs
     /\ stage[l] \in {"back", "exchange"} => brought[l] = hs /\ account[l] # None
     /\ stage[l] = "exchange" => resolved[l] = o
     /\ stage[l] = "answered" => answer[l] # None \/ ~ OnTheList(o, account[l])
     /\ stage[l] = "refused" => ~ OnTheList(o, account[l])

LoginInv == KeyInv /\ \A l \in Logins : l \in troubled \/ SignedByLost(minted[l]) \/ Regular(l)

-----------------------------------------------------------------------------
(* resolve yields the open console or an offer without blank addresses.    *)
LEMMA ResolveType ==
  ASSUME NEW c \in Configs
  PROVE  Resolve(c) = Open \/ (Resolve(c) \in Offers /\ Blank \notin Resolve(c).admins)
<1> SUFFICES ASSUME c.bound # None, c.apps[c.bound] \notin {"absent", "empty"}
             PROVE  Resolve(c) \in Offers /\ Blank \notin Resolve(c).admins
  BY DEF Resolve
<1>1. c \in Config
  BY ConfigsAssumption
<1>2. c.bound \in Names /\ c.apps[c.bound] \in STRING
  BY <1>1 DEF Config
<1>3. {Lower[x] : x \in c.admins} \subseteq Addresses
  BY <1>1, AddressesAssumption DEF Config
<1>4. QED
  BY <1>1, <1>2, <1>3 DEF Resolve, Offers, Config

LEMMA OfferUse ==
  ASSUME NEW o \in Offers
  PROVE  Redirect(o) \in STRING /\ Scope(o) \in Scopes \ {"unset"} /\ o # Open
BY ConfigsAssumption, NoneAssumption DEF Offers, Redirect, Scope, Scopes

(* Whoever is on the list is let in, by the scope asked for.               *)
LEMMA ListedAdmitted ==
  ASSUME NEW o \in Offers, Blank \notin o.admins, NEW a \in Accounts, OnTheList(o, a)
  PROVE  Admits(o, Emails(a, Scope(o)))
<1>1. CASE o.admins = {}
  BY <1>1 DEF Admits
<1>2. CASE o.admins # {}
  <2>1. PICK x \in EmailsOf[a] : o.scope # "none" /\ Lower[x] \in o.admins
    BY <1>2 DEF OnTheList
  <2>2. Scope(o) = "identity"
    BY <1>2, <2>1 DEF Scope, Offers, Scopes
  <2>3. Lower[x] \in Emails(a, Scope(o))
    BY <2>1, <2>2 DEF Emails
  <2>4. QED
    BY <2>1, <2>3 DEF Admits
<1>3. QED
  BY <1>1, <1>2

-----------------------------------------------------------------------------
(* A step of the host, as sign-in sees it.                                 *)
StepOf(l) ==
  \/ Login(l) /\ host = "serving"
  \/ Callback(l) /\ host = "serving"
  \/ Exchange(l) /\ host \in Listening
  \/ Redirected(l) \/ Answered(l) \/ LarkFails(l)
  \/ \E a \in Accounts \cup {None} : Decide(l, a)

LEMMA StepCases ==
  ASSUME [Next]_vars
  PROVE  \/ /\ UNCHANGED signInVars
            /\ host' \in Listening => host \in Listening
         \/ Serve \/ ServeCutShort
         \/ (\E l \in Logins : StepOf(l)) /\ host' = host
         \/ Logout /\ host' = host
         \/ (\E c \in Configs : Configure(c)) /\ host' = host
         \/ Tick /\ host' = host
         \/ (\E gone \in SUBSET Logins : Dropped(gone)) /\ (host' = host \/ host' = "down")
<1>1. CASE UNCHANGED vars
  BY <1>1 DEF vars, hostVars
<1>2. CASE Boot
  BY <1>2 DEF Boot, Start, OpenStores, Migrate, Migrated, Exit, Listening
<1>3. CASE BootFails \/ MigrationFault \/ ServeCutShort \/ Shutdown \/ Install
  BY <1>3 DEF BootFails, MigrationFault, Shutdown, Install, Listening
<1>4. CASE Receive \/ Finish
  BY <1>4 DEF Receive, Finish, StepOf, Listening
<1>5. CASE Browse \/ Misfortune
  BY <1>5 DEF Browse, Misfortune, StepOf
<1>6. CASE SignOut \/ Edit \/ TimePasses
  BY <1>6 DEF SignOut, Edit, TimePasses
<1>7. CASE Unheard
  BY <1>7 DEF Unheard
<1>8. CASE Crash
  BY <1>8 DEF Crash, Exchanging
<1>9. CASE Watch \/ Unwatch
  BY <1>9 DEF Watch, Unwatch
<1>10. QED
  BY <1>1, <1>2, <1>3, <1>4, <1>5, <1>6, <1>7, <1>8, <1>9 DEF Next

LEMMA TypeInit == Init => SignInTypeOK
<1> SUFFICES ASSUME SignInInit PROVE SignInTypeOK
  BY DEF Init
<1>1. config \in Configs /\ now \in Nat /\ key \in Nat /\ keys \in Nat
      /\ keyfile \in Nat \cup {None, Short} /\ troubled \subseteq Logins /\ lost \subseteq Nat
  BY DEF SignInInit
<1>2. QED
  BY <1>1 DEF SignInInit, SignInTypeOK

LEMMA TypeNext == SignInTypeOK /\ [Next]_vars => SignInTypeOK'
<1> SUFFICES ASSUME SignInTypeOK, [Next]_vars PROVE SignInTypeOK'
  OBVIOUS
<1> USE DEF signInVars, keyVars, cookieVars, loginVars
<1>1. CASE UNCHANGED signInVars
  BY <1>1 DEF SignInTypeOK
<1>2. CASE Serve
  <2>1. UNCHANGED <<config, now, cookieVars, loginVars, troubled>>
    BY <1>2 DEF Serve, LoadKey, LoadKeyUnread, LoadKeyUnkept
  <2>2. keys' \in Nat /\ key' \in Nat /\ keyfile' \in Nat \cup {None, Short} /\ lost' \subseteq Nat
    <3>1. keys + 1 \in Nat /\ GivenUp \subseteq Nat
      BY DEF SignInTypeOK, GivenUp
    <3>2. CASE LoadKey
      BY <3>1, <3>2 DEF LoadKey, SignInTypeOK
    <3>3. CASE LoadKeyUnread
      BY <3>1, <3>3 DEF LoadKeyUnread, SignInTypeOK
    <3>4. CASE LoadKeyUnkept
      BY <3>1, <3>4 DEF LoadKeyUnkept, SignInTypeOK
    <3>5. QED
      BY <1>2, <3>2, <3>3, <3>4 DEF Serve
  <2>3. QED
    BY <2>1, <2>2 DEF SignInTypeOK
<1>3. CASE ServeCutShort
  BY <1>3 DEF ServeCutShort, KeyCutShort, GivenUp, SignInTypeOK
<1>4. ASSUME NEW l \in Logins, StepOf(l) PROVE SignInTypeOK'
  <2>1. CASE Login(l)
    <3>1. Resolve(config) = Open \/ Resolve(config) \in Offers
      BY ResolveType DEF SignInTypeOK
    <3>2. ASSUME Resolve(config) # Open
          PROVE  LET o == Resolve(config)
                 IN [state |-> l, key |-> key, redirect |-> Redirect(o), client |-> o.client,
                     scope |-> Scope(o), offered |-> o] \in Handshakes
      BY <3>1, <3>2, OfferUse DEF Handshakes, Offers, SignInTypeOK
    <3>3. QED
      BY <2>1, <3>2 DEF Login, Go, SignInTypeOK
  <2>2. CASE Callback(l)
    BY <2>2, ResolveType DEF Callback, Go, SignInTypeOK
  <2>3. CASE Exchange(l)
    <3>1. [by |-> l, key |-> key, exp |-> now + TTL] \in Sessions
      BY SecretAssumption DEF Sessions, SignInTypeOK
    <3>2. QED
      BY <2>3, <3>1 DEF Exchange, Go, SignInTypeOK
  <2>4. CASE Redirected(l) \/ Answered(l) \/ LarkFails(l)
    BY <2>4 DEF Redirected, Answered, LarkFails, Go, SignInTypeOK
  <2>5. ASSUME NEW a \in Accounts \cup {None}, Decide(l, a) PROVE SignInTypeOK'
    BY <2>5 DEF Decide, Go, SignInTypeOK
  <2>6. QED
    BY <1>4, <2>1, <2>2, <2>3, <2>4, <2>5 DEF StepOf
<1>5. CASE Logout \/ Tick
  <2>1. now + 1 \in Nat
    BY DEF SignInTypeOK
  <2>2. CASE Logout
    BY <2>2 DEF Logout, SignInTypeOK
  <2>3. CASE Tick
    BY <2>1, <2>3 DEF Tick, SignInTypeOK
  <2>4. QED
    BY <1>5, <2>2, <2>3
<1>6. ASSUME NEW c \in Configs, Configure(c) PROVE SignInTypeOK'
  BY <1>6 DEF Configure, Underway, SignInTypeOK
<1>7. ASSUME NEW gone \in SUBSET Logins, Dropped(gone) PROVE SignInTypeOK'
  BY <1>7 DEF Dropped, SignInTypeOK
<1>8. QED
  BY StepCases, <1>1, <1>2, <1>3, <1>4, <1>5, <1>6, <1>7

LEMMA KeyInit == Init => KeyInv
BY TypeInit DEF Init, SignInInit, KeyInv, Listening

(* A kept key that gives way is lost, and its cookies with it.             *)
LEMMA KeptGivenUp ==
  ASSUME Secret # "long", lost \cup GivenUp \subseteq lost'
  PROVE  \A t : SignedByKept(t) => SignedByKept(t)'
BY DEF SignedByKept, KeyKnown, Kept, GivenUp

(* The key of the jar's and of every answer's cookie stays the kept one.   *)
LEMMA KeyNext == KeyInv /\ [Next]_vars => KeyInv'
<1> SUFFICES ASSUME KeyInv, [Next]_vars PROVE KeyInv'
  OBVIOUS
<1> USE DEF signInVars, keyVars, cookieVars, loginVars
<1>t. SignInTypeOK /\ SignInTypeOK'
  BY TypeNext DEF KeyInv
<1>1. CASE UNCHANGED signInVars /\ (host' \in Listening => host \in Listening)
  BY <1>1, <1>t DEF KeyInv, SignedByKept, KeyKnown, Kept
<1>2. CASE Serve
  <2>1. UNCHANGED <<session, loginVars>>
    BY <1>2 DEF Serve, LoadKey, LoadKeyUnread, LoadKeyUnkept
  <2>2. CASE LoadKey /\ KeyKnown
    BY <1>t, <2>1, <2>2 DEF KeyInv, SignedByKept, KeyKnown, Kept, LoadKey
  <2>3. CASE LoadKey /\ ~ KeyKnown
    <3>1. keys' \in Nat /\ keyfile' = keys' /\ key' = keys' /\ Secret # "long" /\ lost' = lost
      BY <1>t, <2>3 DEF SignInTypeOK, KeyKnown, LoadKey
    <3>2. KeyKnown' /\ key' = Kept'
      BY <3>1, NoneAssumption DEF KeyKnown, Kept
    <3>3. QED
      BY <1>t, <2>1, <2>3, <3>1, <3>2 DEF KeyInv, SignedByKept
  <2>4. CASE LoadKeyUnread
    <3>1. keys' \in Nat /\ keyfile' = keys' /\ key' = keys' /\ Secret # "long"
      BY <1>t, <2>4 DEF SignInTypeOK, LoadKeyUnread
    <3>2. KeyKnown' /\ key' = Kept'
      BY <3>1, NoneAssumption DEF KeyKnown, Kept
    <3>3. \A t : SignedByKept(t) => SignedByKept(t)'
      BY <2>4, KeptGivenUp DEF LoadKeyUnread
    <3>4. QED
      BY <1>t, <2>1, <3>2, <3>3 DEF KeyInv
  <2>5. CASE LoadKeyUnkept
    <3>1. key' \in lost' /\ GivenUp \subseteq lost' /\ keyfile' \in {keyfile, Short} /\ Secret # "long"
      BY <2>5 DEF LoadKeyUnkept
    <3>2. KeyKnown' => Kept' \in lost'
      BY <3>1 DEF KeyKnown, Kept, GivenUp
    <3>3. \A t : SignedByKept(t) => SignedByKept(t)'
      BY <2>5, KeptGivenUp DEF LoadKeyUnkept
    <3>4. QED
      BY <1>t, <2>1, <3>1, <3>2, <3>3 DEF KeyInv
  <2>6. QED
    BY <1>2, <2>2, <2>3, <2>4, <2>5 DEF Serve
<1>3. CASE ServeCutShort
  <2>1. \A t : SignedByKept(t) => SignedByKept(t)'
    BY <1>3, KeptGivenUp DEF ServeCutShort, KeyCutShort
  <2>2. host' \notin Listening /\ UNCHANGED <<session, minted, answer>>
    BY <1>3 DEF ServeCutShort, KeyCutShort, Listening
  <2>3. QED
    BY <1>t, <2>1, <2>2 DEF KeyInv
<1>4. ASSUME NEW l \in Logins, StepOf(l), host' = host PROVE KeyInv'
  <2>1. UNCHANGED <<keyVars, lost>>
    BY <1>4 DEF StepOf, Login, Callback, Exchange, Redirected, Answered, LarkFails, Decide
  <2>2. ASSUME NEW m \in Logins, minted'[m] # None PROVE SignedByKept(minted[m])'
    BY <1>4, <1>t, <2>1, <2>2 DEF StepOf, Login, Callback, Exchange, Redirected, Answered, LarkFails,
         Decide, KeyInv, SignInTypeOK, SignedByKept, KeyKnown, Kept, Listening
  <2>3. ASSUME NEW m \in Logins, answer'[m] # None PROVE SignedByKept(answer[m])'
    BY <1>4, <1>t, <2>1, <2>3 DEF StepOf, Login, Callback, Exchange, Redirected, Answered, LarkFails,
         Decide, KeyInv, SignInTypeOK, SignedByKept, KeyKnown, Kept, Listening
  <2>4. session' # None => SignedByKept(session)'
    BY <1>4, <2>1 DEF StepOf, Login, Callback, Exchange, Redirected, Answered, LarkFails,
         Decide, KeyInv, SignedByKept, KeyKnown, Kept
  <2>5. QED
    BY <1>4, <1>t, <2>1, <2>2, <2>3, <2>4 DEF KeyInv, SignedByKept, KeyKnown, Kept
<1>5. CASE (Logout \/ Tick) /\ host' = host
  BY <1>5, <1>t DEF Logout, Tick, KeyInv, SignedByKept, KeyKnown, Kept
<1>6. ASSUME NEW c \in Configs, Configure(c), host' = host PROVE KeyInv'
  BY <1>6, <1>t DEF Configure, KeyInv, SignedByKept, KeyKnown, Kept
<1>7. ASSUME NEW gone \in SUBSET Logins, Dropped(gone), host' = host \/ host' = "down"
      PROVE KeyInv'
  BY <1>7, <1>t DEF Dropped, KeyInv, SignedByKept, KeyKnown, Kept, Listening
<1>8. QED
  BY StepCases, <1>1, <1>2, <1>3, <1>4, <1>5, <1>6, <1>7

-----------------------------------------------------------------------------
LEMMA LoginInit == Init => LoginInv
BY KeyInit DEF Init, SignInInit, LoginInv, Regular, Ongoing

(* What a login's own step makes of it, and what the steps of others do.   *)
LEMMA OwnStep ==
  ASSUME LoginInv, SignInTypeOK', NEW l \in Logins, StepOf(l)
  PROVE  l \in troubled' \/ SignedByLost(minted[l])' \/ Regular(l)'
<1> SUFFICES ASSUME l \notin troubled', ~ SignedByLost(minted[l])' PROVE Regular(l)'
  OBVIOUS
<1>t. SignInTypeOK
  BY DEF LoginInv, KeyInv
<1>1. l \notin troubled /\ lost' = lost /\ UNCHANGED <<config, keyVars>>
  BY DEF StepOf, Login, Callback, Exchange, Redirected, Answered, LarkFails, Decide, keyVars
<1>u. ~ Login(l) => ~ SignedByLost(minted[l])
  BY <1>1 DEF StepOf, Callback, Exchange, Redirected, Answered, LarkFails, Decide, SignedByLost
<1>2. stage[l] # "idle" => Regular(l)
  BY <1>1, <1>u DEF LoginInv, Login
<1>3. stage[l] # "idle" => minted[l] \in Handshakes /\ minted[l] # None
  BY <1>2, NoneAssumption DEF Regular
<1>4. CASE Login(l)
  <2>1. Resolve(config) # Open /\ Resolve(config) \in Offers
    BY <1>t, <1>4, ResolveType DEF Login, SignInTypeOK
  <2>2. minted'[l] \in Handshakes /\ minted'[l].offered = Resolve(config) /\ minted'[l].state = l
        /\ minted'[l].client = Resolve(config).client /\ minted'[l].scope = Scope(Resolve(config))
        /\ stage'[l] = "redirect"
    <3>1. [state |-> l, key |-> key, redirect |-> Redirect(Resolve(config)),
           client |-> Resolve(config).client, scope |-> Scope(Resolve(config)),
           offered |-> Resolve(config)] \in Handshakes
      BY <1>t, <2>1, OfferUse DEF Handshakes, Offers, SignInTypeOK
    <3>2. QED
      BY <1>t, <1>4, <2>1, <3>1 DEF Login, Go, SignInTypeOK
  <2>3. QED
    BY <1>1, <2>2 DEF Regular, Ongoing
<1>5. CASE Callback(l) /\ host = "serving"
  <2>a. Regular(l) /\ stage[l] = "back" /\ minted[l] \in Handshakes /\ minted[l] # None
    BY <1>2, <1>3, <1>5 DEF Callback
  <2>c. ~ SignedByLost(minted[l])
    BY <1>u, <2>a DEF Login
  <2>b. minted[l].key = Kept /\ KeyKnown /\ Kept \notin lost
    BY <2>a, <2>c DEF LoginInv, KeyInv, SignedByKept, SignedByLost
  <2>1. key = Kept /\ KeyKnown
    BY <1>5, <2>b DEF LoginInv, KeyInv, Listening
  <2>2. stage[l] = "back" /\ brought[l] = minted[l] /\ minted[l].key = key
    BY <2>a, <2>b, <2>1 DEF Regular
  <2>3. Resolve(config) = minted[l].offered /\ Resolve(config) # Open
    BY <1>2, <1>3, <2>2, NoneAssumption DEF Regular, Ongoing, Handshakes
  <2>4. stage'[l] = "exchange" /\ resolved'[l] = Resolve(config)
    BY <1>t, <1>2, <1>3, <1>5, <2>2, <2>3 DEF Callback, Go, Regular, Ongoing, SignInTypeOK
  <2>5. QED
    BY <1>1, <1>2, <1>5, <2>2, <2>3, <2>4 DEF Callback, Regular, Ongoing, cookieVars
<1>6. CASE Exchange(l)
  <2>1. stage[l] = "exchange" /\ stage'[l] = "answered"
    BY <1>t, <1>6 DEF Exchange, Go, SignInTypeOK
  <2>2. resolved[l] = minted[l].offered /\ brought[l] = minted[l] /\ account[l] \in Accounts
    BY <1>t, <1>2, <2>1 DEF Regular, SignInTypeOK
  <2>3. minted[l].offered \in Offers /\ Blank \notin minted[l].offered.admins
    BY <1>t, <1>2, <1>3, <2>1, ResolveType, NoneAssumption DEF Regular, Ongoing, Handshakes, SignInTypeOK
  <2>4. OnTheList(minted[l].offered, account[l])
          => Admits(resolved[l], Emails(account[l], minted[l].scope))
    BY <1>2, <2>1, <2>2, <2>3, ListedAdmitted DEF Regular
  <2>5. OnTheList(minted[l].offered, account[l]) => answer'[l] \in Sessions
    <3>1. [by |-> l, key |-> key, exp |-> now + TTL] \in Sessions
      BY <1>t, SecretAssumption DEF Sessions, SignInTypeOK
    <3>2. QED
      BY <1>t, <1>2, <1>6, <2>1, <2>2, <2>4, <3>1 DEF Exchange, Regular, SignInTypeOK
  <2>6. QED
    BY <1>2, <1>6, <2>1, <2>5, NoneAssumption DEF Exchange, Regular, Ongoing
<1>7. CASE Redirected(l)
  BY <1>t, <1>1, <1>2, <1>7 DEF Redirected, Go, Regular, Ongoing, SignInTypeOK
<1>8. CASE Answered(l)
  BY <1>t, <1>1, <1>2, <1>8 DEF Answered, Go, Regular, Ongoing, SignInTypeOK
<1>9. CASE LarkFails(l)
  BY <1>9 DEF LarkFails
<1>10. ASSUME NEW a \in Accounts \cup {None}, Decide(l, a) PROVE Regular(l)'
  BY <1>t, <1>1, <1>2, <1>10 DEF Decide, Go, Regular, Ongoing, SignInTypeOK, cookieVars
<1>11. QED
  BY <1>4, <1>5, <1>6, <1>7, <1>8, <1>9, <1>10 DEF StepOf

LEMMA OthersStep ==
  ASSUME LoginInv, SignInTypeOK', NEW l \in Logins, NEW m \in Logins \ {l}, StepOf(m)
  PROVE  l \in troubled' \/ SignedByLost(minted[l])' \/ Regular(l)'
<1>t. SignInTypeOK
  BY DEF LoginInv, KeyInv
<1>1. troubled \subseteq troubled' /\ UNCHANGED <<config, lost>>
  BY DEF StepOf, Login, Callback, Exchange, Redirected, Answered, LarkFails, Decide
<1>2. /\ stage'[l] = stage[l] /\ minted'[l] = minted[l] /\ brought'[l] = brought[l]
      /\ account'[l] = account[l] /\ resolved'[l] = resolved[l] /\ answer'[l] = answer[l]
  BY <1>t DEF StepOf, Login, Callback, Exchange, Redirected, Answered, LarkFails, Decide,
              Go, SignInTypeOK
<1>3. stage[l] = "page" => l \in troubled' \/ handshake' = handshake
  BY DEF StepOf, Login, Callback, Exchange, Redirected, Answered, LarkFails, Decide, cookieVars
<1>4. QED
  BY <1>1, <1>2, <1>3 DEF LoginInv, Regular, SignedByLost

LEMMA LoginNext == LoginInv /\ [Next]_vars => LoginInv'
<1> SUFFICES ASSUME LoginInv, [Next]_vars PROVE LoginInv'
  OBVIOUS
<1>t. SignInTypeOK /\ SignInTypeOK' /\ KeyInv'
  BY TypeNext, KeyNext DEF LoginInv, KeyInv
<1> SUFFICES ASSUME NEW l \in Logins PROVE l \in troubled' \/ SignedByLost(minted[l])' \/ Regular(l)'
  BY <1>t DEF LoginInv
<1> USE DEF signInVars, keyVars, cookieVars, loginVars
<1>1. CASE UNCHANGED signInVars
  BY <1>1 DEF LoginInv, Regular, SignedByLost
<1>2. CASE Serve \/ ServeCutShort
  <2>1. lost \subseteq lost' /\ UNCHANGED <<config, cookieVars, loginVars, troubled>>
    BY <1>2 DEF Serve, ServeCutShort, LoadKey, LoadKeyUnread, LoadKeyUnkept, KeyCutShort
  <2>2. QED
    BY <2>1 DEF LoginInv, Regular, SignedByLost
<1>3. ASSUME NEW m \in Logins, StepOf(m) PROVE l \in troubled' \/ SignedByLost(minted[l])' \/ Regular(l)'
  BY <1>t, <1>3, OwnStep, OthersStep
<1>4. CASE Logout \/ Tick
  BY <1>4 DEF Logout, Tick, LoginInv, Regular, SignedByLost
<1>5. ASSUME NEW c \in Configs, Configure(c) PROVE l \in troubled' \/ SignedByLost(minted[l])' \/ Regular(l)'
  <2>1. stage[l] \in {"idle", "in", "refused"} \/ l \in troubled'
    BY <1>5 DEF Configure, Underway
  <2>2. QED
    BY <1>5, <2>1 DEF Configure, LoginInv, Regular, Ongoing, SignedByLost
<1>6. ASSUME NEW gone \in SUBSET Logins, Dropped(gone)
      PROVE l \in troubled' \/ SignedByLost(minted[l])' \/ Regular(l)'
  BY <1>t, <1>6 DEF Dropped, LoginInv, Regular, SignedByLost, SignInTypeOK
<1>7. QED
  BY StepCases, <1>1, <1>2, <1>3, <1>4, <1>5, <1>6

LEMMA Invariance == Spec => []LoginInv
BY LoginInit, LoginNext, PTL DEF Spec

-----------------------------------------------------------------------------
(* load_session_key: a session in the jar is accepted by every later boot  *)
(* until it expires, unless its key could not be kept, or some boot could  *)
(* not read the file that holds it and put another key in its place.       *)
THEOREM SessionSurvivesHolds == Spec => []SessionSurvives
<1>1. LoginInv => SessionSurvives
  BY DEF LoginInv, KeyInv, SessionSurvives, SessionLasts, SignedByKept, SignedByLost, ReadSession,
         Listening
<1>2. QED
  BY <1>1, Invariance, PTL

(* login and callback: whoever is refused is not on the list, or something *)
(* came in the way that the operator can be told of.                       *)
THEOREM RefusalExplainedHolds == Spec => []RefusalExplained
<1>1. LoginInv => RefusalExplained
  BY DEF LoginInv, Regular, RefusalExplained
<1>2. QED
  BY <1>1, Invariance, PTL

-----------------------------------------------------------------------------
(* The migrations of a boot: an open transaction is the work of the next   *)
(* migration of the App at hand, on the database as it is, and the ones    *)
(* before it are recorded.  Nothing is under way before the stores are     *)
(* open.                                                                   *)
BootingInv ==
  /\ MigrationsTypeOK /\ at >= 1
  /\ host \in {"down", "opening"} => queue = <<>> /\ supervised = {}
  /\ txn # NoTxn =>
       /\ queue # <<>> /\ at \in DOMAIN List(Head(queue))
       /\ txn = (schema \ Current.drops) \cup Current.makes
  /\ queue # <<>> =>
       \A i \in DOMAIN List(Head(queue)) :
         i < at => Recorded(Head(queue), List(Head(queue))[i])

MigratedInv == BootingInv /\ SchemaAsRecorded

Has(rows, a, m) == \E i \in DOMAIN rows : rows[i].app = a /\ rows[i].name = m.name

LEMMA HeadIs ==
  ASSUME MigrationsTypeOK, queue # <<>>
  PROVE  /\ Head(queue) \in ToSet(Apps) /\ Tail(queue) \in Seq(ToSet(Apps))
         /\ List(Head(queue)) \in Seq(Migration)
         /\ \A i \in DOMAIN List(Head(queue)) : List(Head(queue))[i] \in Migration
         /\ DOMAIN List(Head(queue)) = 1..Len(List(Head(queue)))
         /\ Len(List(Head(queue))) \in Nat
<1>1. Head(queue) \in ToSet(Apps) /\ Tail(queue) \in Seq(ToSet(Apps))
  BY HeadTailProperties DEF MigrationsTypeOK
<1>2. List(Head(queue)) \in Seq(Migration)
  BY <1>1, DeclaredAssumption DEF List, MigrationsTypeOK
<1> HIDE DEF List
<1>3. QED
  BY <1>1, <1>2

(* A commit is one row more; what is recorded stays recorded.              *)
LEMMA RowAdded ==
  ASSUME MigrationsTypeOK, NEW r \in Rows, applied' = Append(applied, r)
  PROVE  /\ applied' \in Seq(Rows) /\ DOMAIN applied = 1..Len(applied)
         /\ Len(applied) \in Nat /\ DOMAIN applied' = 1..(Len(applied) + 1)
         /\ \A i \in DOMAIN applied : applied'[i] = applied[i] /\ i \in DOMAIN applied'
         /\ applied'[Len(applied) + 1] = r
BY DEF MigrationsTypeOK

(* The tables of another App stay, and those of the App at hand are what   *)
(* the migration leaves of them.                                           *)
LEMMA CommitSchema ==
  ASSUME MigratedInv, Commit
  PROVE  /\ applied' \in Seq(Rows)
         /\ \A a, m : Recorded(a, m) => Recorded(a, m)'
         /\ Has(applied', Head(queue), Current)
         /\ \A a \in ToSet(Apps) : schema' \cap Prefixed[a] = Leaves(a)' \cap Prefixed[a]
         /\ schema' \subseteq Tables
         /\ schema' \subseteq Framework \cup UNION {Prefixed[a] : a \in ToSet(Apps)}
<1> DEFINE h == Head(queue)
           m == Current
           r == Row(h, m)
           n == Len(applied) + 1
<1>1. /\ MigrationsTypeOK /\ h \in ToSet(Apps) /\ m \in Migration
      /\ schema' = txn /\ txn = (schema \ m.drops) \cup m.makes
      /\ ~ Outside(h, schema, txn) /\ applied' = Append(applied, r)
  BY HeadIs DEF MigratedInv, BootingInv, Commit, Current
<1> HIDE DEF h, m
<1>2. /\ m.name \in STRING /\ m.drops \in SUBSET Tables /\ m.makes \in SUBSET Tables
  BY <1>1 DEF Migration
<1>3. /\ r \in Rows /\ r.app = h /\ r.name = m.name /\ r.drops = m.drops /\ r.makes = m.makes
  BY <1>1, <1>2 DEF Rows, Row
<1> HIDE DEF r
<1>4. /\ applied' \in Seq(Rows) /\ Len(applied) \in Nat
      /\ DOMAIN applied = 1..Len(applied) /\ DOMAIN applied' = 1..n
      /\ \A i \in DOMAIN applied : applied'[i] = applied[i] /\ i \in DOMAIN applied'
      /\ applied'[n] = r
  BY <1>1, <1>3, RowAdded
<1> HIDE DEF n
<1>5. /\ n \in DOMAIN applied' /\ \A i \in DOMAIN applied : n > i /\ ~ (i > n)
      /\ \A i \in DOMAIN applied' : i \in DOMAIN applied \/ i = n
      /\ ~ (n > n)
  BY <1>4 DEF n
<1>6. \A a, x : Recorded(a, x) => Recorded(a, x)'
  BY <1>4 DEF Recorded
<1>7. Has(applied', h, m)
  <2>1. n \in DOMAIN applied' /\ applied'[n].app = h /\ applied'[n].name = m.name
    BY <1>3, <1>4, <1>5
  <2>2. \E i \in DOMAIN applied' : applied'[i].app = h /\ applied'[i].name = m.name
    BY <2>1
  <2>3. QED
    BY <2>2 DEF Has
<1>8. ASSUME NEW a \in ToSet(Apps), NEW t \in Prefixed[a]
      PROVE  t \in schema' <=> t \in Leaves(a)'
  <2>1. t \in schema <=> t \in Leaves(a)
    BY DEF MigratedInv, SchemaAsRecorded
  <2>2. CASE a # h
    <3>1. t \notin Framework \cup Prefixed[h]
      BY <1>1, <2>2, NamesAssumption
    <3>2. t \in schema' <=> t \in schema
      BY <1>1, <3>1 DEF Outside
    <3>3. applied'[n].app # a
      BY <1>3, <1>4, <2>2
    <3>4. t \in Leaves(a)' <=> t \in Leaves(a)
      BY <1>4, <1>5, <3>3 DEF Leaves
    <3>5. QED
      BY <2>1, <3>2, <3>4
  <2>3. CASE a = h
    <3>1. CASE t \in m.makes
      <4>1. t \in schema' /\ t \in Tables
        BY <1>1, <1>2, <3>1
      <4>2. \A j \in DOMAIN applied' : ~ (j > n)
        BY <1>5
      <4>3. t \in Leaves(a)'
        BY <1>3, <1>4, <1>5, <2>3, <3>1, <4>1, <4>2 DEF Leaves
      <4>4. QED
        BY <4>1, <4>3
    <3>2. CASE t \notin m.makes
      <4>1. t \in schema' <=> t \in schema /\ t \notin m.drops
        BY <1>1, <3>2
      <4>2. t \in Leaves(a)' => t \in Leaves(a) /\ t \notin m.drops
        <5>1. SUFFICES ASSUME t \in Leaves(a)' PROVE t \in Leaves(a) /\ t \notin m.drops
          OBVIOUS
        <5>2. PICK i \in DOMAIN applied' :
                /\ applied'[i].app = a /\ t \in applied'[i].makes
                /\ \A j \in DOMAIN applied' :
                     j > i /\ applied'[j].app = a /\ t \in applied'[j].drops => t \in applied'[j].makes
          BY <5>1 DEF Leaves
        <5>3. i \in DOMAIN applied
          BY <1>3, <1>4, <1>5, <3>2, <5>2
        <5>4. t \notin m.drops
          BY <1>3, <1>4, <1>5, <2>3, <3>2, <5>2, <5>3
        <5>5. t \in Tables
          BY <5>1 DEF Leaves
        <5>6. t \in Leaves(a)
          BY <1>4, <5>2, <5>3, <5>5 DEF Leaves
        <5>7. QED
          BY <5>4, <5>6
      <4>3. t \in Leaves(a) /\ t \notin m.drops => t \in Leaves(a)'
        <5>1. SUFFICES ASSUME t \in Leaves(a), t \notin m.drops PROVE t \in Leaves(a)'
          OBVIOUS
        <5>2. PICK i \in DOMAIN applied :
                /\ applied[i].app = a /\ t \in applied[i].makes
                /\ \A j \in DOMAIN applied :
                     j > i /\ applied[j].app = a /\ t \in applied[j].drops => t \in applied[j].makes
          BY <5>1 DEF Leaves
        <5>3. \A j \in DOMAIN applied' :
                j > i /\ applied'[j].app = a /\ t \in applied'[j].drops => t \in applied'[j].makes
          BY <1>3, <1>4, <1>5, <5>1, <5>2
        <5>4. t \in Tables
          BY <5>1 DEF Leaves
        <5>5. QED
          BY <1>4, <5>2, <5>3, <5>4 DEF Leaves
      <4>4. QED
        BY <2>1, <4>1, <4>2, <4>3
    <3>3. QED
      BY <3>1, <3>2
  <2>4. QED
    BY <2>2, <2>3
<1>9. schema' \subseteq Tables
  BY <1>1, <1>2 DEF MigrationsTypeOK
<1>10. schema' \subseteq Framework \cup UNION {Prefixed[a] : a \in ToSet(Apps)}
  <2>1. \A t \in schema' : t \in schema \/ t \in Framework \cup Prefixed[h]
    BY <1>1 DEF Outside
  <2>2. QED
    BY <1>1, <2>1 DEF MigratedInv, SchemaAsRecorded
<1>11. QED
  BY <1>4, <1>6, <1>7, <1>8, <1>9, <1>10 DEF h, m

LEMMA BootingInit == Init => MigratedInv
<1> SUFFICES ASSUME Init PROVE MigratedInv
  OBVIOUS
<1>1. /\ release = 1 /\ schema = {} /\ applied = <<>> /\ queue = <<>> /\ at = 1 /\ txn = NoTxn
      /\ supervised = {} /\ unlucky = {} /\ host = "down"
  BY DEF Init, MigrationsInit
<1>2. 1 \in DOMAIN Releases
  BY ReleasesAssumption, EmptySeq
<1>3. MigrationsTypeOK
  BY <1>1, <1>2 DEF MigrationsTypeOK
<1>4. \A a : Leaves(a) = {}
  BY <1>1 DEF Leaves
<1>5. QED
  BY <1>1, <1>3, <1>4 DEF MigratedInv, BootingInv, SchemaAsRecorded

(* The loop over the Apps: each goes through its list, or is skipped.      *)
LEMMA LoopNext ==
  ASSUME MigratedInv, host = "migrating", host' = "migrating",
         Skip \/ Up \/ Commit \/ Reject \/ Supervise \/ DiskFails
  PROVE  MigratedInv'
<1> USE DEF db
<1>a. BootingInv /\ MigrationsTypeOK /\ SchemaAsRecorded /\ at \in Nat /\ at >= 1 /\ at + 1 \in Nat
  BY DEF MigratedInv, BootingInv, MigrationsTypeOK
<1>b. queue # <<>>
  BY <1>a DEF Skip, Up, Commit, Reject, Supervise, DiskFails, BootingInv
<1>c. /\ Head(queue) \in ToSet(Apps) /\ Tail(queue) \in Seq(ToSet(Apps))
      /\ \A i \in DOMAIN List(Head(queue)) : List(Head(queue))[i] \in Migration
      /\ DOMAIN List(Head(queue)) = 1..Len(List(Head(queue)))
      /\ Len(List(Head(queue))) \in Nat
      /\ UNCHANGED release
  BY <1>a, <1>b, HeadIs DEF Skip, Up, Commit, Reject, Supervise, DiskFails
<1>d. \A a : List(a)' = List(a)
  BY <1>c DEF List
<1>e. at <= Len(List(Head(queue))) => at \in DOMAIN List(Head(queue)) /\ Current \in Migration
  BY <1>a, <1>c DEF Current
<1>1. ASSUME UNCHANGED <<schema, applied, supervised>> PROVE SchemaAsRecorded'
  <2>1. \A a : Leaves(a)' = Leaves(a)
    BY <1>1 DEF Leaves
  <2>2. \A a, m : Recorded(a, m)' <=> Recorded(a, m)
    BY <1>1 DEF Recorded
  <2>3. QED
    BY <1>a, <1>d, <1>1, <2>1, <2>2 DEF SchemaAsRecorded
<1>2. ASSUME NextApp, UNCHANGED <<schema, applied, release>>,
             supervised' \subseteq ToSet(Apps), unlucky' \subseteq ToSet(Apps)
      PROVE  BootingInv'
  <2>1. queue' = Tail(queue) /\ at' = 1 /\ txn' = NoTxn
    BY <1>2 DEF NextApp
  <2>2. MigrationsTypeOK'
    BY <1>a, <1>c, <1>2, <2>1 DEF MigrationsTypeOK
  <2>3. queue' # <<>> => \A i \in DOMAIN List(Head(queue')) : ~ (i < 1)
    <3>1. SUFFICES ASSUME queue' # <<>> PROVE \A i \in DOMAIN List(Head(queue')) : ~ (i < 1)
      OBVIOUS
    <3>2. Head(queue') \in ToSet(Apps)
      BY <1>c, <2>1, <3>1, HeadTailProperties
    <3>3. List(Head(queue')) \in Seq(Migration)
      BY <1>a, <3>2, DeclaredAssumption DEF List, MigrationsTypeOK
    <3> HIDE DEF List
    <3>4. DOMAIN List(Head(queue')) = 1..Len(List(Head(queue'))) /\ Len(List(Head(queue'))) \in Nat
      BY <3>3
    <3>5. QED
      BY <3>4
  <2>4. List(Head(queue))' = List(Head(queue'))
    BY <1>2 DEF List
  <2>5. at' >= 1
    BY <2>1
  <2> HIDE DEF List
  <2>6. QED
    BY <2>1, <2>2, <2>3, <2>4, <2>5, host' = "migrating" DEF BootingInv
<1>3. CASE Skip
  <2>1. at' = at + 1 /\ UNCHANGED <<release, schema, applied, queue, txn, supervised, unlucky>>
        /\ txn = NoTxn /\ at \in DOMAIN List(Head(queue)) /\ Recorded(Head(queue), List(Head(queue))[at])
    BY <1>3, <1>e DEF Skip, Current
  <2>2. SchemaAsRecorded' /\ MigrationsTypeOK'
    BY <1>1, <1>a, <2>1 DEF MigrationsTypeOK
  <2>3. \A i \in DOMAIN List(Head(queue)) : i < at + 1 => i < at \/ i = at
    BY <1>a, <1>c
  <2>4. \A i \in DOMAIN List(Head(queue)) : i < at + 1 => Recorded(Head(queue), List(Head(queue))[i])
    BY <1>a, <1>b, <2>1, <2>3 DEF BootingInv
  <2>5. \A a, m : Recorded(a, m)' <=> Recorded(a, m)
    BY <2>1 DEF Recorded
  <2>6. at' >= 1
    BY <1>a, <2>1
  <2>7. BootingInv'
    BY <1>d, <2>1, <2>2, <2>4, <2>5, <2>6 DEF BootingInv
  <2>8. QED
    BY <2>2, <2>7 DEF MigratedInv
<1>4. CASE Up
  <2>1. /\ at \in DOMAIN List(Head(queue)) /\ Current \in Migration
        /\ txn' = (schema \ Current.drops) \cup Current.makes
        /\ UNCHANGED <<release, schema, applied, queue, at, supervised, unlucky>>
    BY <1>4, <1>e DEF Up
  <2>2. Current.drops \subseteq Tables /\ Current.makes \subseteq Tables /\ Current' = Current
    BY <1>d, <2>1 DEF Migration, Current
  <2>3. SchemaAsRecorded' /\ MigrationsTypeOK'
    BY <1>1, <1>a, <2>1, <2>2 DEF MigrationsTypeOK
  <2>4. \A a, m : Recorded(a, m)' <=> Recorded(a, m)
    BY <2>1 DEF Recorded
  <2>5. BootingInv'
    BY <1>a, <1>b, <1>d, <2>1, <2>2, <2>3, <2>4 DEF BootingInv
  <2>6. QED
    BY <2>3, <2>5 DEF MigratedInv
<1>5. CASE Commit
  <2>1. /\ applied' \in Seq(Rows)
        /\ \A a, m : Recorded(a, m) => Recorded(a, m)'
        /\ Has(applied', Head(queue), Current)
        /\ \A a \in ToSet(Apps) : schema' \cap Prefixed[a] = Leaves(a)' \cap Prefixed[a]
        /\ schema' \subseteq Tables
        /\ schema' \subseteq Framework \cup UNION {Prefixed[a] : a \in ToSet(Apps)}
    BY <1>5, CommitSchema
  <2>2. /\ at' = at + 1 /\ txn' = NoTxn /\ UNCHANGED <<release, queue, supervised, unlucky>>
        /\ at \in DOMAIN List(Head(queue))
    BY <1>5, <1>a DEF Commit, BootingInv
  <2>3. SchemaAsRecorded'
    BY <1>a, <1>d, <2>1, <2>2 DEF SchemaAsRecorded
  <2>4. MigrationsTypeOK'
    BY <1>a, <2>1, <2>2 DEF MigrationsTypeOK
  <2>5. \A i \in DOMAIN List(Head(queue)) : i < at + 1 => i < at \/ i = at
    BY <1>a, <1>c
  <2>6. \A i \in DOMAIN List(Head(queue)) : i < at + 1 => Recorded(Head(queue), List(Head(queue))[i])'
    <3>1. ASSUME NEW i \in DOMAIN List(Head(queue)), i < at + 1
          PROVE  Recorded(Head(queue), List(Head(queue))[i])'
      <4>1. CASE i < at
        <5>1. Recorded(Head(queue), List(Head(queue))[i])
          BY <1>a, <1>b, <4>1 DEF BootingInv
        <5>2. queue' = queue /\ List(Head(queue))' = List(Head(queue))
          BY <1>d, <2>2
        <5>3. QED
          BY <2>1, <5>1, <5>2
      <4>2. CASE i = at
        <5>1. Has(applied', Head(queue), List(Head(queue))[i])
          BY <2>1, <4>2 DEF Current
        <5>2. queue' = queue /\ List(Head(queue))' = List(Head(queue))
          BY <1>d, <2>2
        <5>3. QED
          BY <5>1, <5>2 DEF Recorded, Has
      <4>3. QED
        BY <2>5, <3>1, <4>1, <4>2
    <3>2. QED
      BY <3>1
  <2>7. at' >= 1
    BY <1>a, <2>2
  <2>8. BootingInv'
    BY <1>d, <2>2, <2>4, <2>6, <2>7 DEF BootingInv
  <2>9. QED
    BY <2>3, <2>8 DEF MigratedInv
<1>6. CASE Reject \/ DiskFails
  <2>1. /\ NextApp /\ UNCHANGED <<schema, applied, release, supervised>>
        /\ unlucky' \subseteq ToSet(Apps)
    BY <1>6, <1>a, <1>c DEF Reject, DiskFails, MigrationsTypeOK
  <2>2. supervised' \subseteq ToSet(Apps)
    BY <1>a, <2>1 DEF MigrationsTypeOK
  <2>3. QED
    BY <1>1, <1>2, <2>1, <2>2 DEF MigratedInv
<1>7. CASE Supervise
  <2>1. /\ NextApp /\ UNCHANGED <<schema, applied, release, unlucky>>
        /\ supervised' = supervised \cup {Head(queue)} /\ at > Len(List(Head(queue)))
    BY <1>7 DEF Supervise
  <2>2. supervised' \subseteq ToSet(Apps) /\ unlucky' \subseteq ToSet(Apps)
    BY <1>a, <1>c, <2>1 DEF MigrationsTypeOK
  <2>3. BootingInv'
    BY <1>2, <2>1, <2>2
  <2>4. \A a : Leaves(a)' = Leaves(a)
    BY <2>1 DEF Leaves
  <2>5. \A a, m : Recorded(a, m)' <=> Recorded(a, m)
    BY <2>1 DEF Recorded
  <2>6. \A i \in DOMAIN List(Head(queue)) : i < at
    BY <1>a, <1>c, <2>1
  <2>7. \A i \in DOMAIN List(Head(queue)) : Recorded(Head(queue), List(Head(queue))[i])
    BY <1>a, <1>b, <2>6 DEF BootingInv
  <2>8. \A a \in supervised' : \A i \in DOMAIN List(a) : Recorded(a, List(a)[i])
    BY <1>a, <2>1, <2>7 DEF SchemaAsRecorded
  <2>9. SchemaAsRecorded'
    BY <1>a, <1>d, <2>1, <2>4, <2>5, <2>8 DEF SchemaAsRecorded
  <2>10. QED
    BY <2>3, <2>9 DEF MigratedInv
<1>8. QED
  BY <1>3, <1>4, <1>5, <1>6, <1>7

LEMMA MigratedNext ==
  ASSUME MigratedInv, [Next]_vars
  PROVE  MigratedInv'
<1> USE DEF db
<1>a. BootingInv /\ MigrationsTypeOK /\ SchemaAsRecorded
  BY DEF MigratedInv, BootingInv
<1>1. ASSUME UNCHANGED migrationVars, host' \in {"down", "opening"} => host \in {"down", "opening"}
      PROVE  MigratedInv'
  <2>1. /\ UNCHANGED <<release, schema, applied, queue, at, txn, supervised, unlucky>>
    BY <1>1 DEF migrationVars
  <2>2. (\A a : List(a)' = List(a)) /\ (\A a : Leaves(a)' = Leaves(a))
        /\ \A a, m : Recorded(a, m)' <=> Recorded(a, m)
    BY <2>1 DEF List, Leaves, Recorded
  <2>3. Current' = Current
    BY <2>1, <2>2 DEF Current
  <2>4. BootingInv'
    BY <1>1, <1>a, <2>1, <2>2, <2>3 DEF BootingInv, MigrationsTypeOK
  <2>5. SchemaAsRecorded'
    BY <1>a, <2>1, <2>2 DEF SchemaAsRecorded
  <2>6. QED
    BY <2>4, <2>5 DEF MigratedInv
<1>2. ASSUME UNCHANGED <<schema, applied>>, txn' = NoTxn, at' = 1,
             release' = release \/ (release' \in DOMAIN Releases /\ queue' = <<>>),
             queue' = <<>> \/ (queue' = Apps /\ host' \notin {"down", "opening"}),
             supervised' = {}, unlucky' \subseteq ToSet(Apps)
      PROVE  MigratedInv'
  <2>1. Apps \in Seq(ToSet(Apps))
    BY ReleasesAssumption DEF ToSet
  <2>2. queue' \in Seq(ToSet(Apps)) /\ at' >= 1 /\ at' \in Nat /\ release' \in DOMAIN Releases
    <3>1. release' \in DOMAIN Releases
      BY <1>a, <1>2 DEF MigrationsTypeOK
    <3>2. queue' \in Seq(ToSet(Apps))
      <4>1. <<>> \in Seq(ToSet(Apps))
        OBVIOUS
      <4>2. queue' = <<>> \/ queue' = Apps
        BY <1>2
      <4>3. QED
        BY <2>1, <4>1, <4>2
    <3>3. QED
      BY <1>2, <3>1, <3>2
  <2>3. MigrationsTypeOK'
    BY <1>a, <1>2, <2>2 DEF MigrationsTypeOK
  <2>4. queue' # <<>> => \A i \in DOMAIN List(Head(queue))' : ~ (i < 1)
    <3>1. SUFFICES ASSUME queue' # <<>> PROVE \A i \in DOMAIN List(Head(queue))' : ~ (i < 1)
      OBVIOUS
    <3>2. Head(queue') \in ToSet(Apps)
      BY <2>2, <3>1, HeadTailProperties
    <3>3. List(Head(queue))' \in Seq(Migration)
      BY <2>2, <3>2, DeclaredAssumption DEF List
    <3> HIDE DEF List
    <3>4. DOMAIN List(Head(queue))' = 1..Len(List(Head(queue))') /\ Len(List(Head(queue))') \in Nat
      BY <3>3
    <3>5. QED
      BY <3>4
  <2>5. BootingInv'
    BY <1>2, <2>2, <2>3, <2>4 DEF BootingInv
  <2>6. \A a : Leaves(a)' = Leaves(a)
    BY <1>2 DEF Leaves
  <2>7. SchemaAsRecorded'
    BY <1>a, <1>2, <2>6 DEF SchemaAsRecorded
  <2>8. QED
    BY <2>5, <2>7 DEF MigratedInv
<1>3. CASE OpenStores
  <2>1. queue = <<>> /\ supervised = {} /\ txn = NoTxn
    BY <1>3, <1>a DEF OpenStores, BootingInv
  <2>2. QED
    BY <1>2, <1>3, <1>a, <2>1 DEF OpenStores, BeginMigrations, MigrationsTypeOK
<1>4. ASSUME StopMigrations PROVE MigratedInv'
  BY <1>2, <1>4 DEF StopMigrations
<1>5. CASE Migrate \/ MigrationFault
  BY <1>5, LoopNext DEF Migrate, MigrationFault
<1>6. CASE Install
  <2>1. host = "down" /\ release < Len(Releases) /\ release' = release + 1
        /\ UNCHANGED <<schema, applied, queue, at, txn, supervised, unlucky, host>>
    BY <1>6 DEF Install, Upgrade
  <2>2. release' \in DOMAIN Releases
    <3>1. DOMAIN Releases = 1..Len(Releases) /\ Len(Releases) \in Nat
      BY ReleasesAssumption
    <3>2. QED
      BY <1>a, <2>1, <3>1 DEF MigrationsTypeOK
  <2>3. queue = <<>> /\ supervised = {} /\ txn = NoTxn
    BY <1>a, <2>1 DEF BootingInv
  <2>4. MigrationsTypeOK'
    BY <1>a, <2>1, <2>2 DEF MigrationsTypeOK
  <2>5. BootingInv'
    BY <1>a, <2>1, <2>3, <2>4 DEF BootingInv
  <2>6. \A a : Leaves(a)' = Leaves(a)
    BY <2>1 DEF Leaves
  <2>7. SchemaAsRecorded'
    BY <1>a, <2>1, <2>3, <2>6 DEF SchemaAsRecorded
  <2>8. QED
    BY <2>5, <2>7 DEF MigratedInv
<1>7. CASE BootFails \/ ServeCutShort \/ Crash \/ Exit
  BY <1>4, <1>7 DEF BootFails, ServeCutShort, Crash, Exit
<1>8. CASE Start \/ Migrated \/ Serve \/ Receive \/ Finish \/ Browse \/ Misfortune \/ SignOut
           \/ Edit \/ TimePasses \/ Unheard \/ Shutdown \/ Watch \/ Unwatch
  BY <1>1, <1>8 DEF Start, Migrated, Serve, Receive, Finish, Browse, Misfortune, SignOut,
     Edit, TimePasses, Unheard, Shutdown, Watch, Unwatch
<1>9. CASE UNCHANGED vars
  BY <1>1, <1>9 DEF vars, hostVars
<1>10. QED
  BY <1>3, <1>5, <1>6, <1>7, <1>8, <1>9 DEF Next, Boot

HostOK ==
  host \in {"down", "opening", "migrating", "key", "serving", "draining"} /\ watching \in BOOLEAN

LEMMA HostType ==
  /\ Init => HostOK
  /\ HostOK /\ [Next]_vars => HostOK'
BY DEF HostOK, Quiet, Fault, Init, Next, Boot, Start, OpenStores, BootFails, Migrate, MigrationFault, Migrated, Serve,
   ServeCutShort, Receive, Finish, Browse, Misfortune, SignOut, Edit, TimePasses, Unheard,
   Watch, Unwatch, Shutdown, Exit, Crash, Install, vars, hostVars

(* run_migrations: whatever the Apps' migrations do, and wherever the host *)
(* stops or the database refuses, a boot finds of each App's tables those  *)
(* its recorded migrations, in their order, have left, and the Apps it     *)
(* supervises have all of theirs.                                          *)
THEOREM BootInvHolds == Spec => []BootInv
<1> DEFINE Inv == SignInTypeOK /\ MigratedInv /\ HostOK
<1>1. Init => Inv
  BY TypeInit, BootingInit, HostType
<1>2. Inv /\ [Next]_vars => Inv'
  BY TypeNext, MigratedNext, HostType
<1>3. Inv => BootInv
  BY DEF BootInv, TypeOK, HostOK, MigratedInv, BootingInv
<1>4. QED
  BY <1>1, <1>2, <1>3, PTL DEF Spec
=============================================================================
