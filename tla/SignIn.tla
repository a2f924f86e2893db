------------------------------- MODULE SignIn -------------------------------
(***************************************************************************)
(* Signing in to the console with Lark                                     *)
(* (crates/larkstack/src/routes/oauth.rs).  The server keeps nothing of a  *)
(* login: the handshake goes to the browser in a signed cookie and comes   *)
(* back with the callback, the session is another signed cookie.  One      *)
(* browser with several tabs shares one jar, so answers that arrive in     *)
(* another order than they were asked for undo each other's cookies; the   *)
(* configuration is read anew by login, callback and every request.        *)
(***************************************************************************)
EXTENDS Integers, Sequences, FiniteSets, SequencesExt

CONSTANTS
  Logins,     \* attempts to sign in, one tab each, numbered as they begin
  Accounts,   \* Lark accounts the operator may approve with
  EmailsOf,   \* enterprise address and address of an account, as Lark spells them
  Addresses,  \* addresses as typed
  Lower,      \* an address trimmed, in lower case
  Blank,      \* what a blank address trims to
  Names,      \* names of the Lark apps registry
  Configs,    \* configurations the console may be given
  Derived,    \* the callback's address as derived from the request's host
  Secret,     \* CONSOLE_SECRET: "unset", "short" or "long"
  TTL,        \* SESSION_TTL_SECS, in ticks of the clock
  Open,       \* what a configuration without sign-in resolves to
  Short,      \* a session.key cut short
  None

Scopes == {"unset", "none", "identity"}
Config == [bound : Names \cup {None}, admins : SUBSET Addresses, redirect : STRING,
           scope : Scopes, apps : [Names -> {"absent", "empty"} \cup STRING]]

(* What a configuration resolves to, and the two cookies.  A handshake has *)
(* besides the cookie's fields what Lark remembers of the request with its *)
(* state, and what it was resolved from.                                   *)
Offers == [client : STRING, redirect : STRING, scope : Scopes, admins : SUBSET Addresses]
Handshakes == [state : Logins, key : Nat, redirect : STRING, client : STRING,
               scope : Scopes, offered : Offers]
Sessions == [by : Logins, key : Nat, exp : Nat]

ASSUME ConfigsAssumption == Configs \subseteq Config /\ Derived \in STRING
ASSUME AddressesAssumption ==
  /\ Lower \in [Addresses -> Addresses] /\ Blank \in Addresses
  /\ \A x \in Addresses : Lower[Lower[x]] = Lower[x]
  /\ EmailsOf \in [Accounts -> SUBSET Addresses]
ASSUME SecretAssumption == Secret \in {"unset", "short", "long"} /\ TTL \in Nat
ASSUME NoneAssumption ==
  /\ None \notin Accounts \cup Nat \cup Handshakes \cup Sessions
  /\ Short \notin Nat /\ Open \notin Offers

VARIABLES
  config,    \* the live configuration
  key,       \* the key that signs the cookies, 0 the one derived from Secret
  keyfile,   \* session.key: a key, or None or Short
  keys,      \* keys drawn so far
  now,       \* the clock
  handshake, \* the jar's lk_oauth
  session,   \* the jar's lk_session
  stage,     \* where each login stands
  minted,    \* the handshake a login was given
  brought,   \* the handshake its callback brings
  account,   \* the account that approved it, or None
  resolved,  \* what its callback resolved
  answer,    \* the session its callback answers with, or None
  troubled,  \* history: logins something else has come in the way of
  lost       \* history: keys that could not be kept, or not be read by a boot

SignInTypeOK ==
  /\ config \in Configs /\ now \in Nat
  /\ key \in Nat /\ keys \in Nat /\ keyfile \in Nat \cup {None, Short}
  /\ handshake \in Handshakes \cup {None} /\ session \in Sessions \cup {None}
  /\ stage \in [Logins -> {"idle", "redirect", "page", "back", "exchange", "answered",
                           "in", "refused"}]
  /\ minted \in [Logins -> Handshakes \cup {None}]
  /\ brought \in [Logins -> Handshakes \cup {None}]
  /\ account \in [Logins -> Accounts \cup {None}]
  /\ resolved \in [Logins -> Offers \cup {None}]
  /\ answer \in [Logins -> Sessions \cup {None}]
  /\ troubled \subseteq Logins /\ lost \subseteq Nat

loginVars == <<stage, minted, brought, account, resolved, answer>>
cookieVars == <<handshake, session>>
keyVars == <<key, keyfile, keys>>
signInVars == <<config, keyVars, now, cookieVars, loginVars, troubled, lost>>

(* resolve: without a bound app that has credentials the console is open.  *)
Resolve(c) ==
  IF c.bound = None \/ c.apps[c.bound] \in {"absent", "empty"} THEN Open
  ELSE [client |-> c.apps[c.bound], redirect |-> c.redirect, scope |-> c.scope,
        admins |-> {Lower[x] : x \in c.admins} \ {Blank}]

(* effective_scope.                                                        *)
Scope(o) ==
  IF o.scope # "unset" THEN o.scope
  ELSE IF o.admins # {} THEN "identity" ELSE "none"

(* redirect_uri.                                                           *)
Redirect(o) == IF o.redirect # "" THEN o.redirect ELSE Derived

(* The allowlist: some address of the account, or no list.                 *)
Admits(o, emails) == o.admins = {} \/ emails \cap o.admins # {}

(* Mutant: addresses are compared as Lark spells them.                     *)
EmailsAsSpelt(a, scope) == IF scope # "identity" THEN {} ELSE EmailsOf[a] \ {Blank}

(* What user_info returns as addresses; without the scope, none.           *)
Emails(a, scope) ==
  IF scope # "identity" THEN {} ELSE {Lower[x] : x \in EmailsOf[a]} \ {Blank}

ReadSession == session # None /\ session.key = key /\ session.exp >= now

(* require_session, and the same question asked by me.                     *)
LetIn == Resolve(config) = Open \/ ReadSession

SignInInit ==
  /\ config \in Configs
  /\ key = 0 /\ keyfile = None /\ keys = 0 /\ now = 0
  /\ handshake = None /\ session = None
  /\ stage = [l \in Logins |-> "idle"] /\ minted = [l \in Logins |-> None]
  /\ brought = [l \in Logins |-> None] /\ account = [l \in Logins |-> None]
  /\ resolved = [l \in Logins |-> None] /\ answer = [l \in Logins |-> None]
  /\ troubled = {} /\ lost = {}

Go(l, s) == stage' = [stage EXCEPT ![l] = s]

Underway == {l \in Logins : stage[l] \notin {"idle", "in", "refused"}}

-----------------------------------------------------------------------------
(* Mutant: a key is drawn at every boot.                                   *)
LoadKeyAnew ==
  /\ keys' = keys + 1 /\ key' = keys' /\ keyfile' = keys'
  /\ UNCHANGED <<config, now, cookieVars, loginVars, troubled, lost>>

(* load_session_key: a long enough secret, a file that is long enough, or  *)
(* a key drawn and kept.                                                   *)
LoadKey ==
  /\ IF Secret = "long" THEN key' = 0 /\ UNCHANGED <<keyfile, keys>>
     ELSE IF keyfile \notin {None, Short} THEN key' = keyfile /\ UNCHANGED <<keyfile, keys>>
     ELSE keys' = keys + 1 /\ key' = keys' /\ keyfile' = keys'
  /\ UNCHANGED <<config, now, cookieVars, loginVars, troubled, lost>>

(* A file that cannot be read counts as one that is not there: the key in  *)
(* it gives way to one drawn anew.                                         *)
GivenUp == {keyfile} \ {None, Short}

LoadKeyUnread ==
  /\ Secret # "long" /\ GivenUp # {}
  /\ keys' = keys + 1 /\ key' = keys' /\ keyfile' = keys' /\ lost' = lost \cup GivenUp
  /\ UNCHANGED <<config, now, cookieVars, loginVars, troubled>>

(* Nor can the file be written: the key drawn lasts until the next boot,   *)
(* which finds the file as it was, or cut short.                           *)
LoadKeyUnkept ==
  /\ Secret # "long" /\ keys' = keys + 1 /\ key' = keys'
  /\ keyfile' \in {keyfile, Short} /\ lost' = lost \cup GivenUp \cup {key'}
  /\ UNCHANGED <<config, now, cookieVars, loginVars, troubled>>

(* The process dies while it writes the file.                              *)
KeyCutShort ==
  /\ Secret # "long" /\ keyfile' = Short /\ lost' = lost \cup GivenUp
  /\ UNCHANGED <<config, key, keys, now, cookieVars, loginVars, troubled>>

(* GET /auth/login.                                                        *)
Login(l) ==
  LET o == Resolve(config) IN
  /\ stage[l] = "idle" /\ \A m \in Logins : m < l => stage[m] # "idle"
  /\ IF o = Open
       THEN Go(l, "refused") /\ troubled' = troubled \cup {l} /\ UNCHANGED minted
       ELSE /\ Go(l, "redirect") /\ UNCHANGED troubled
            /\ minted' = [minted EXCEPT ![l] =
                 [state |-> l, key |-> key, redirect |-> Redirect(o), client |-> o.client,
                  scope |-> Scope(o), offered |-> o]]
  /\ UNCHANGED <<config, keyVars, now, cookieVars, brought, account, resolved, answer, lost>>

(* The answer reaches the browser: a cookie, and Lark's page.              *)
Redirected(l) ==
  /\ stage[l] = "redirect" /\ Go(l, "page")
  /\ handshake' = minted[l]
  /\ troubled' = troubled \cup {m \in Logins : stage[m] = "page"}
  /\ UNCHANGED <<config, keyVars, now, session, minted, brought, account, resolved, answer, lost>>

(* The operator approves with an account, or denies, and Lark sends the    *)
(* browser back with what its jar holds by then.                           *)
Decide(l, a) ==
  /\ stage[l] = "page" /\ Go(l, "back")
  /\ account' = [account EXCEPT ![l] = a]
  /\ brought' = [brought EXCEPT ![l] = handshake]
  /\ troubled' = IF a = None THEN troubled \cup {l} ELSE troubled
  /\ UNCHANGED <<config, keyVars, now, cookieVars, minted, resolved, answer, lost>>

(* GET /auth/callback up to its first request.  A cookie that is missing   *)
(* or signed by another key is refused as it is; any other is consumed.    *)
Callback(l) ==
  LET hs == brought[l]
      o == Resolve(config)
      goes == account[l] # None /\ hs # None /\ hs.state = l /\ o # Open
  IN /\ stage[l] = "back"
     /\ IF hs = None \/ hs.key # key THEN Go(l, "refused") /\ UNCHANGED resolved
        ELSE IF goes THEN Go(l, "exchange") /\ resolved' = [resolved EXCEPT ![l] = o]
        ELSE Go(l, "answered") /\ UNCHANGED resolved
     /\ UNCHANGED <<config, keyVars, now, cookieVars, minted, brought, account, answer, troubled,
                    lost>>

(* exchange_code and fetch_user, then the allowlist and the session.  Lark *)
(* wants the client, the address and the verifier the code was given for.  *)
Exchange(l) ==
  LET granted == /\ resolved[l].client = minted[l].client
                 /\ brought[l].redirect = minted[l].redirect /\ brought[l].state = l
      emails == Emails(account[l], minted[l].scope)
  IN /\ stage[l] = "exchange" /\ Go(l, "answered")
     /\ answer' = IF granted /\ Admits(resolved[l], emails)
                    THEN [answer EXCEPT ![l] = [by |-> l, key |-> key, exp |-> now + TTL]]
                    ELSE answer
     /\ UNCHANGED <<config, keyVars, now, cookieVars, minted, brought, account, resolved,
                    troubled, lost>>

(* Lark does not answer as it should.                                      *)
LarkFails(l) ==
  /\ stage[l] = "exchange" /\ Go(l, "answered")
  /\ troubled' = troubled \cup {l}
  /\ UNCHANGED <<config, keyVars, now, cookieVars, minted, brought, account, resolved, answer,
                 lost>>

(* The answer reaches the browser: whatever handshake the jar holds by now *)
(* is removed.                                                             *)
Answered(l) ==
  /\ stage[l] = "answered"
  /\ Go(l, IF answer[l] # None THEN "in" ELSE "refused")
  /\ handshake' = None
  /\ session' = IF answer[l] # None THEN answer[l] ELSE session
  /\ troubled' = troubled \cup {m \in Logins : stage[m] = "page"}
  /\ UNCHANGED <<config, keyVars, now, minted, brought, account, resolved, answer, lost>>

Logout ==
  /\ session # None /\ session' = None
  /\ UNCHANGED <<config, keyVars, now, handshake, loginVars, troubled, lost>>

(* An edit of the configuration through the console, by whoever is let in. *)
Configure(c) ==
  /\ LetIn /\ c # config /\ config' = c
  /\ troubled' = troubled \cup Underway
  /\ UNCHANGED <<keyVars, now, cookieVars, loginVars, lost>>

(* The clock matters while there is a session to expire.                   *)
Tick ==
  /\ session # None /\ now' = now + 1
  /\ UNCHANGED <<config, keyVars, cookieVars, loginVars, troubled, lost>>

(* A callback the host does not live to answer, or does not hear.          *)
Dropped(gone) ==
  /\ stage' = [l \in Logins |-> IF l \in gone THEN "refused" ELSE stage[l]]
  /\ troubled' = troubled \cup gone
  /\ UNCHANGED <<config, keyVars, now, cookieVars, minted, brought, account, resolved, answer,
                 lost>>

-----------------------------------------------------------------------------
(* A login is refused for a reason the operator can name: an account that  *)
(* is not on the list, or no list of addresses asked for; another tab's    *)
(* login or answer while this one was on Lark's page; an edit of the       *)
(* configuration under way; Lark or the host failing; a signing key that   *)
(* could not be kept or read.  Restarts alone refuse nobody.               *)
OnTheList(o, a) ==
  \/ o.admins = {}
  \/ o.scope # "none" /\ \E x \in EmailsOf[a] : Lower[x] \in o.admins

(* A cookie signed with a key that could not be kept, or not be read.      *)
SignedByLost(c) == c # None /\ c.key \in lost

RefusalExplained ==
  \A l \in Logins : stage[l] = "refused" =>
    \/ l \in troubled \/ SignedByLost(minted[l])
    \/ ~ OnTheList(minted[l].offered, account[l])

(* A session in the jar is good until it expires, however often the host   *)
(* restarts, unless its key could not be kept, or some boot could not read *)
(* the file that holds it.                                                 *)
SessionLasts(serving) ==
  serving /\ session # None /\ session.exp >= now => ReadSession \/ SignedByLost(session)
=============================================================================
