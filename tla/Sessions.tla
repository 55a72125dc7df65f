------------------------------- MODULE Sessions -------------------------------
(***************************************************************************)
(* How a user gets a session and how a request shows it: the two passkey   *)
(* ceremonies (apps/server/src/auth/passkeys.ts, api/auth.ts), the demo    *)
(* sign-in, the key store that signs and verifies sessions                 *)
(* (auth/jwt.ts), the check of every request (middleware/auth.ts) and      *)
(* logout (packages/db/revocation.ts).                                     *)
(*                                                                         *)
(* A handler is a call that takes one step per database statement, and the *)
(* key store is filled by whichever calls come first after a start of the  *)
(* process, so calls meet while it is half filled.  What the authenticator *)
(* and the signatures compute is left out: a check of them passes or not.  *)
(***************************************************************************)
EXTENDS Naturals, FiniteSets

CONSTANTS Keys,           \* key pairs, by kid
          Users,          \* emails, and the users who have them
          Members,        \* the users with an org membership: nothing adds one
          Challenges,     \* challenges that begin-requests draw
          Passkeys,       \* credential ids
          Tokens,         \* session tokens, by jti
          Calls,          \* slots for the requests being served
          MaxCount,       \* bound of the sign counts
          None,           \* no row, no user, no key
          SessionScenes   \* where a behaviour starts

VARIABLES env,        \* JWT_EC_PRIVATE_KEY and JWT_EC_PRIVATE_KEY_OLD
          store,      \* _currentKeyPair, _oldKeyPair, _keyStoreInitialised
          users,      \* users, by email
          challenge,  \* webauthn_challenges, and those that are no longer there
          passkey,    \* passkey_credentials
          token,      \* the tokens that were signed
          revoked,    \* revoked_tokens
          call,       \* requests being served
          door        \* the operations of this behaviour

sessionTables == <<users, challenge, passkey, token, revoked>>
sessionVars == <<env, store, sessionTables, call, door>>

KeyPair == [current : Keys \cup {None}, old : Keys \cup {None}]

Challenge == [flow : {"registration", "assertion"}, user : Users \cup {None},
              state : {"live", "expired", "consumed"}]

Passkey == [user : Users, count : 0..MaxCount, by : Challenges \cup {None}]

Token == [user : Users, key : Keys, live : BOOLEAN, by : Challenges \cup {None}]

Call == [pc : {"idle", "createUser", "createChallenge", "consume", "insertPasskey",
               "readPasskey", "writeCount", "readMember", "sign", "verify",
               "checkRevoked", "revoke", "accepted", "refused"},
         flow : {"registration", "assertion", "demo", "request", "logout"},
         user : Users \cup {None}, challenge : Challenges \cup {None},
         passkey : Passkeys \cup {None}, count : 0..MaxCount,
         load : {"no", "current", "old", "done"},
         token : Tokens \cup {None}, late : BOOLEAN, failed : BOOLEAN]

(* A behaviour starts before any ceremony has ended. *)
ASSUME SessionsAssumption ==
  /\ None \notin Keys \cup Users \cup Challenges \cup Passkeys \cup Tokens
  /\ None \notin Challenge \cup Passkey \cup Token
  /\ Members \subseteq Users /\ MaxCount \in Nat
  /\ \A scene \in SessionScenes :
       /\ scene.env \in KeyPair /\ scene.users \subseteq Users
       /\ scene.passkeys \in [Passkeys -> {row \in Passkey : row.by = None} \cup {None}]
       /\ scene.tokens \in [Tokens -> {row \in Token : row.by = None} \cup {None}]

SessionsTypeOK ==
  /\ env \in KeyPair
  /\ store \in [current : Keys \cup {None}, old : Keys \cup {None}, ready : BOOLEAN]
  /\ users \subseteq Users
  /\ challenge \in [Challenges -> Challenge \cup {None}]
  /\ passkey \in [Passkeys -> Passkey \cup {None}]
  /\ token \in [Tokens -> Token \cup {None}]
  /\ revoked \subseteq {t \in Tokens : token[t] # None}
  /\ call \in [Calls -> Call]
  /\ \A q \in Calls : call[q].pc \in {"verify", "checkRevoked", "revoke", "accepted",
                                      "refused"} => token[call[q].token] # None

NoCall == [pc |-> "idle", flow |-> "request", user |-> None, challenge |-> None,
           passkey |-> None, count |-> 0, load |-> "no", token |-> None,
           late |-> FALSE, failed |-> FALSE]

EmptyStore == [current |-> None, old |-> None, ready |-> FALSE]

SessionsInit(scene) ==
  /\ env = scene.env
  /\ store = EmptyStore
  /\ users = scene.users
  /\ challenge = [c \in Challenges |-> None]
  /\ passkey = scene.passkeys
  /\ token = scene.tokens
  /\ revoked = {}
  /\ call = [q \in Calls |-> NoCall]
  /\ door = scene.operations

At(q, pc) == call[q].pc = pc

Open(q, request) == At(q, "idle") /\ call' = [call EXCEPT ![q] = request]

GoTo(q, pc) == call' = [call EXCEPT ![q].pc = pc]

Close(q) == call' = [call EXCEPT ![q] = NoCall]

-----------------------------------------------------------------------------
(* The begin-requests: a user and a challenge. *)

(* handleDemoSession and passkeyRegisterBegin look the user up alike.       *)
FindUser(q, u, flow, next) ==
  /\ Open(q, [NoCall EXCEPT !.flow = flow, !.user = u,
                            !.pc = IF u \in users THEN next ELSE "createUser"])
  /\ UNCHANGED <<env, store, sessionTables, door>>

RegisterBegin(q, u) ==
  "register" \in door /\ FindUser(q, u, "registration", "createChallenge")

DemoSignIn(q, u) == "demo" \in door /\ FindUser(q, u, "demo", "sign")

LoginBegin(q) ==
  /\ "signIn" \in door
  /\ Open(q, [NoCall EXCEPT !.flow = "assertion", !.pc = "createChallenge"])
  /\ UNCHANGED <<env, store, sessionTables, door>>

(* users.email is UNIQUE: whoever comes second is answered 500. *)
CreateUser(q) ==
  /\ At(q, "createUser")
  /\ IF call[q].user \in users
       THEN Close(q) /\ UNCHANGED users
       ELSE /\ users' = users \cup {call[q].user}
            /\ GoTo(q, IF call[q].flow = "demo" THEN "sign" ELSE "createChallenge")
  /\ UNCHANGED <<env, store, challenge, passkey, token, revoked, door>>

CreateChallenge(q, c) ==
  /\ At(q, "createChallenge")
  /\ challenge[c] = None
  /\ challenge' = [challenge EXCEPT ![c] = [flow |-> call[q].flow, user |-> call[q].user,
                                            state |-> "live"]]
  /\ Close(q)
  /\ UNCHANGED <<env, store, users, passkey, token, revoked, door>>

ChallengeExpires(c) ==
  /\ challenge[c] # None /\ challenge[c].state = "live"
  /\ challenge' = [challenge EXCEPT ![c].state = "expired"]
  /\ UNCHANGED <<env, store, users, passkey, token, revoked, call, door>>

-----------------------------------------------------------------------------
(* The complete-requests, each with a challenge of either flow: the browser *)
(* may send one twice, or late.                                             *)

Complete(q, c, flow) ==
  /\ challenge[c] # None
  /\ (IF flow = "registration" THEN "register" ELSE "signIn") \in door
  /\ Open(q, [NoCall EXCEPT !.flow = flow, !.challenge = c, !.pc = "consume"])
  /\ UNCHANGED <<env, store, sessionTables, door>>

Consumable(q) ==
  LET row == challenge[call[q].challenge]
  IN row.flow = call[q].flow /\ row.state = "live"

(* The challenge is gone even when a check of the response then fails.      *)
ConsumeChallenge(q) ==
  /\ At(q, "consume")
  /\ \/ /\ Consumable(q)
        /\ challenge' = [challenge EXCEPT ![call[q].challenge].state = "consumed"]
        /\ \/ call' = [call EXCEPT ![q].user = challenge[call[q].challenge].user,
                         ![q].pc = IF call[q].flow = "registration"
                                     THEN "insertPasskey" ELSE "readPasskey"]
           \/ Close(q)
     \/ ~Consumable(q) /\ Close(q) /\ UNCHANGED challenge
  /\ UNCHANGED <<env, store, users, passkey, token, revoked, door>>

InsertPasskey(q, k, n) ==
  /\ At(q, "insertPasskey")
  /\ passkey[k] = None
  /\ passkey' = [passkey EXCEPT ![k] = [user |-> call[q].user, count |-> n,
                                        by |-> call[q].challenge]]
  /\ Close(q)
  /\ UNCHANGED <<env, store, users, challenge, token, revoked, door>>

(* An authenticator that does not count always reports 0. *)
ReadPasskey(q, k, n) ==
  /\ At(q, "readPasskey")
  /\ passkey[k] # None
  /\ IF passkey[k].count > 0 /\ n <= passkey[k].count
       THEN Close(q)
       ELSE call' = [call EXCEPT ![q].passkey = k, ![q].count = n,
                                 ![q].user = passkey[k].user, ![q].pc = "writeCount"]
  /\ UNCHANGED <<env, store, sessionTables, door>>

WriteCount(q) ==
  /\ At(q, "writeCount")
  /\ passkey' = [passkey EXCEPT ![call[q].passkey].count = call[q].count]
  /\ GoTo(q, "readMember")
  /\ UNCHANGED <<env, store, users, challenge, token, revoked, door>>

(* 403 for a user who belongs to no org. *)
ReadMember(q) ==
  /\ At(q, "readMember")
  /\ IF call[q].user \in Members THEN GoTo(q, "sign") ELSE Close(q)
  /\ UNCHANGED <<env, store, sessionTables, door>>

-----------------------------------------------------------------------------
(* The key store: initKeyStore is awaited before every use of a key.        *)

NeedsKeys(q) == call[q].pc \in {"sign", "verify"}

HasKeys(q) == call[q].load = "done" \/ (call[q].load = "no" /\ store.ready)

StartLoading(q) ==
  /\ NeedsKeys(q) /\ call[q].load = "no" /\ ~store.ready
  /\ call' = [call EXCEPT ![q].load = "current"]
  /\ UNCHANGED <<env, store, sessionTables, door>>

Fill(q, keys, next) ==
  /\ store' = keys
  /\ call' = [call EXCEPT ![q].load = next]
  /\ UNCHANGED <<env, sessionTables, door>>

(* Without a configured key each process draws a new one. *)
Fresh(k) ==
  k # store.current /\ \A t \in Tokens : token[t] # None => token[t].key # k

CurrentKey(k) == IF env.current = None THEN Fresh(k) ELSE k = env.current

AfterCurrent == IF env.old = None THEN "done" ELSE "old"

(* Mutant: the store counts as filled once the current key is there. *)
LoadCurrentReady(q) ==
  /\ call[q].load = "current"
  /\ \E k \in Keys :
       CurrentKey(k) /\ Fill(q, [store EXCEPT !.current = k, !.ready = TRUE], AfterCurrent)

LoadCurrent(q) ==
  /\ call[q].load = "current"
  /\ \E k \in Keys :
       /\ CurrentKey(k)
       /\ Fill(q, [store EXCEPT !.current = k, !.ready = @ \/ env.old = None], AfterCurrent)

LoadOld(q) ==
  /\ call[q].load = "old"
  /\ Fill(q, [store EXCEPT !.old = env.old, !.ready = TRUE], "done")

Sign(q, t) ==
  /\ At(q, "sign") /\ HasKeys(q)
  /\ token[t] = None
  /\ token' = [token EXCEPT ![t] = [user |-> call[q].user, key |-> store.current,
                                    live |-> TRUE, by |-> call[q].challenge]]
  /\ Close(q)
  /\ UNCHANGED <<env, store, users, challenge, passkey, revoked, door>>

-----------------------------------------------------------------------------
(* A request, or a logout, with the cookie that holds a token. *)

Present(q, t, flow) ==
  /\ flow \in door
  /\ token[t] # None
  /\ Open(q, [NoCall EXCEPT !.flow = flow, !.token = t, !.pc = "verify",
                            !.late = t \in revoked])
  /\ UNCHANGED <<env, store, sessionTables, door>>

Verified(q) ==
  LET t == token[call[q].token]
  IN t.live /\ t.key \in {store.current, store.old}

Verify(q) ==
  /\ At(q, "verify") /\ HasKeys(q)
  /\ GoTo(q, IF Verified(q) THEN "checkRevoked" ELSE "refused")
  /\ UNCHANGED <<env, store, sessionTables, door>>

(* A failure of the query is answered 401 as well: requireAuth catches all. *)
CheckRevoked(q) ==
  /\ At(q, "checkRevoked")
  /\ \/ GoTo(q, IF call[q].token \in revoked THEN "refused"
                ELSE IF call[q].flow = "logout" THEN "revoke" ELSE "accepted")
     \/ call' = [call EXCEPT ![q].pc = "refused", ![q].failed = TRUE]
  /\ UNCHANGED <<env, store, sessionTables, door>>

Revoke(q) ==
  /\ At(q, "revoke")
  /\ revoked' = revoked \cup {call[q].token}
  /\ Close(q)
  /\ UNCHANGED <<env, store, users, challenge, passkey, token, door>>

Answer(q) ==
  /\ call[q].pc \in {"accepted", "refused"}
  /\ Close(q)
  /\ UNCHANGED <<env, store, sessionTables, door>>

TokenExpires(t) ==
  /\ token[t] # None /\ token[t].live
  /\ token' = [token EXCEPT ![t].live = FALSE]
  /\ UNCHANGED <<env, store, users, challenge, passkey, revoked, call, door>>

-----------------------------------------------------------------------------
(* The process starts anew, perhaps with other keys in its environment.     *)

Restart(keys) ==
  /\ env' = keys
  /\ store' = EmptyStore
  /\ call' = [q \in Calls |-> NoCall]
  /\ UNCHANGED <<sessionTables, door>>

(* A rotation keeps the key it replaces as the old one. *)
Deploy ==
  /\ "deploy" \in door
  /\ \/ Restart(env)
     \/ \E k \in Keys \ {env.current, env.old} :
          Restart([current |-> k, old |-> env.current])
     \/ Restart([env EXCEPT !.old = None])

(* A statement throws: 500, 400 or 401, and for a logout 200 all the same.  *)
CallFails(q) ==
  /\ call[q].pc \notin {"idle", "accepted", "refused"}
  /\ Close(q)
  /\ UNCHANGED <<env, store, sessionTables, door>>

SessionsNext ==
  \/ \E q \in Calls :
       \/ \E u \in Users : RegisterBegin(q, u) \/ DemoSignIn(q, u)
       \/ LoginBegin(q) \/ CreateUser(q)
       \/ \E c \in Challenges :
            \/ CreateChallenge(q, c)
            \/ \E flow \in {"registration", "assertion"} : Complete(q, c, flow)
       \/ ConsumeChallenge(q)
       \/ \E k \in Passkeys, n \in 0..MaxCount : InsertPasskey(q, k, n) \/ ReadPasskey(q, k, n)
       \/ WriteCount(q) \/ ReadMember(q)
       \/ StartLoading(q) \/ LoadCurrent(q) \/ LoadOld(q)
       \/ \E t \in Tokens :
            \/ Sign(q, t)
            \/ \E flow \in {"request", "logout"} : Present(q, t, flow)
       \/ Verify(q) \/ CheckRevoked(q) \/ Revoke(q) \/ Answer(q) \/ CallFails(q)
  \/ \E c \in Challenges : ChallengeExpires(c)
  \/ \E t \in Tokens : TokenExpires(t)
  \/ Deploy

SessionsSpec ==
  (\E scene \in SessionScenes : SessionsInit(scene)) /\ [][SessionsNext]_sessionVars

-----------------------------------------------------------------------------
(* A user is not signed out by a restart or a rotation: a request is        *)
(* refused only for a token that expired, was revoked, or was signed with a *)
(* key the deployment no longer has, and not because other calls are still  *)
(* filling the key store (initKeyStore, verifyJwt).                         *)
AcceptsLive ==
  \A q \in Calls : At(q, "refused") /\ ~call[q].failed =>
    LET t == token[call[q].token]
    IN ~t.live \/ call[q].token \in revoked \/ t.key \notin {env.current, env.old}

(* Whatever is restarted in between, no request that starts after a logout  *)
(* has revoked its token is served (handleLogout, verifyJwt).               *)
LogoutSticks == \A q \in Calls : call[q].late => ~At(q, "accepted")

(* However often and in which order a browser sends its answers, a          *)
(* challenge leads to one passkey or to one session, of the flow it was     *)
(* drawn for, and a session belongs to a member who registered a passkey    *)
(* (consumeChallenge, handlePasskeyLoginComplete).                          *)
CeremonyOnce ==
  /\ \A t \in Tokens : token[t] # None /\ token[t].by # None =>
       /\ challenge[token[t].by].flow = "assertion"
       /\ token[t].user \in Members
       /\ \E k \in Passkeys : passkey[k] # None /\ passkey[k].user = token[t].user
       /\ \A u \in Tokens \ {t} : token[u] # None => token[u].by # token[t].by
  /\ \A k \in Passkeys : passkey[k] # None /\ passkey[k].by # None =>
       /\ challenge[passkey[k].by].flow = "registration"
       /\ \A j \in Passkeys \ {k} : passkey[j] # None => passkey[j].by # passkey[k].by

(* Who signed in stays signed in until the session ends, and nobody else    *)
(* is: of a ceremony, of a token, after a logout.                           *)
SessionsSound == AcceptsLive /\ LogoutSticks /\ CeremonyOnce
=============================================================================
