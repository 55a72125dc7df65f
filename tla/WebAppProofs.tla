----------------------------- MODULE WebAppProofs -----------------------------
(***************************************************************************)
(* Theorems about the browser's side of the program and the door it enters *)
(* by, for any number of users, keys, tokens, calls, tabs, workers and     *)
(* runs of the scripts.  Each part has an inductive invariant of its own:  *)
(*   - sessions: what a call has learned stays true until it ends, for a   *)
(*     consumed challenge is never live again, a passkey keeps its user, a *)
(*     token its key, and a revoked token stays revoked.  So it is enough  *)
(*     to say of each call what it holds (OKCall), that no two hold one    *)
(*     challenge (Once), and how far the key store is filled (Filled);     *)
(*   - the probe: one effect is active, and its call carries the cookie    *)
(*     that the browser has (ProbeInv);                                    *)
(*   - the login page (SignInInv), the run review page, whose screen shows *)
(*     an earlier state of a server that only goes forward (ReviewInv),    *)
(*     the pages of a selection (SelectInv), and of them the page of the   *)
(*     trends, which asks month by month: the months of a range are found  *)
(*     one after the other, and what is awaited is of the range selected   *)
(*     (TrendsInv);                                                        *)
(*   - the limiter: every admitted request still in a window is on the     *)
(*     list, and a promise names the time that frees a place (LimiterInv); *)
(*   - deployments: what the cluster runs at each step of a run that works *)
(*     alone (InPlace), and what has passed its gate while nobody has      *)
(*     overlapped (Orderly);                                               *)
(*   - the shell: whoever did not type the path is on a page the sidebar   *)
(*     highlights, or the redirect still has to follow a change of the     *)
(*     role (Guided).                                                      *)
(* With them go the types (SessionsTyped, ScreenTyped, ShellTyped,         *)
(* RolloutTyped).                                                          *)
(***************************************************************************)
EXTENDS WebApp, SequenceTheorems, Sums

(* A registration is of a user. *)
Drawn == {row \in Challenge : row.flow = "registration" => row.user \in Users}

Typed ==
  /\ env \in KeyPair
  /\ store \in [current : Keys \cup {None}, old : Keys \cup {None}, ready : BOOLEAN]
  /\ challenge \in [Challenges -> Drawn \cup {None}]
  /\ passkey \in [Passkeys -> Passkey \cup {None}]
  /\ token \in [Tokens -> Token \cup {None}]
  /\ revoked \subseteq Tokens
  /\ call \in [Calls -> Call]

-----------------------------------------------------------------------------
(* What a call holds *)

InCeremony(s) ==
  s.pc \in {"consume", "insertPasskey", "readPasskey", "writeCount", "readMember"}

(* It has consumed a challenge. *)
Uses(s) ==
  /\ s.pc \in {"insertPasskey", "readPasskey", "writeCount", "readMember", "sign"}
  /\ s.challenge # None

Registered(u, rows) == \E k \in Passkeys : rows[k] # None /\ rows[k].user = u

Shows(s) == s.pc \in {"verify", "checkRevoked", "revoke", "accepted", "refused"}

Asks(s) ==
  /\ s.pc = "createUser" =>
       s.user \in Users /\ s.challenge = None /\ s.flow \in {"registration", "demo"}
  /\ s.pc = "createChallenge" =>
       /\ s.flow \in {"registration", "assertion"}
       /\ s.flow = "registration" => s.user \in Users

Performs(s, challenges, passkeys) ==
  /\ InCeremony(s) => s.challenge \in Challenges /\ challenges[s.challenge] # None
  /\ s.pc = "insertPasskey" => s.user \in Users /\ s.flow = "registration"
  /\ s.pc \in {"readPasskey", "writeCount", "readMember"} => s.flow = "assertion"
  /\ s.pc \in {"writeCount", "readMember"} =>
       /\ s.passkey \in Passkeys /\ passkeys[s.passkey] # None
       /\ s.user = passkeys[s.passkey].user
  /\ s.pc = "sign" =>
       /\ s.user \in Users
       /\ s.challenge # None =>
            s.flow = "assertion" /\ s.user \in Members /\ Registered(s.user, passkeys)
  /\ Uses(s) =>
       /\ s.challenge \in Challenges /\ challenges[s.challenge] # None
       /\ challenges[s.challenge].state = "consumed"
       /\ challenges[s.challenge].flow = s.flow

Presents(s, tokens, gone, keys) ==
  /\ Shows(s) => s.token \in Tokens /\ tokens[s.token] # None
  /\ s.late => s.token \in gone
  /\ s.pc = "accepted" => ~s.late
  /\ s.pc = "refused" /\ ~s.failed =>
       \/ ~tokens[s.token].live \/ s.token \in gone
       \/ tokens[s.token].key \notin {keys.current, keys.old}

OKCall(s, challenges, passkeys, tokens, gone, keys) ==
  Asks(s) /\ Performs(s, challenges, passkeys) /\ Presents(s, tokens, gone, keys)

CallsOK == \A q \in Calls : OKCall(call[q], challenge, passkey, token, revoked, env)

(* A challenge has led to one thing at most. *)
Once ==
  /\ \A q, r \in Calls :
       Uses(call[q]) /\ Uses(call[r]) /\ call[q].challenge = call[r].challenge => q = r
  /\ \A t \in Tokens : token[t] # None /\ token[t].by # None =>
       /\ challenge[token[t].by] # None /\ challenge[token[t].by].state = "consumed"
       /\ \A q \in Calls : Uses(call[q]) => call[q].challenge # token[t].by
  /\ \A k \in Passkeys : passkey[k] # None /\ passkey[k].by # None =>
       /\ challenge[passkey[k].by] # None /\ challenge[passkey[k].by].state = "consumed"
       /\ \A q \in Calls : Uses(call[q]) => call[q].challenge # passkey[k].by

(* How far the key store is filled. *)
HasCurrent == store.current # None /\ (env.current # None => store.current = env.current)

Filled ==
  /\ store.old \in {None, env.old}
  /\ store.ready => HasCurrent /\ store.old = env.old
  /\ \A q \in Calls :
       /\ call[q].load \in {"old", "done"} => HasCurrent
       /\ call[q].load = "done" => store.old = env.old

SessionsInv == Typed /\ CallsOK /\ Once /\ Filled /\ CeremonyOnce

-----------------------------------------------------------------------------
LEMMA NoCallOK ==
  /\ NoCall \in Call /\ ~Uses(NoCall) /\ NoCall.load = "no" /\ NoCall.pc = "idle"
  /\ \A challenges, passkeys, tokens, gone, keys :
       OKCall(NoCall, challenges, passkeys, tokens, gone, keys)
<1>1. NoCall \in Call /\ NoCall.load = "no" /\ NoCall.pc = "idle"
  BY SessionsAssumption DEF NoCall, Call
<1>2. NoCall.pc = "idle" /\ ~NoCall.late
  BY DEF NoCall
<1>3. QED
  BY <1>1, <1>2 DEF Uses, OKCall, Asks, Performs, Presents, Shows, InCeremony

LEMMA SessionsStart == ASSUME NEW scene \in SessionScenes, SessionsInit(scene) PROVE SessionsInv
<1>1. \A q \in Calls : call[q] = NoCall
  BY DEF SessionsInit
<1>2. CallsOK
  BY <1>1, NoCallOK DEF CallsOK
<1>3. /\ \A t \in Tokens : token[t] # None => token[t].by = None
      /\ \A k \in Passkeys : passkey[k] # None => passkey[k].by = None
  BY SessionsAssumption DEF SessionsInit
<1>4. Once /\ CeremonyOnce
  BY <1>1, <1>3, NoCallOK DEF Once, CeremonyOnce
<1>5. Typed
  <2>1. /\ scene.passkeys \in [Passkeys -> Passkey \cup {None}]
        /\ scene.tokens \in [Tokens -> Token \cup {None}] /\ scene.env \in KeyPair
    BY SessionsAssumption
  <2>2. QED
    BY <2>1, NoCallOK DEF SessionsInit, Typed, EmptyStore
<1>6. Filled
  BY <1>1, NoCallOK DEF SessionsInit, Filled, EmptyStore
<1>7. QED
  BY <1>2, <1>4, <1>5, <1>6 DEF SessionsInv

-----------------------------------------------------------------------------
(* What stays true of the tables *)
Keeps ==
  /\ \A c \in Challenges : challenge[c] # None =>
       /\ challenge'[c] # None /\ challenge'[c].flow = challenge[c].flow
       /\ challenge[c].state = "consumed" => challenge'[c].state = "consumed"
  /\ \A k \in Passkeys : passkey[k] # None =>
       passkey'[k] # None /\ passkey'[k].user = passkey[k].user
  /\ \A t \in Tokens : token[t] # None =>
       /\ token'[t] # None /\ token'[t].key = token[t].key
       /\ token'[t].live => token[t].live
  /\ revoked \subseteq revoked'

LEMMA CallKept ==
  ASSUME SessionsInv, Keeps, env' = env, NEW q \in Calls, call'[q] = call[q]
  PROVE  OKCall(call'[q], challenge', passkey', token', revoked', env')
<1> DEFINE s == call[q]
<1>1. Asks(s) /\ Performs(s, challenge, passkey) /\ Presents(s, token, revoked, env)
  BY DEF SessionsInv, CallsOK, OKCall
<1>2. call'[q] = s
  OBVIOUS
<1> HIDE DEF s
<1>3. Performs(s, challenge', passkey')
  <2>1. \A u : Registered(u, passkey) => Registered(u, passkey')
    BY DEF Keeps, Registered
  <2>2. QED
    BY <1>1, <2>1 DEF Performs, Keeps, InCeremony
<1>4. Presents(s, token', revoked', env)
  BY <1>1 DEF Presents, Keeps, Shows
<1>5. QED
  BY <1>1, <1>2, <1>3, <1>4 DEF OKCall

(* A step of one call that changes no table. *)
LEMMA CallStep ==
  ASSUME SessionsInv, NEW q \in Calls, NEW s \in Call, call' = [call EXCEPT ![q] = s],
         UNCHANGED <<env, store, challenge, passkey, token, revoked>>,
         OKCall(s, challenge, passkey, token, revoked, env),
         Uses(s) => Uses(call[q]) /\ s.challenge = call[q].challenge,
         s.load \in {"no", "current", call[q].load}
  PROVE  SessionsInv'
<1>1. Typed'
  BY DEF SessionsInv, Typed
<1>2. call'[q] = s /\ \A r \in Calls \ {q} : call'[r] = call[r]
  BY DEF SessionsInv, Typed
<1>3. CallsOK'
  <2>1. Keeps
    BY DEF Keeps
  <2>2. ASSUME NEW r \in Calls, r # q
        PROVE  OKCall(call'[r], challenge', passkey', token', revoked', env')
    BY <1>2, <2>1, <2>2, CallKept
  <2>3. OKCall(call'[q], challenge', passkey', token', revoked', env')
    BY <1>2
  <2>4. QED
    BY <2>2, <2>3 DEF CallsOK
<1>4. Once'
  BY <1>2 DEF SessionsInv, Once
<1>5. Filled'
  BY <1>2 DEF SessionsInv, Filled, HasCurrent
<1>6. CeremonyOnce'
  BY DEF SessionsInv, CeremonyOnce
<1>7. QED
  BY <1>1, <1>3, <1>4, <1>5, <1>6 DEF SessionsInv

LEMMA CloseStep ==
  ASSUME SessionsInv, NEW q \in Calls, Close(q),
         UNCHANGED <<env, store, challenge, passkey, token, revoked>>
  PROVE  SessionsInv'
BY CallStep, NoCallOK DEF Close

-----------------------------------------------------------------------------
(* A new request. *)
LEMMA FindUserStep ==
  ASSUME SessionsInv, NEW q \in Calls, NEW u \in Users,
         \/ FindUser(q, u, "registration", "createChallenge")
         \/ FindUser(q, u, "demo", "sign")
  PROVE  SessionsInv'
<1>1. PICK s \in Call :
        /\ call' = [call EXCEPT ![q] = s]
        /\ s.user = u /\ s.challenge = None /\ s.load = "no" /\ ~s.late
        /\ \/ s.flow = "registration" /\ s.pc \in {"createUser", "createChallenge"}
           \/ s.flow = "demo" /\ s.pc \in {"createUser", "sign"}
  <2>1. PICK flow \in {"registration", "demo"},
             pc \in {"createUser", "createChallenge", "sign"} :
          /\ call' = [call EXCEPT ![q] = [NoCall EXCEPT !.flow = flow, !.user = u, !.pc = pc]]
          /\ \/ flow = "registration" /\ pc \in {"createUser", "createChallenge"}
             \/ flow = "demo" /\ pc \in {"createUser", "sign"}
    BY DEF FindUser, Open
  <2>2. [NoCall EXCEPT !.flow = flow, !.user = u, !.pc = pc] \in Call
    BY NoCallOK DEF Call
  <2>3. QED
    BY <2>1, <2>2 DEF NoCall
<1>2. OKCall(s, challenge, passkey, token, revoked, env) /\ ~Uses(s)
  BY <1>1 DEF OKCall, Asks, Performs, Presents, Shows, Uses, InCeremony
<1>3. UNCHANGED <<env, store, challenge, passkey, token, revoked>>
  BY DEF FindUser, sessionTables
<1>4. QED
  BY <1>1, <1>2, <1>3, CallStep

LEMMA LoginBeginStep == ASSUME SessionsInv, NEW q \in Calls, LoginBegin(q) PROVE SessionsInv'
<1> DEFINE s == [NoCall EXCEPT !.flow = "assertion", !.pc = "createChallenge"]
<1>1. /\ s \in Call /\ s.flow = "assertion" /\ s.pc = "createChallenge" /\ s.load = "no"
      /\ ~s.late
  BY NoCallOK DEF Call, NoCall
<1>2. call' = [call EXCEPT ![q] = s]
  BY DEF LoginBegin, Open
<1> HIDE DEF s
<1>3. OKCall(s, challenge, passkey, token, revoked, env) /\ ~Uses(s)
  BY <1>1 DEF OKCall, Asks, Performs, Presents, Shows, Uses, InCeremony
<1>4. UNCHANGED <<env, store, challenge, passkey, token, revoked>>
  BY DEF LoginBegin, sessionTables
<1>5. QED
  BY <1>1, <1>2, <1>3, <1>4, CallStep

LEMMA CompleteStep ==
  ASSUME SessionsInv, NEW q \in Calls, NEW c \in Challenges,
         NEW flow \in {"registration", "assertion"}, Complete(q, c, flow)
  PROVE  SessionsInv'
<1> DEFINE s == [NoCall EXCEPT !.flow = flow, !.challenge = c, !.pc = "consume"]
<1>1. /\ s \in Call /\ s.flow = flow /\ s.pc = "consume" /\ s.load = "no" /\ ~s.late
      /\ s.challenge = c
  BY NoCallOK DEF Call, NoCall
<1>2. call' = [call EXCEPT ![q] = s] /\ challenge[c] # None
  BY DEF Complete, Open
<1> HIDE DEF s
<1>3. OKCall(s, challenge, passkey, token, revoked, env) /\ ~Uses(s)
  BY <1>1, <1>2 DEF OKCall, Asks, Performs, Presents, Shows, Uses, InCeremony
<1>4. UNCHANGED <<env, store, challenge, passkey, token, revoked>>
  BY DEF Complete, sessionTables
<1>5. QED
  BY <1>1, <1>2, <1>3, <1>4, CallStep

LEMMA PresentStep ==
  ASSUME SessionsInv, NEW q \in Calls, NEW t \in Tokens, NEW flow \in {"request", "logout"},
         Present(q, t, flow)
  PROVE  SessionsInv'
<1> DEFINE s == [NoCall EXCEPT !.flow = flow, !.token = t, !.pc = "verify",
                               !.late = t \in revoked]
<1>1. /\ s \in Call /\ s.pc = "verify" /\ s.load = "no" /\ s.token = t
      /\ s.late <=> t \in revoked
  <2>1. NoCall \in Call /\ NoCall.load = "no" /\ (t \in revoked) \in BOOLEAN
    BY NoCallOK
  <2>2. QED
    BY <2>1 DEF Call
<1>2. call' = [call EXCEPT ![q] = s] /\ token[t] # None
  BY DEF Present, Open
<1> HIDE DEF s
<1>3. OKCall(s, challenge, passkey, token, revoked, env) /\ ~Uses(s)
  BY <1>1, <1>2 DEF OKCall, Asks, Performs, Presents, Shows, Uses, InCeremony
<1>4. UNCHANGED <<env, store, challenge, passkey, token, revoked>>
  BY DEF Present, sessionTables
<1>5. QED
  BY <1>1, <1>2, <1>3, <1>4, CallStep

-----------------------------------------------------------------------------
(* A call that only reads. *)
LEMMA ReadPasskeyStep ==
  ASSUME SessionsInv, NEW q \in Calls, NEW k \in Passkeys, NEW n \in 0..MaxCount,
         ReadPasskey(q, k, n)
  PROVE  SessionsInv'
<1>1. UNCHANGED <<env, store, challenge, passkey, token, revoked>>
  BY DEF ReadPasskey, sessionTables
<1>2. CASE Close(q)
  BY <1>1, <1>2, CloseStep
<1>3. CASE ~Close(q)
  <2> DEFINE s == [call[q] EXCEPT !.passkey = k, !.count = n, !.user = passkey[k].user,
                                  !.pc = "writeCount"]
  <2>1. call[q] \in Call /\ call[q].pc = "readPasskey" /\ passkey[k] \in Passkey
        /\ OKCall(call[q], challenge, passkey, token, revoked, env) /\ passkey[k] # None
    BY DEF SessionsInv, Typed, CallsOK, ReadPasskey, At
  <2>2. call' = [call EXCEPT ![q] = s]
    BY <1>3 DEF ReadPasskey, SessionsInv, Typed
  <2>3. passkey[k].user \in Users
    BY <2>1 DEF Passkey
  <2>4. /\ s \in Call /\ s.pc = "writeCount" /\ s.load = call[q].load
        /\ s.passkey = k /\ s.user = passkey[k].user /\ s.flow = call[q].flow
        /\ s.challenge = call[q].challenge /\ s.late = call[q].late /\ s.token = call[q].token
    BY <2>1, <2>3 DEF Call
  <2> HIDE DEF s
  <2>5. OKCall(s, challenge, passkey, token, revoked, env)
    BY <2>1, <2>4 DEF OKCall, Asks, Performs, Presents, Shows, Uses, InCeremony
  <2>6. Uses(s) => Uses(call[q]) /\ s.challenge = call[q].challenge
    BY <2>1, <2>4 DEF Uses
  <2>7. QED
    BY <1>1, <2>2, <2>4, <2>5, <2>6, CallStep
<1>4. QED
  BY <1>2, <1>3

LEMMA ReadMemberStep ==
  ASSUME SessionsInv, NEW q \in Calls, ReadMember(q)
  PROVE  SessionsInv'
<1>1. UNCHANGED <<env, store, challenge, passkey, token, revoked>>
  BY DEF ReadMember, sessionTables
<1>2. CASE Close(q)
  BY <1>1, <1>2, CloseStep
<1>3. CASE ~Close(q)
  <2> DEFINE s == [call[q] EXCEPT !.pc = "sign"]
  <2>1. call[q] \in Call /\ call[q].pc = "readMember" /\ call[q].user \in Members
        /\ OKCall(call[q], challenge, passkey, token, revoked, env)
    BY <1>3 DEF SessionsInv, Typed, CallsOK, ReadMember, At
  <2>2. call' = [call EXCEPT ![q] = s]
    BY <1>3 DEF ReadMember, GoTo, SessionsInv, Typed
  <2>3. /\ s \in Call /\ s.pc = "sign" /\ s.load = call[q].load
        /\ s.user = call[q].user /\ s.flow = call[q].flow
        /\ s.challenge = call[q].challenge /\ s.late = call[q].late /\ s.token = call[q].token
    BY <2>1 DEF Call
  <2> HIDE DEF s
  <2>4. s.user \in Users /\ s.flow = "assertion" /\ Registered(s.user, passkey)
    BY <2>1, <2>3, SessionsAssumption DEF OKCall, Performs, Registered
  <2>5. OKCall(s, challenge, passkey, token, revoked, env)
    BY <2>1, <2>3, <2>4 DEF OKCall, Asks, Performs, Presents, Shows, Uses, InCeremony
  <2>6. Uses(s) => Uses(call[q]) /\ s.challenge = call[q].challenge
    BY <2>1, <2>3 DEF Uses
  <2>7. QED
    BY <1>1, <2>2, <2>3, <2>5, <2>6, CallStep
<1>4. QED
  BY <1>2, <1>3

-----------------------------------------------------------------------------
(* A request that shows a token. *)
LEMMA VerifyStep == ASSUME SessionsInv, NEW q \in Calls, Verify(q) PROVE SessionsInv'
<1> DEFINE pc == IF Verified(q) THEN "checkRevoked" ELSE "refused"
           s == [call[q] EXCEPT !.pc = pc]
           t == token[call[q].token]
<1>1. /\ call[q] \in Call /\ call[q].pc = "verify" /\ HasKeys(q)
      /\ OKCall(call[q], challenge, passkey, token, revoked, env)
      /\ UNCHANGED <<env, store, challenge, passkey, token, revoked>>
  BY DEF SessionsInv, Typed, CallsOK, Verify, At, sessionTables
<1>2. call' = [call EXCEPT ![q] = s]
  BY DEF Verify, GoTo, SessionsInv, Typed
<1>3. /\ s \in Call /\ s.pc = pc /\ s.load = call[q].load /\ s.late = call[q].late
      /\ s.token = call[q].token
  BY <1>1 DEF Call
<1>4. call[q].token \in Tokens /\ t # None /\ t \in Token
  BY <1>1 DEF OKCall, Presents, Shows, SessionsInv, Typed
<1>5. HasCurrent /\ store.old = env.old
  BY <1>1 DEF HasKeys, SessionsInv, Filled
<1>6. ASSUME ~Verified(q) PROVE ~t.live \/ t.key \notin {env.current, env.old}
  <2>1. t.key # None
    BY <1>4, SessionsAssumption DEF Token
  <2>2. QED
    BY <1>5, <1>6, <2>1 DEF Verified, HasCurrent
<1>7. OKCall(s, challenge, passkey, token, revoked, env)
  <2>1. pc \in {"checkRevoked", "refused"} /\ (pc = "refused" => ~Verified(q))
    OBVIOUS
  <2> HIDE DEF s, pc
  <2>2. QED
    BY <1>1, <1>3, <1>4, <1>6, <2>1
    DEF OKCall, Asks, Performs, Presents, Shows, Uses, InCeremony
<1>8. ~Uses(s)
  BY <1>3 DEF Uses
<1> HIDE DEF s, pc
<1>9. QED
  BY <1>1, <1>2, <1>3, <1>7, <1>8, CallStep

LEMMA CheckRevokedStep == ASSUME SessionsInv, NEW q \in Calls, CheckRevoked(q) PROVE SessionsInv'
<1>1. /\ call[q] \in Call /\ call[q].pc = "checkRevoked"
      /\ OKCall(call[q], challenge, passkey, token, revoked, env)
      /\ UNCHANGED <<env, store, challenge, passkey, token, revoked>>
  BY DEF SessionsInv, Typed, CallsOK, CheckRevoked, At, sessionTables
<1>2. PICK s \in Call :
        /\ call' = [call EXCEPT ![q] = s]
        /\ s.load = call[q].load /\ s.late = call[q].late /\ s.token = call[q].token
        /\ s.pc \in {"refused", "revoke", "accepted"}
        /\ s.pc = "refused" => s.failed \/ s.token \in revoked
        /\ s.pc = "accepted" => s.token \notin revoked
  <2>1. CASE call' = [call EXCEPT ![q].pc = "refused", ![q].failed = TRUE]
    <3> DEFINE s == [call[q] EXCEPT !.pc = "refused", !.failed = TRUE]
    <3>1. /\ s \in Call /\ s.load = call[q].load /\ s.late = call[q].late
          /\ s.token = call[q].token /\ s.pc = "refused" /\ s.failed
      BY <1>1 DEF Call
    <3>2. call' = [call EXCEPT ![q] = s]
      BY <2>1 DEF SessionsInv, Typed
    <3>3. QED
      BY <3>1, <3>2
  <2>2. CASE call' # [call EXCEPT ![q].pc = "refused", ![q].failed = TRUE]
    <3>1. PICK pc \in {"refused", "revoke", "accepted"} :
            /\ GoTo(q, pc)
            /\ pc = "refused" => call[q].token \in revoked
            /\ pc = "accepted" => call[q].token \notin revoked
      BY <2>2 DEF CheckRevoked
    <3> DEFINE s == [call[q] EXCEPT !.pc = pc]
    <3>2. /\ s \in Call /\ s.load = call[q].load /\ s.late = call[q].late
          /\ s.token = call[q].token /\ s.pc = pc
      BY <1>1 DEF Call
    <3>3. call' = [call EXCEPT ![q] = s]
      BY <3>1 DEF GoTo, SessionsInv, Typed
    <3>4. QED
      BY <3>1, <3>2, <3>3
  <2>3. QED
    BY <2>1, <2>2
<1>3. OKCall(s, challenge, passkey, token, revoked, env)
  BY <1>1, <1>2 DEF OKCall, Asks, Performs, Presents, Shows, Uses, InCeremony
<1>4. ~Uses(s)
  BY <1>2 DEF Uses
<1>5. QED
  BY <1>1, <1>2, <1>3, <1>4, CallStep

(* What the remaining steps of calls have in common. *)
LEMMA TableStep ==
  ASSUME SessionsInv, env' = env, Keeps, Typed', Once', Filled', CeremonyOnce', NEW q \in Calls,
         \A r \in Calls \ {q} : call'[r] = call[r],
         OKCall(call'[q], challenge', passkey', token', revoked', env')
  PROVE  SessionsInv'
<1>1. ASSUME NEW r \in Calls
      PROVE  OKCall(call'[r], challenge', passkey', token', revoked', env')
  <2>1. CASE r = q
    BY <2>1
  <2>2. CASE r # q
    BY <2>2, CallKept
  <2>3. QED
    BY <2>1, <2>2
<1>2. QED
  BY <1>1 DEF SessionsInv, CallsOK

LEMMA RevokeStep == ASSUME SessionsInv, NEW q \in Calls, Revoke(q) PROVE SessionsInv'
<1>1. /\ OKCall(call[q], challenge, passkey, token, revoked, env) /\ call[q].pc = "revoke"
      /\ UNCHANGED <<env, store, challenge, passkey, token>>
      /\ revoked' = revoked \cup {call[q].token} /\ call' = [call EXCEPT ![q] = NoCall]
  BY DEF SessionsInv, CallsOK, Revoke, At, Close
<1>2. call[q].token \in Tokens
  BY <1>1 DEF OKCall, Presents, Shows
<1>3. call'[q] = NoCall /\ \A r \in Calls \ {q} : call'[r] = call[r]
  BY <1>1 DEF SessionsInv, Typed
<1>4. Typed'
  BY <1>1, <1>2, NoCallOK DEF SessionsInv, Typed
<1>5. Once' /\ Filled' /\ CeremonyOnce'
  BY <1>1, <1>3, NoCallOK DEF SessionsInv, Once, Filled, HasCurrent, CeremonyOnce
<1>6. Keeps
  BY <1>1 DEF Keeps
<1>7. QED
  BY <1>1, <1>3, <1>4, <1>5, <1>6, NoCallOK, TableStep

-----------------------------------------------------------------------------
(* The tables of the ceremonies. *)
LEMMA CreateUserStep == ASSUME SessionsInv, NEW q \in Calls, CreateUser(q) PROVE SessionsInv'
<1>1. UNCHANGED <<env, store, challenge, passkey, token, revoked>>
  BY DEF CreateUser
<1>2. CASE Close(q)
  BY <1>1, <1>2, CloseStep
<1>3. CASE ~Close(q)
  <2> DEFINE pc == IF call[q].flow = "demo" THEN "sign" ELSE "createChallenge"
             s == [call[q] EXCEPT !.pc = pc]
  <2>1. call[q] \in Call /\ call[q].pc = "createUser"
        /\ OKCall(call[q], challenge, passkey, token, revoked, env)
    BY DEF SessionsInv, Typed, CallsOK, CreateUser, At
  <2>2. call' = [call EXCEPT ![q] = s]
    BY <1>3 DEF CreateUser, GoTo, SessionsInv, Typed
  <2>3. /\ s \in Call /\ s.pc = pc /\ s.load = call[q].load
        /\ s.user = call[q].user /\ s.flow = call[q].flow
        /\ s.challenge = call[q].challenge /\ s.late = call[q].late /\ s.token = call[q].token
    BY <2>1 DEF Call
  <2>4. s.user \in Users /\ s.challenge = None /\ s.flow \in {"registration", "demo"}
    BY <2>1, <2>3 DEF OKCall, Asks
  <2>5. pc \in {"sign", "createChallenge"} /\ (pc = "createChallenge" => s.flow = "registration")
    BY <2>3, <2>4
  <2> HIDE DEF s, pc
  <2>6. OKCall(s, challenge, passkey, token, revoked, env) /\ ~Uses(s)
    BY <2>1, <2>3, <2>4, <2>5 DEF OKCall, Asks, Performs, Presents, Shows, Uses, InCeremony
  <2>7. QED
    BY <1>1, <2>2, <2>3, <2>6, CallStep
<1>4. QED
  BY <1>2, <1>3

LEMMA CreateChallengeStep ==
  ASSUME SessionsInv, NEW q \in Calls, NEW c \in Challenges, CreateChallenge(q, c)
  PROVE  SessionsInv'
<1> DEFINE row == [flow |-> call[q].flow, user |-> call[q].user, state |-> "live"]
<1>1. /\ call[q] \in Call /\ call[q].pc = "createChallenge" /\ challenge[c] = None
      /\ UNCHANGED <<env, store, passkey, token, revoked>>
      /\ challenge' = [challenge EXCEPT ![c] = row]
      /\ call' = [call EXCEPT ![q] = NoCall]
      /\ OKCall(call[q], challenge, passkey, token, revoked, env)
  BY DEF SessionsInv, Typed, CallsOK, CreateChallenge, At, Close
<1>2. row \in Drawn
  BY <1>1 DEF OKCall, Asks, Drawn, Challenge, Call
<1> HIDE DEF row
<1>3. call'[q] = NoCall /\ \A r \in Calls \ {q} : call'[r] = call[r]
  BY <1>1 DEF SessionsInv, Typed
<1>4. \A d \in Challenges : challenge[d] # None => challenge'[d] = challenge[d]
  BY <1>1 DEF SessionsInv, Typed
<1>5. Typed'
  BY <1>1, <1>2, NoCallOK DEF SessionsInv, Typed
<1>6. /\ \A t \in Tokens : token[t] # None /\ token[t].by # None => token[t].by \in Challenges
      /\ \A k \in Passkeys : passkey[k] # None /\ passkey[k].by # None =>
           passkey[k].by \in Challenges
  BY DEF SessionsInv, Typed, Token, Passkey
<1>7. Once'
  BY <1>1, <1>3, <1>4, <1>6, NoCallOK DEF SessionsInv, Once
<1>8. CeremonyOnce'
  BY <1>1, <1>4, <1>6 DEF SessionsInv, Once, CeremonyOnce
<1>9. Filled'
  BY <1>1, <1>3, NoCallOK DEF SessionsInv, Filled, HasCurrent
<1>10. Keeps
  BY <1>1, <1>4 DEF Keeps
<1>11. QED
  BY <1>1, <1>3, <1>5, <1>7, <1>8, <1>9, <1>10, NoCallOK, TableStep

(* Where a token or a passkey comes from. *)
LEMMA Origins ==
  ASSUME SessionsInv
  PROVE  /\ \A t \in Tokens : token[t] # None =>
              token[t] \in Token /\ (token[t].by # None => token[t].by \in Challenges)
         /\ \A k \in Passkeys : passkey[k] # None =>
              passkey[k] \in Passkey /\ (passkey[k].by # None => passkey[k].by \in Challenges)
BY DEF SessionsInv, Typed, Token, Passkey

LEMMA ChallengeExpiresStep ==
  ASSUME SessionsInv, NEW c \in Challenges, ChallengeExpires(c)
  PROVE  SessionsInv'
<1> DEFINE row == [challenge[c] EXCEPT !.state = "expired"]
<1>1. /\ challenge[c] \in Drawn /\ challenge[c].state = "live"
      /\ UNCHANGED <<env, store, passkey, token, revoked, call>>
      /\ challenge' = [challenge EXCEPT ![c] = row]
  BY DEF SessionsInv, Typed, ChallengeExpires
<1>2. row \in Drawn /\ row.flow = challenge[c].flow /\ row # None
  BY <1>1, SessionsAssumption DEF Drawn, Challenge
<1> HIDE DEF row
<1>3. \A d \in Challenges :
        /\ challenge[d] # None => challenge'[d] # None /\ challenge'[d].flow = challenge[d].flow
        /\ challenge[d] # None /\ challenge[d].state = "consumed" => challenge'[d] = challenge[d]
  BY <1>1, <1>2 DEF SessionsInv, Typed
<1>4. Typed'
  BY <1>1, <1>2 DEF SessionsInv, Typed
<1>5. Once'
  BY <1>1, <1>3, Origins DEF SessionsInv, Once
<1>6. CeremonyOnce'
  BY <1>1, <1>3, Origins DEF SessionsInv, Once, CeremonyOnce
<1>7. Filled'
  BY <1>1 DEF SessionsInv, Filled, HasCurrent
<1>8. Keeps
  BY <1>1, <1>3 DEF Keeps
<1>9. CallsOK'
  BY <1>1, <1>8, CallKept DEF CallsOK
<1>10. QED
  BY <1>4, <1>5, <1>6, <1>7, <1>9 DEF SessionsInv

(* A live challenge is nobody's, so that who consumes it is the first.      *)
LEMMA ConsumeStep ==
  ASSUME SessionsInv, NEW q \in Calls, ConsumeChallenge(q)
  PROVE  SessionsInv'
<1>1. /\ call[q] \in Call /\ call[q].pc = "consume"
      /\ OKCall(call[q], challenge, passkey, token, revoked, env)
      /\ UNCHANGED <<env, store, passkey, token, revoked>>
  BY DEF SessionsInv, Typed, CallsOK, ConsumeChallenge, At
<1>2. CASE ~Consumable(q)
  BY <1>1, <1>2, CloseStep DEF ConsumeChallenge
<1>3. CASE Consumable(q)
  <2> DEFINE c == call[q].challenge
             row == [challenge[c] EXCEPT !.state = "consumed"]
             next == IF call[q].flow = "registration" THEN "insertPasskey" ELSE "readPasskey"
             s == [call[q] EXCEPT !.user = challenge[c].user, !.pc = next]
  <2>1. /\ c \in Challenges /\ c # None /\ challenge[c] # None /\ challenge[c] \in Drawn
        /\ challenge[c].state = "live" /\ challenge[c].flow = call[q].flow
    BY <1>1, <1>3, SessionsAssumption
    DEF OKCall, Performs, InCeremony, Consumable, SessionsInv, Typed
  <2>2. challenge' = [challenge EXCEPT ![c] = row]
    BY <1>3, <2>1 DEF ConsumeChallenge, SessionsInv, Typed
  <2>3. /\ row \in Drawn /\ row.flow = challenge[c].flow /\ row.state = "consumed"
        /\ row # None
    BY <2>1, SessionsAssumption DEF Drawn, Challenge
  <2>4. /\ s \in Call /\ s.pc = next /\ s.load = call[q].load /\ s.flow = call[q].flow
        /\ s.user = challenge[c].user /\ s.challenge = c /\ s.late = call[q].late
        /\ s.token = call[q].token
    BY <1>1, <2>1 DEF Call, Drawn, Challenge
  <2>5. PICK z \in {s, NoCall} : call' = [call EXCEPT ![q] = z]
    BY <1>3 DEF ConsumeChallenge, Close, SessionsInv, Typed
  <2>6. /\ challenge[c].flow = "registration" => challenge[c].user \in Users
        /\ s.flow \in {"registration", "assertion"}
    <3>1. /\ challenge[c].flow \in {"registration", "assertion"}
          /\ challenge[c].flow = "registration" => challenge[c].user \in Users
      BY <2>1 DEF Drawn, Challenge
    <3>2. QED
      BY <2>1, <2>4, <3>1
  <2>7. challenge'[c] = row /\ \A d \in Challenges \ {c} : challenge'[d] = challenge[d]
    BY <2>1, <2>2 DEF SessionsInv, Typed
  <2>8. /\ next = "insertPasskey" <=> s.flow = "registration"
        /\ next \in {"insertPasskey", "readPasskey"}
    BY <2>4
  <2> HIDE DEF row, s, next, c
  <2>9. OKCall(s, challenge', passkey', token', revoked', env')
    BY <1>1, <2>1, <2>3, <2>4, <2>6, <2>7, <2>8
    DEF OKCall, Asks, Performs, Presents, Shows, Uses, InCeremony
  <2>10. OKCall(z, challenge', passkey', token', revoked', env')
    BY <2>5, <2>9, NoCallOK
  <2>11. call'[q] = z /\ \A r \in Calls \ {q} : call'[r] = call[r]
    BY <2>5 DEF SessionsInv, Typed
  <2>12. (Uses(z) => z.challenge = c) /\ z \in Call /\ z.load \in {"no", call[q].load}
    BY <2>4, <2>5, NoCallOK
  <2>13. Typed'
    BY <1>1, <2>2, <2>3, <2>5, <2>12 DEF SessionsInv, Typed
  <2>14. /\ \A r \in Calls : Uses(call[r]) => call[r].challenge # c
         /\ \A t \in Tokens : token[t] # None /\ token[t].by # None => token[t].by # c
         /\ \A k \in Passkeys : passkey[k] # None /\ passkey[k].by # None => passkey[k].by # c
    BY <2>1 DEF SessionsInv, Once, CallsOK, OKCall, Performs
  <2>15. Once'
    BY <1>1, <2>7, <2>11, <2>12, <2>14, Origins DEF SessionsInv, Once
  <2>16. CeremonyOnce'
    BY <1>1, <2>7, <2>14, Origins DEF SessionsInv, CeremonyOnce
  <2>17. Filled'
    BY <1>1, <2>11, <2>12 DEF SessionsInv, Filled, HasCurrent
  <2>18. Keeps
    BY <1>1, <2>1, <2>3, <2>7 DEF Keeps
  <2>19. QED
    BY <1>1, <2>10, <2>11, <2>13, <2>15, <2>16, <2>17, <2>18, TableStep
<1>4. QED
  BY <1>2, <1>3

LEMMA InsertPasskeyStep ==
  ASSUME SessionsInv, NEW q \in Calls, NEW k \in Passkeys, NEW n \in 0..MaxCount,
         InsertPasskey(q, k, n)
  PROVE  SessionsInv'
<1> DEFINE row == [user |-> call[q].user, count |-> n, by |-> call[q].challenge]
<1>1. /\ call[q] \in Call /\ call[q].pc = "insertPasskey" /\ passkey[k] = None
      /\ OKCall(call[q], challenge, passkey, token, revoked, env)
      /\ UNCHANGED <<env, store, challenge, token, revoked>>
      /\ passkey' = [passkey EXCEPT ![k] = row] /\ call' = [call EXCEPT ![q] = NoCall]
  BY DEF SessionsInv, Typed, CallsOK, InsertPasskey, At, Close
<1>2. /\ call[q].user \in Users /\ call[q].challenge \in Challenges
      /\ call[q].challenge # None /\ Uses(call[q])
      /\ challenge[call[q].challenge] # None
      /\ challenge[call[q].challenge].state = "consumed"
      /\ challenge[call[q].challenge].flow = "registration"
  BY <1>1, SessionsAssumption DEF OKCall, Performs, InCeremony, Uses
<1>3. row \in Passkey /\ row.by = call[q].challenge
  BY <1>2 DEF Passkey
<1> HIDE DEF row
<1>4. call'[q] = NoCall /\ \A r \in Calls \ {q} : call'[r] = call[r]
  BY <1>1 DEF SessionsInv, Typed
<1>5. passkey'[k] = row /\ \A j \in Passkeys \ {k} : passkey'[j] = passkey[j]
  BY <1>1 DEF SessionsInv, Typed
<1>6. Typed'
  BY <1>1, <1>3, NoCallOK DEF SessionsInv, Typed
<1>7. Once'
  BY <1>1, <1>2, <1>3, <1>4, <1>5, NoCallOK DEF SessionsInv, Once
<1>8. \A j \in Passkeys \ {k} : passkey[j] # None => passkey[j].by # row.by
  BY <1>2, <1>3 DEF SessionsInv, Once
<1>9. CeremonyOnce'
  BY <1>1, <1>2, <1>3, <1>5, <1>8 DEF SessionsInv, CeremonyOnce
<1>10. Filled'
  BY <1>1, <1>4, NoCallOK DEF SessionsInv, Filled, HasCurrent
<1>11. Keeps
  BY <1>1, <1>5 DEF Keeps
<1>12. QED
  BY <1>1, <1>4, <1>6, <1>7, <1>9, <1>10, <1>11, NoCallOK, TableStep

LEMMA WriteCountStep == ASSUME SessionsInv, NEW q \in Calls, WriteCount(q) PROVE SessionsInv'
<1> DEFINE k == call[q].passkey
           row == [passkey[k] EXCEPT !.count = call[q].count]
           s == [call[q] EXCEPT !.pc = "readMember"]
<1>1. /\ call[q] \in Call /\ call[q].pc = "writeCount"
      /\ OKCall(call[q], challenge, passkey, token, revoked, env)
      /\ UNCHANGED <<env, store, challenge, token, revoked>>
      /\ call' = [call EXCEPT ![q] = s]
  BY DEF SessionsInv, Typed, CallsOK, WriteCount, At, GoTo
<1>2. /\ k \in Passkeys /\ passkey[k] # None /\ passkey[k] \in Passkey
      /\ call[q].user = passkey[k].user
  BY <1>1 DEF OKCall, Performs, SessionsInv, Typed
<1>3. /\ row \in Passkey /\ row.user = passkey[k].user /\ row.by = passkey[k].by
      /\ row # None
  BY <1>1, <1>2, SessionsAssumption DEF Passkey, Call
<1>4. /\ passkey' = [passkey EXCEPT ![k] = row]
      /\ passkey'[k] = row /\ \A j \in Passkeys \ {k} : passkey'[j] = passkey[j]
  BY <1>2 DEF SessionsInv, Typed, WriteCount
<1>5. /\ s \in Call /\ s.pc = "readMember" /\ s.load = call[q].load
      /\ s.user = call[q].user /\ s.flow = call[q].flow /\ s.passkey = k
      /\ s.challenge = call[q].challenge /\ s.late = call[q].late /\ s.token = call[q].token
  BY <1>1 DEF Call
<1> HIDE DEF row, s, k
<1>6. OKCall(s, challenge', passkey', token', revoked', env')
  BY <1>1, <1>2, <1>3, <1>4, <1>5 DEF OKCall, Asks, Performs, Presents, Shows, Uses, InCeremony
<1>7. call'[q] = s /\ \A r \in Calls \ {q} : call'[r] = call[r]
  BY <1>1 DEF SessionsInv, Typed
<1>8. Typed'
  BY <1>1, <1>3, <1>4, <1>5 DEF SessionsInv, Typed
<1>9. /\ \A j \in Passkeys : passkey'[j] # None <=> passkey[j] # None
      /\ \A j \in Passkeys : passkey[j] # None =>
           passkey'[j].user = passkey[j].user /\ passkey'[j].by = passkey[j].by
  BY <1>2, <1>3, <1>4
<1>10. \A r \in Calls : Uses(call'[r]) => Uses(call[r]) /\ call'[r].challenge = call[r].challenge
  BY <1>1, <1>5, <1>7 DEF Uses
<1>11. Once'
  BY <1>1, <1>9, <1>10 DEF SessionsInv, Once
<1>12. CeremonyOnce'
  BY <1>1, <1>9 DEF SessionsInv, CeremonyOnce
<1>13. Filled'
  BY <1>1, <1>5, <1>7 DEF SessionsInv, Filled, HasCurrent
<1>14. Keeps
  BY <1>1, <1>9 DEF Keeps
<1>15. QED
  BY <1>1, <1>6, <1>7, <1>8, <1>11, <1>12, <1>13, <1>14, TableStep

-----------------------------------------------------------------------------
(* The key store *)
LEMMA StartLoadingStep == ASSUME SessionsInv, NEW q \in Calls, StartLoading(q) PROVE SessionsInv'
<1> DEFINE s == [call[q] EXCEPT !.load = "current"]
<1>1. /\ call[q] \in Call /\ OKCall(call[q], challenge, passkey, token, revoked, env)
      /\ UNCHANGED <<env, store, challenge, passkey, token, revoked>>
      /\ call' = [call EXCEPT ![q] = s]
  BY DEF SessionsInv, Typed, CallsOK, StartLoading, sessionTables
<1>2. /\ s \in Call /\ s.load = "current" /\ s.pc = call[q].pc /\ s.flow = call[q].flow
      /\ s.user = call[q].user /\ s.challenge = call[q].challenge
      /\ s.passkey = call[q].passkey /\ s.token = call[q].token /\ s.late = call[q].late
      /\ s.failed = call[q].failed
  BY <1>1 DEF Call
<1> HIDE DEF s
<1>3. OKCall(s, challenge, passkey, token, revoked, env)
  BY <1>1, <1>2 DEF OKCall, Asks, Performs, Presents, Shows, Uses, InCeremony
<1>4. Uses(s) => Uses(call[q]) /\ s.challenge = call[q].challenge
  BY <1>2 DEF Uses
<1>5. QED
  BY <1>1, <1>2, <1>3, <1>4, CallStep

(* What a load of the store leaves alone. *)
LEMMA FillStep ==
  ASSUME SessionsInv, NEW q \in Calls, NEW keys, NEW next \in {"old", "done"}, Fill(q, keys, next),
         keys \in [current : Keys \cup {None}, old : Keys \cup {None}, ready : BOOLEAN],
         Filled'
  PROVE  SessionsInv'
<1> DEFINE s == [call[q] EXCEPT !.load = next]
<1>1. /\ call[q] \in Call /\ OKCall(call[q], challenge, passkey, token, revoked, env)
      /\ UNCHANGED <<env, challenge, passkey, token, revoked>> /\ store' = keys
      /\ call' = [call EXCEPT ![q] = s]
  BY DEF SessionsInv, Typed, CallsOK, Fill, sessionTables
<1>2. /\ s \in Call /\ s.pc = call[q].pc /\ s.flow = call[q].flow
      /\ s.user = call[q].user /\ s.challenge = call[q].challenge
      /\ s.passkey = call[q].passkey /\ s.token = call[q].token /\ s.late = call[q].late
      /\ s.failed = call[q].failed
  BY <1>1 DEF Call
<1> HIDE DEF s
<1>3. OKCall(s, challenge, passkey, token, revoked, env)
  BY <1>1, <1>2 DEF OKCall, Asks, Performs, Presents, Shows, Uses, InCeremony
<1>4. call'[q] = s /\ \A r \in Calls \ {q} : call'[r] = call[r]
  BY <1>1 DEF SessionsInv, Typed
<1>5. \A r \in Calls : Uses(call'[r]) => Uses(call[r]) /\ call'[r].challenge = call[r].challenge
  BY <1>2, <1>4 DEF Uses
<1>6. Typed'
  BY <1>1, <1>2 DEF SessionsInv, Typed
<1>7. Once' /\ CeremonyOnce'
  BY <1>1, <1>5 DEF SessionsInv, Once, CeremonyOnce
<1>8. Keeps
  BY <1>1 DEF Keeps
<1>9. QED
  BY <1>1, <1>3, <1>4, <1>6, <1>7, <1>8, TableStep

(* The calls that load the store wait for no other one; each writes what    *)
(* the environment holds.                                                   *)
LEMMA LoadCurrentStep == ASSUME SessionsInv, NEW q \in Calls, LoadCurrent(q) PROVE SessionsInv'
<1>1. PICK k \in Keys :
        CurrentKey(k) /\ Fill(q, [store EXCEPT !.current = k, !.ready = @ \/ env.old = None],
                              AfterCurrent)
  BY DEF LoadCurrent
<1> DEFINE keys == [store EXCEPT !.current = k, !.ready = @ \/ env.old = None]
<1>2. store \in [current : Keys \cup {None}, old : Keys \cup {None}, ready : BOOLEAN]
      /\ call \in [Calls -> Call] /\ call[q] \in Call
  BY DEF SessionsInv, Typed
<1>3. /\ keys \in [current : Keys \cup {None}, old : Keys \cup {None}, ready : BOOLEAN]
      /\ keys.current = k /\ keys.old = store.old
      /\ keys.ready <=> store.ready \/ env.old = None
  BY <1>2
<1>4. k # None /\ (env.current # None => k = env.current)
  BY <1>1, SessionsAssumption DEF CurrentKey
<1>5. store' = keys /\ env' = env
  BY <1>1 DEF Fill
<1>6. \A r \in Calls : call'[r].load = IF r = q THEN AfterCurrent ELSE call[r].load
  BY <1>1, <1>2 DEF Fill, Call
<1> HIDE DEF keys
<1>7. Filled'
  <2>1. HasCurrent'
    BY <1>3, <1>4, <1>5 DEF HasCurrent
  <2>2. store'.old = store.old /\ store.old \in {None, env.old}
    BY <1>3, <1>5 DEF SessionsInv, Filled
  <2>3. store'.ready => store'.old = env'.old
    BY <1>3, <1>5, <2>2 DEF SessionsInv, Filled
  <2>4. \A r \in Calls : call'[r].load = "done" => store'.old = env'.old
    BY <1>5, <1>6, <2>2 DEF SessionsInv, Filled, AfterCurrent
  <2>5. QED
    BY <1>5, <2>1, <2>2, <2>3, <2>4 DEF Filled
<1>8. AfterCurrent \in {"old", "done"}
  BY DEF AfterCurrent
<1>9. Fill(q, keys, AfterCurrent)
  BY <1>1 DEF keys
<1>10. QED
  BY <1>3, <1>7, <1>8, <1>9, FillStep

LEMMA LoadOldStep == ASSUME SessionsInv, NEW q \in Calls, LoadOld(q) PROVE SessionsInv'
<1> DEFINE keys == [store EXCEPT !.old = env.old, !.ready = TRUE]
<1>1. /\ store \in [current : Keys \cup {None}, old : Keys \cup {None}, ready : BOOLEAN]
      /\ env.old \in Keys \cup {None}
      /\ call \in [Calls -> Call] /\ call[q] \in Call /\ call[q].load = "old"
  BY DEF SessionsInv, Typed, KeyPair, LoadOld
<1>2. /\ keys \in [current : Keys \cup {None}, old : Keys \cup {None}, ready : BOOLEAN]
      /\ keys.current = store.current /\ keys.old = env.old
  BY <1>1
<1>3. Fill(q, keys, "done")
  BY DEF LoadOld
<1>4. store' = keys /\ env' = env
  BY <1>3 DEF Fill
<1>5. \A r \in Calls : call'[r].load = IF r = q THEN "done" ELSE call[r].load
  BY <1>1, <1>3 DEF Fill, Call
<1> HIDE DEF keys
<1>6. HasCurrent'
  BY <1>1, <1>2, <1>4 DEF SessionsInv, Filled, HasCurrent
<1>7. Filled'
  BY <1>2, <1>4, <1>5, <1>6 DEF Filled
<1>8. QED
  BY <1>2, <1>3, <1>7, FillStep

LEMMA SignStep ==
  ASSUME SessionsInv, NEW q \in Calls, NEW t \in Tokens, Sign(q, t)
  PROVE  SessionsInv'
<1> DEFINE row == [user |-> call[q].user, key |-> store.current, live |-> TRUE,
                   by |-> call[q].challenge]
<1>1. /\ call[q] \in Call /\ call[q].pc = "sign" /\ token[t] = None /\ HasKeys(q)
      /\ OKCall(call[q], challenge, passkey, token, revoked, env)
      /\ UNCHANGED <<env, store, challenge, passkey, revoked>>
      /\ token' = [token EXCEPT ![t] = row] /\ call' = [call EXCEPT ![q] = NoCall]
  BY DEF SessionsInv, Typed, CallsOK, Sign, At, Close
<1>2. HasCurrent
  BY <1>1 DEF HasKeys, SessionsInv, Filled
<1>3. store.current \in Keys
  BY <1>2 DEF HasCurrent, SessionsInv, Typed
<1>4. /\ call[q].user \in Users /\ call[q].challenge \in Challenges \cup {None}
      /\ call[q].challenge # None =>
           /\ Uses(call[q]) /\ call[q].user \in Members
           /\ Registered(call[q].user, passkey)
           /\ challenge[call[q].challenge] # None
           /\ challenge[call[q].challenge].state = "consumed"
           /\ challenge[call[q].challenge].flow = "assertion"
  BY <1>1 DEF OKCall, Performs, Uses, Call
<1>5. row \in Token /\ row.by = call[q].challenge /\ row.user = call[q].user
  BY <1>3, <1>4 DEF Token
<1> HIDE DEF row
<1>6. call'[q] = NoCall /\ \A r \in Calls \ {q} : call'[r] = call[r]
  BY <1>1 DEF SessionsInv, Typed
<1>7. token'[t] = row /\ \A u \in Tokens \ {t} : token'[u] = token[u]
  BY <1>1 DEF SessionsInv, Typed
<1>8. Typed'
  BY <1>1, <1>5, NoCallOK DEF SessionsInv, Typed
<1>9. Once'
  BY <1>1, <1>4, <1>5, <1>6, <1>7, NoCallOK DEF SessionsInv, Once
<1>10. \A u \in Tokens \ {t} : token[u] # None /\ row.by # None => token[u].by # row.by
  BY <1>4, <1>5 DEF SessionsInv, Once
<1>11. CeremonyOnce'
  BY <1>1, <1>4, <1>5, <1>7, <1>10 DEF SessionsInv, CeremonyOnce, Registered
<1>12. Filled'
  BY <1>1, <1>6, NoCallOK DEF SessionsInv, Filled, HasCurrent
<1>13. Keeps
  BY <1>1, <1>7 DEF Keeps
<1>14. QED
  BY <1>1, <1>6, <1>8, <1>9, <1>11, <1>12, <1>13, NoCallOK, TableStep

LEMMA TokenExpiresStep ==
  ASSUME SessionsInv, NEW t \in Tokens, TokenExpires(t)
  PROVE  SessionsInv'
<1> DEFINE row == [token[t] EXCEPT !.live = FALSE]
<1>1. /\ token[t] \in Token /\ token[t] # None
      /\ UNCHANGED <<env, store, challenge, passkey, revoked, call>>
      /\ token' = [token EXCEPT ![t] = row]
  BY DEF SessionsInv, Typed, TokenExpires
<1>2. /\ row \in Token /\ row # None /\ row.user = token[t].user /\ row.key = token[t].key
      /\ row.by = token[t].by /\ ~row.live
  BY <1>1, SessionsAssumption DEF Token
<1> HIDE DEF row
<1>3. token'[t] = row /\ \A u \in Tokens \ {t} : token'[u] = token[u]
  BY <1>1 DEF SessionsInv, Typed
<1>4. \A u \in Tokens :
        /\ token'[u] # None <=> token[u] # None
        /\ token[u] # None => /\ token'[u].user = token[u].user
                              /\ token'[u].key = token[u].key /\ token'[u].by = token[u].by
                              /\ token'[u].live => token[u].live
  BY <1>1, <1>2, <1>3
<1>5. Typed'
  BY <1>1, <1>2 DEF SessionsInv, Typed
<1>6. Once' /\ CeremonyOnce'
  BY <1>1, <1>4 DEF SessionsInv, Once, CeremonyOnce
<1>7. Filled'
  BY <1>1 DEF SessionsInv, Filled, HasCurrent
<1>8. Keeps
  BY <1>1, <1>4 DEF Keeps
<1>9. CallsOK'
  BY <1>1, <1>8, CallKept DEF CallsOK
<1>10. QED
  BY <1>5, <1>6, <1>7, <1>9 DEF SessionsInv

(* A restart empties the key store and drops the calls. *)
LEMMA DeployStep == ASSUME SessionsInv, Deploy PROVE SessionsInv'
<1>1. PICK keys \in KeyPair : Restart(keys)
  <2>1. env \in KeyPair
    BY DEF SessionsInv, Typed
  <2>2. [env EXCEPT !.old = None] \in KeyPair
    BY <2>1 DEF KeyPair
  <2>3. \A k \in Keys : [current |-> k, old |-> env.current] \in KeyPair
    BY <2>1 DEF KeyPair
  <2>4. QED
    BY <2>1, <2>2, <2>3 DEF Deploy
<1>2. /\ env' = keys /\ store' = EmptyStore /\ call' = [q \in Calls |-> NoCall]
      /\ UNCHANGED <<challenge, passkey, token, revoked>>
  BY <1>1 DEF Restart, sessionTables
<1>3. Typed'
  BY <1>2, NoCallOK DEF SessionsInv, Typed, EmptyStore
<1>4. \A q \in Calls : call'[q] = NoCall
  BY <1>2
<1>5. CallsOK' /\ Once' /\ CeremonyOnce'
  BY <1>2, <1>4, NoCallOK DEF SessionsInv, CallsOK, Once, CeremonyOnce
<1>6. Filled'
  BY <1>2, <1>4, NoCallOK DEF Filled, EmptyStore
<1>7. QED
  BY <1>3, <1>5, <1>6 DEF SessionsInv

-----------------------------------------------------------------------------
LEMMA SessionsStep == ASSUME SessionsInv, SessionsNext PROVE SessionsInv'
<1>1. ASSUME NEW q \in Calls, NEW u \in Users, RegisterBegin(q, u) \/ DemoSignIn(q, u)
      PROVE  SessionsInv'
  BY <1>1, FindUserStep DEF RegisterBegin, DemoSignIn
<1>2. ASSUME NEW q \in Calls, Answer(q) \/ CallFails(q) PROVE SessionsInv'
  BY <1>2, CloseStep DEF Answer, CallFails, sessionTables
<1>3. QED
  BY <1>1, <1>2, LoginBeginStep, CreateUserStep, CreateChallengeStep, CompleteStep,
     ConsumeStep, InsertPasskeyStep, ReadPasskeyStep, WriteCountStep, ReadMemberStep,
     StartLoadingStep, LoadCurrentStep, LoadOldStep, SignStep, PresentStep, VerifyStep,
     CheckRevokedStep, RevokeStep, ChallengeExpiresStep, TokenExpiresStep, DeployStep
  DEF SessionsNext

LEMMA SessionsStutter == ASSUME SessionsInv, UNCHANGED sessionVars PROVE SessionsInv'
BY DEF sessionVars, sessionTables, SessionsInv, Typed, CallsOK, Once, Filled, HasCurrent, CeremonyOnce

LEMMA SessionsInvIsSound == ASSUME SessionsInv PROVE AcceptsLive /\ LogoutSticks /\ CeremonyOnce
BY DEF SessionsInv, CallsOK, OKCall, Presents, AcceptsLive, LogoutSticks, At

LEMMA SessionsInvariance == SessionsSpec => []SessionsInv
<1>1. (\E scene \in SessionScenes : SessionsInit(scene)) => SessionsInv
  BY SessionsStart
<1>2. SessionsInv /\ [SessionsNext]_sessionVars => SessionsInv'
  BY SessionsStep, SessionsStutter
<1>3. QED
  BY <1>1, <1>2, PTL DEF SessionsSpec

(* Whatever is restarted or rotated and however calls fill the key store,   *)
(* a request is refused only for a token that expired, was revoked, or was  *)
(* signed with a key the deployment no longer has (initKeyStore, verifyJwt). *)
THEOREM LiveTokensAccepted == SessionsSpec => []AcceptsLive
<1>1. SessionsInv => AcceptsLive
  BY SessionsInvIsSound
<1>2. QED
  BY <1>1, SessionsInvariance, PTL

(* No request that starts after a logout is served with the token that was  *)
(* revoked (handleLogout, verifyJwt).                                       *)
THEOREM LogoutIsFinal == SessionsSpec => []LogoutSticks
<1>1. SessionsInv => LogoutSticks
  BY SessionsInvIsSound
<1>2. QED
  BY <1>1, SessionsInvariance, PTL

(* A challenge leads to one passkey or one session at most, of its own      *)
(* flow, however often its answer is sent (consumeChallenge).               *)
THEOREM CeremoniesAreSingle == SessionsSpec => []CeremonyOnce
<1>1. SessionsInv => CeremonyOnce
  BY SessionsInvIsSound
<1>2. QED
  BY <1>1, SessionsInvariance, PTL

-----------------------------------------------------------------------------
(* The probe: one effect is active, and its call carries the cookie that    *)
(* the browser has.                                                         *)

Probing(p) == probe[p].active

Follows(p) ==
  /\ probe[p].pc = "answered" => probe[p].reply \in {probe[p].as, "failed"}
  /\ Probing(p) => probe[p].pc # "idle" /\ probe[p].as = cookie

ProbeInv ==
  /\ ProbeTypeOK
  /\ \A p \in Probes : Follows(p)
  /\ \A p, q \in Probes : Probing(p) /\ Probing(q) => p = q
  /\ (\E p \in Probes : Probing(p)) => view.loading
  /\ view.loading => ~view.error /\ ~view.unauthenticated
  /\ ViewMatchesCookie

LEMMA ProbeStart == ASSUME ProbeInit PROVE ProbeInv
<1> DEFINE first == CHOOSE p \in Probes : TRUE
           sent == [NoProbe EXCEPT !.pc = "sent", !.active = TRUE, !.as = cookie]
<1>1. first \in Probes
  BY ProbeAssumption
<1>a. /\ sent.pc = "sent" /\ sent.active /\ sent.as = cookie
      /\ cookie \in Personas \cup {"nobody"} => sent \in Probe
  BY DEF NoProbe, Probe
<1>2. /\ probe = [q \in Probes |-> IF q = first THEN sent ELSE NoProbe]
      /\ cookie \in Personas \cup {"nobody"}
      /\ view = [session |-> "nobody", loading |-> TRUE, error |-> FALSE,
                 unauthenticated |-> FALSE]
      /\ changes = 0
  BY DEF ProbeInit
<1> HIDE DEF first, sent
<1>3. /\ probe[first].active /\ probe[first].pc = "sent" /\ probe[first].as = cookie
      /\ \A q \in Probes \ {first} : ~probe[q].active /\ probe[q].pc = "idle"
  BY <1>1, <1>a, <1>2 DEF NoProbe
<1>4. probe \in [Probes -> Probe] /\ view \in View /\ changes \in 0..MaxChanges
  BY <1>a, <1>2, ProbeAssumption DEF Probe, View, NoProbe
<1>5. ProbeTypeOK
  BY <1>1, <1>2, <1>3, <1>4 DEF ProbeTypeOK
<1>6. view.loading /\ ~view.error /\ ~view.unauthenticated
  BY <1>2
<1>7. QED
  BY <1>1, <1>3, <1>5, <1>6 DEF ProbeInv, Follows, Probing, ViewMatchesCookie

LEMMA ChangeSessionStep ==
  ASSUME ProbeInv, NEW p \in Probes, NEW u \in Personas \cup {"nobody"}, ChangeSession(p, u)
  PROVE  ProbeInv'
<1> DEFINE sent == [NoProbe EXCEPT !.pc = "sent", !.active = TRUE, !.as = cookie']
<1>a. /\ sent.pc = "sent" /\ sent.active /\ sent.as = cookie' /\ sent.reply = "nobody"
      /\ cookie' \in Personas \cup {"nobody"} => sent \in Probe
  BY DEF NoProbe, Probe
<1>1. probe \in [Probes -> Probe] /\ view \in View /\ changes \in 0..MaxChanges
  BY DEF ProbeInv, ProbeTypeOK
<1>2. /\ cookie' = u
      /\ probe' = [q \in Probes |-> IF q = p THEN sent ELSE [probe[q] EXCEPT !.active = FALSE]]
      /\ view' = [view EXCEPT !.loading = TRUE, !.error = FALSE, !.unauthenticated = FALSE]
  BY DEF ChangeSession, Refresh
<1> HIDE DEF sent
<1>3. view' \in View /\ view'.loading /\ ~view'.error /\ ~view'.unauthenticated
  BY <1>1, <1>2 DEF View
<1>4. changes' \in 0..MaxChanges
  BY <1>1, ProbeAssumption DEF ChangeSession
<1>5. \A q \in Probes : probe'[q] \in Probe
  BY <1>1, <1>a, <1>2 DEF Probe
<1>6. /\ probe'[p].active /\ probe'[p].pc = "sent" /\ probe'[p].as = u
      /\ \A q \in Probes \ {p} : /\ ~probe'[q].active
                               /\ probe'[q].pc = probe[q].pc
                               /\ probe'[q].as = probe[q].as
                               /\ probe'[q].reply = probe[q].reply
  BY <1>1, <1>a, <1>2 DEF Probe
<1>7. probe' \in [Probes -> Probe]
  BY <1>2, <1>5
<1>8. ProbeTypeOK'
  BY <1>2, <1>3, <1>4, <1>6, <1>7 DEF ProbeTypeOK
<1>9. \A q \in Probes : Follows(q)'
  BY <1>2, <1>6 DEF Follows, Probing, ProbeInv
<1>10. QED
  BY <1>3, <1>6, <1>8, <1>9 DEF ProbeInv, Probing, ViewMatchesCookie

LEMMA AnswerProbeStep ==
  ASSUME ProbeInv, NEW p \in Probes, AnswerProbe(p) PROVE ProbeInv'
<1>1. UNCHANGED <<cookie, view, changes>>
  BY DEF AnswerProbe
<1>2. /\ \A q \in Probes : probe'[q].active = probe[q].active /\ probe'[q].as = probe[q].as
      /\ \A q \in Probes \ {p} : probe'[q] = probe[q]
      /\ probe'[p].pc = "answered" /\ probe'[p].reply \in {probe[p].as, "failed"}
      /\ probe' \in [Probes -> Probe]
  <2>1. PICK reply \in {probe[p].as, "failed"} :
          probe' = [probe EXCEPT ![p].pc = "answered", ![p].reply = reply]
    BY DEF AnswerProbe
  <2>2. probe \in [Probes -> Probe]
    BY DEF ProbeInv, ProbeTypeOK
  <2>3. /\ probe'[p] = [probe[p] EXCEPT !.pc = "answered", !.reply = reply]
        /\ \A q \in Probes \ {p} : probe'[q] = probe[q]
        /\ probe'[p] \in Probe
    BY <2>1, <2>2 DEF Probe
  <2>4. /\ probe'[p].active = probe[p].active /\ probe'[p].as = probe[p].as
        /\ probe'[p].pc = "answered" /\ probe'[p].reply = reply
    BY <2>2, <2>3 DEF Probe
  <2>5. probe' \in [Probes -> Probe]
    BY <2>1, <2>2, <2>3
  <2>6. QED
    BY <2>3, <2>4, <2>5
<1>3. ProbeTypeOK'
  BY <1>1, <1>2 DEF ProbeInv, ProbeTypeOK
<1>4. \A q \in Probes : Follows(q)'
  BY <1>1, <1>2 DEF ProbeInv, Follows, Probing
<1>5. ViewMatchesCookie'
  BY <1>1 DEF ProbeInv, ViewMatchesCookie, ShowsLogin
<1>6. QED
  BY <1>1, <1>2, <1>3, <1>4, <1>5 DEF ProbeInv, Probing

LEMMA HandleProbeStep ==
  ASSUME ProbeInv, NEW p \in Probes, HandleProbe(p) PROVE ProbeInv'
<1>1. probe \in [Probes -> Probe] /\ view \in View /\ UNCHANGED <<cookie, changes>>
  BY DEF ProbeInv, ProbeTypeOK, HandleProbe
<1>2. /\ probe'[p] = NoProbe
      /\ \A q \in Probes \ {p} : probe'[q] = probe[q]
      /\ probe' \in [Probes -> Probe]
  BY <1>1 DEF HandleProbe, Probe, NoProbe
<1>3. \A q \in Probes : Follows(q)'
  BY <1>1, <1>2 DEF ProbeInv, Follows, Probing, NoProbe
<1>4. ~probe'[p].active
  BY <1>2 DEF NoProbe
<1>5. CASE ~probe[p].active
  <2>1. view' = view
    BY <1>5 DEF HandleProbe
  <2>2. \A q \in Probes : probe'[q].active <=> probe[q].active
    BY <1>2, <1>4, <1>5
  <2>3. ProbeTypeOK'
    BY <1>1, <1>2, <2>1, <2>2 DEF ProbeInv, ProbeTypeOK
  <2>4. ViewMatchesCookie'
    BY <1>1, <2>1 DEF ProbeInv, ViewMatchesCookie, ShowsLogin
  <2>5. QED
    BY <1>1, <1>3, <2>1, <2>2, <2>3, <2>4 DEF ProbeInv, Probing
<1>6. CASE probe[p].active
  <2>1. \A q \in Probes : ~probe'[q].active
    BY <1>2, <1>4, <1>6 DEF ProbeInv, Probing
  <2>2. /\ probe[p].reply \in {cookie, "failed"}
        /\ ~view.error /\ ~view.unauthenticated /\ cookie \in Personas \cup {"nobody"}
    BY <1>6 DEF ProbeInv, ProbeTypeOK, Follows, Probing, HandleProbe
  <2>3. CASE probe[p].reply = "failed"
    <3>1. view' = [view EXCEPT !.loading = FALSE, !.error = TRUE]
      BY <1>6, <2>3 DEF HandleProbe
    <3>2. view' \in View /\ ~view'.loading /\ view'.error
      BY <1>1, <3>1 DEF View
    <3>3. QED
      BY <1>1, <1>2, <1>3, <2>1, <3>2 DEF ProbeInv, ProbeTypeOK, Probing, ViewMatchesCookie
  <2>4. CASE probe[p].reply # "failed" /\ cookie = "nobody"
    <3>1. view' = [view EXCEPT !.loading = FALSE, !.unauthenticated = TRUE]
      BY <1>6, <2>2, <2>4 DEF HandleProbe
    <3>2. view' \in View /\ ~view'.loading /\ view'.unauthenticated
      BY <1>1, <3>1 DEF View
    <3>3. QED
      BY <1>1, <1>2, <1>3, <2>1, <2>4, <3>2
      DEF ProbeInv, ProbeTypeOK, Probing, ViewMatchesCookie, ShowsLogin
  <2>5. CASE probe[p].reply # "failed" /\ cookie # "nobody"
    <3>1. view' = [view EXCEPT !.loading = FALSE, !.session = cookie]
      BY <1>6, <2>2, <2>5 DEF HandleProbe
    <3>2. /\ view' \in View /\ ~view'.loading /\ view'.session = cookie
          /\ view'.unauthenticated = view.unauthenticated
      BY <1>1, <2>2, <3>1 DEF View
    <3>3. QED
      BY <1>1, <1>2, <1>3, <2>1, <2>2, <2>5, <3>2
      DEF ProbeInv, ProbeTypeOK, Probing, ViewMatchesCookie, ShowsLogin
  <2>6. QED
    BY <2>3, <2>4, <2>5
<1>7. QED
  BY <1>5, <1>6

LEMMA ProbeStep == ASSUME ProbeInv, [ProbeNext]_probeVars PROVE ProbeInv'
<1>1. CASE ClickSession \/ UNCHANGED probeVars
  <2>1. UNCHANGED <<cookie, view, probe>>
    BY <1>1 DEF ClickSession, probeVars
  <2>2. changes' \in 0..MaxChanges
    BY <1>1, ProbeAssumption DEF ClickSession, probeVars, ProbeInv, ProbeTypeOK
  <2>3. ProbeTypeOK'
    BY <2>1, <2>2 DEF ProbeInv, ProbeTypeOK
  <2>4. (\A p \in Probes : Follows(p)') /\ ViewMatchesCookie'
    BY <2>1 DEF ProbeInv, Follows, Probing, ViewMatchesCookie, ShowsLogin
  <2>5. QED
    BY <2>1, <2>3, <2>4 DEF ProbeInv, Probing
<1>2. QED
  BY <1>1, ChangeSessionStep, AnswerProbeStep, HandleProbeStep DEF ProbeNext

-----------------------------------------------------------------------------
(* The login page *)

SignInInv ==
  /\ SignInTypeOK
  /\ \A a \in Attempts : attempt[a].here \/ attempt[a].onPage => login.shown
  /\ ButtonsTell

LEMMA SignInStart == ASSUME SignInInit PROVE SignInInv
BY DEF SignInInit, SignInInv, SignInTypeOK, ButtonsTell, FreshPage, NoAttempt, Login, Attempt,
       Tabs, InPasskey

LEMMA SelectLoginTabStep ==
  ASSUME SignInInv, NEW t \in Tabs, SelectLoginTab(t) PROVE SignInInv'
<1>1. login \in Login /\ attempt \in [Attempts -> Attempt] /\ login.shown
  BY DEF SignInInv, SignInTypeOK, SelectLoginTab
<1>2. /\ login' \in Login /\ login'.shown /\ login'.demoBusy = login.demoBusy
      /\ login'.busy <=> login.busy /\ t = login.tab
  BY <1>1 DEF SelectLoginTab, Login
<1>3. /\ attempt' \in [Attempts -> Attempt]
      /\ \A a \in Attempts : /\ attempt'[a].pc = attempt[a].pc
                             /\ attempt'[a].onPage = attempt[a].onPage
                             /\ attempt'[a].here <=> attempt[a].here /\ t = login.tab
  <2>1. \A a \in Attempts :
          attempt'[a] = [attempt[a] EXCEPT !.here = @ /\ t = login.tab]
    BY DEF SelectLoginTab
  <2>2. \A a \in Attempts : /\ attempt'[a] \in Attempt
                            /\ attempt'[a].pc = attempt[a].pc
                            /\ attempt'[a].onPage = attempt[a].onPage
    BY <1>1, <2>1 DEF Attempt
  <2>3. ASSUME NEW a \in Attempts
        PROVE  attempt'[a].here <=> attempt[a].here /\ t = login.tab
    <3>1. "here" \in DOMAIN attempt[a] /\ attempt[a].here \in BOOLEAN
      BY <1>1 DEF Attempt
    <3>2. CASE t = login.tab /\ attempt[a].here
      <4>1. attempt'[a] = [attempt[a] EXCEPT !.here = TRUE]
        BY <2>1, <3>2, Zenon
      <4>2. QED
        BY <3>1, <3>2, <4>1
    <3>3. CASE ~(t = login.tab /\ attempt[a].here)
      <4>1. attempt'[a] = [attempt[a] EXCEPT !.here = FALSE]
        BY <2>1, <3>1, <3>3
      <4>2. QED
        BY <3>1, <3>3, <4>1
    <3>4. QED
      BY <3>2, <3>3
  <2>4. QED
    BY <2>2, <2>3 DEF SelectLoginTab
<1>4. ButtonsTell'
  <2>1. /\ login.busy <=> \E a \in Attempts : InPasskey(a) /\ attempt[a].here
        /\ \A a, b \in Attempts :
             InPasskey(a) /\ InPasskey(b) /\ attempt[a].here /\ attempt[b].here => a = b
        /\ login.demoBusy => \E a \in Attempts : attempt[a].pc = "demo" /\ attempt[a].onPage
    BY DEF SignInInv, ButtonsTell
  <2>2. \A a \in Attempts : attempt'[a].pc = attempt[a].pc
    BY <1>3
  <2>7. \A a \in Attempts : InPasskey(a)' <=> InPasskey(a)
    BY <2>2 DEF InPasskey
  <2>8. \A a \in Attempts : attempt'[a].here => attempt[a].here
    BY <1>1, <1>3 DEF Attempt
  <2>3. (login.busy <=> \E a \in Attempts : InPasskey(a) /\ attempt[a].here)'
    <3>1. CASE t = login.tab
      <4>1. \A a \in Attempts : InPasskey(a)' /\ attempt'[a].here <=>
                                   InPasskey(a) /\ attempt[a].here
        BY <1>1, <1>3, <2>7, <3>1 DEF Attempt
      <4>2. QED
        BY <1>2, <2>1, <4>1, <3>1, Zenon
    <3>2. CASE t # login.tab
      <4>1. \A a \in Attempts : ~attempt'[a].here
        BY <1>1, <1>2, <1>3, <3>2 DEF Attempt
      <4>2. QED
        BY <1>2, <4>1, <3>2, Zenon
    <3>3. QED
      BY <3>1, <3>2
  <2>4. (\A a, b \in Attempts :
           InPasskey(a) /\ InPasskey(b) /\ attempt[a].here /\ attempt[b].here => a = b)'
    BY <2>1, <2>7, <2>8, Zenon
  <2>5. (login.demoBusy => \E a \in Attempts : attempt[a].pc = "demo" /\ attempt[a].onPage)'
    BY <1>1, <1>2, <1>3, <2>1 DEF Attempt
  <2>6. QED
    BY <2>3, <2>4, <2>5 DEF ButtonsTell
<1>5. QED
  BY <1>2, <1>3, <1>4 DEF SignInInv, SignInTypeOK

LEMMA ClickPasskeyStep ==
  ASSUME SignInInv, NEW a \in Attempts, ClickPasskey(a) PROVE SignInInv'
<1> USE DEF SignInInv, ClickPasskey, SignInTypeOK
<1>1. /\ login' \in Login /\ login'.busy /\ login'.shown /\ login'.demoBusy = login.demoBusy
  BY DEF Login, StartAttempt
<1>2. /\ attempt'[a] = [pc |-> "begin", here |-> TRUE, onPage |-> TRUE]
      /\ \A b \in Attempts \ {a} : attempt'[b] = attempt[b]
      /\ attempt[a].pc = "idle"
  BY DEF StartAttempt
<1>3. attempt' \in [Attempts -> Attempt]
  BY DEF StartAttempt, Attempt
<1>4. \A b \in Attempts : ~(InPasskey(b) /\ attempt[b].here)
  BY DEF ButtonsTell
<1>5. ButtonsTell'
  BY <1>1, <1>2, <1>4 DEF ButtonsTell, InPasskey
<1>6. QED
  BY <1>1, <1>2, <1>3, <1>5

LEMMA handleDemoStep ==
  ASSUME SignInInv, NEW a \in Attempts, handleDemo(a) PROVE SignInInv'
<1> USE DEF SignInInv, handleDemo, SignInTypeOK
<1>1. /\ login' \in Login /\ login'.busy = login.busy /\ login'.shown
  BY DEF Login, StartAttempt
<1>2. /\ attempt'[a] = [pc |-> "demo", here |-> TRUE, onPage |-> TRUE]
      /\ \A b \in Attempts \ {a} : attempt'[b] = attempt[b]
      /\ attempt[a].pc = "idle"
  BY DEF StartAttempt
<1>3. attempt' \in [Attempts -> Attempt]
  BY DEF StartAttempt, Attempt
<1>4. ButtonsTell'
  BY <1>1, <1>2 DEF ButtonsTell, InPasskey
<1>5. QED
  BY <1>1, <1>2, <1>3, <1>4

LEMMA GoOnPasskeyStep ==
  ASSUME SignInInv, NEW a \in Attempts, GoOnPasskey(a) PROVE SignInInv'
BY DEF SignInInv, GoOnPasskey, SignInTypeOK, ButtonsTell, Attempt, InPasskey

LEMMA AttemptFailsStep ==
  ASSUME SignInInv, NEW a \in Attempts, AttemptFails(a) PROVE SignInInv'
<1> USE DEF SignInInv, SignInTypeOK
<1>1. /\ attempt'[a] = NoAttempt
      /\ \A b \in Attempts \ {a} : attempt'[b] = attempt[b]
      /\ attempt' \in [Attempts -> Attempt]
      /\ attempt[a].pc # "idle"
  BY DEF AttemptFails, NoAttempt, Attempt
<1>2. CASE attempt[a].pc = "demo"
  <2>1. /\ login' \in Login /\ login'.busy = login.busy /\ login'.shown = login.shown
        /\ login'.demoBusy = (login.demoBusy /\ ~attempt[a].onPage)
    BY <1>2 DEF AttemptFails, Enabled, Login, Attempt
  <2>2. \A b \in Attempts : InPasskey(b)' <=> InPasskey(b)
    BY <1>1, <1>2 DEF InPasskey, NoAttempt
  <2>3. \A b \in Attempts : InPasskey(b) => b # a /\ attempt'[b] = attempt[b]
    BY <1>1, <1>2 DEF InPasskey
  <2>4. login'.demoBusy => \E b \in Attempts : attempt'[b].pc = "demo" /\ attempt'[b].onPage
    BY <1>1, <2>1 DEF ButtonsTell
  <2>5. ButtonsTell'
    BY <2>1, <2>2, <2>3, <2>4 DEF ButtonsTell
  <2>6. QED
    BY <1>1, <2>1, <2>5 DEF NoAttempt
<1>3. CASE attempt[a].pc # "demo"
  <2>1. /\ login' \in Login /\ login'.demoBusy = login.demoBusy /\ login'.shown = login.shown
        /\ login'.busy = (login.busy /\ ~attempt[a].here)
    BY <1>3 DEF AttemptFails, Enabled, Login, Attempt
  <2>2. InPasskey(a)
    BY <1>1, <1>3 DEF InPasskey, Attempt
  <2>3. /\ ~InPasskey(a)'
        /\ \A b \in Attempts \ {a} : InPasskey(b)' <=> InPasskey(b)
    BY <1>1 DEF InPasskey, NoAttempt
  <2>4. login'.busy <=> \E b \in Attempts : InPasskey(b)' /\ attempt'[b].here
    BY <1>1, <2>1, <2>2, <2>3 DEF ButtonsTell
  <2>5. login'.demoBusy => \E b \in Attempts : attempt'[b].pc = "demo" /\ attempt'[b].onPage
    BY <1>1, <1>3, <2>1 DEF ButtonsTell
  <2>6. ButtonsTell'
    BY <1>1, <2>3, <2>4, <2>5 DEF ButtonsTell
  <2>7. QED
    BY <1>1, <2>1, <2>6 DEF NoAttempt
<1>4. QED
  BY <1>2, <1>3

LEMMA handleSuccessStep ==
  ASSUME SignInInv, NEW a \in Attempts, handleSuccess(a) PROVE SignInInv'
<1> USE DEF SignInInv, SignInTypeOK
<1>1. /\ login' \in Login /\ ~login'.busy /\ ~login'.demoBusy
  BY DEF handleSuccess, FreshPage, Login, Tabs
<1>2. /\ attempt' \in [Attempts -> Attempt]
      /\ \A b \in Attempts : ~attempt'[b].here /\ ~attempt'[b].onPage
  BY DEF handleSuccess, NoAttempt, Attempt
<1>3. QED
  BY <1>1, <1>2 DEF ButtonsTell

LEMMA SignInStep == ASSUME SignInInv, [SignInNext]_signInVars PROVE SignInInv'
<1>1. CASE DemoUsers \/ NameMissing
  BY <1>1 DEF SignInInv, DemoUsers, NameMissing, SignInTypeOK, ButtonsTell, Login, InPasskey
<1>2. CASE ShowLoginPage
  BY <1>2 DEF SignInInv, ShowLoginPage, SignInTypeOK, ButtonsTell, Login, InPasskey, FreshPage, Tabs
<1>3. CASE UNCHANGED signInVars
  BY <1>3 DEF SignInInv, signInVars, SignInTypeOK, ButtonsTell, InPasskey
<1>4. ASSUME NEW a \in Attempts, ClickPersona(a) \/ EnterName(a) PROVE SignInInv'
  BY <1>4, handleDemoStep DEF ClickPersona, EnterName
<1>5. QED
  BY <1>1, <1>2, <1>3, <1>4, SelectLoginTabStep, ClickPasskeyStep, GoOnPasskeyStep,
     AttemptFailsStep, handleSuccessStep DEF SignInNext

-----------------------------------------------------------------------------
(* The review screen.  What the server has told is still so, for an        *)
(* approved run stays approved and a reviewed row reviewed.                 *)

Told(data) == /\ data.reviewed \subseteq server.reviewed
              /\ data.status = "Approved" => server.status = "Approved"

PostTold(p) == /\ Told(post[p].data)
               /\ post[p].kind = "approve" => post[p].row \in Rows
               /\ post[p].kind \in {"batch", "finalize"} /\ post[p].reply = "ok"
                    => server.status = "Approved"

ReviewInv == /\ DOMAIN post = Posts
             /\ "data" \in DOMAIN screen /\ "phase" \in DOMAIN screen
             /\ \A p \in Posts : post[p] \in Post
             /\ server \in [status : {"Open", "Approved"}, reviewed : SUBSET Rows,
                            gap : BOOLEAN]
             /\ ScreenTellsApproved
             /\ \A p \in Posts : PostTold(p)

ServerKeeps == /\ server.reviewed \subseteq server'.reviewed
               /\ server.status = "Approved" => server'.status = "Approved"

LEMMA ReviewStart == ASSUME ScreenInit PROVE ReviewInv
  BY DEF ScreenInit, ReviewInv, ScreenTellsApproved, PostTold, Told, NoPost, NoSnapshot,
         Post, Snapshot

(* A call that is made. *)
Asked(made) == /\ made \in Post /\ made.reply = "none" /\ made.data = NoSnapshot
               /\ made.kind = "approve" => made.row \in Rows

LEMMA NoPostOK == Asked(NoPost)
<1>1. NoSnapshot \in Snapshot
  BY DEF NoSnapshot, Snapshot
<1>2. QED
  BY <1>1 DEF NoPost, Post, Asked

LEMMA RequestOK ==
  ASSUME NEW kind \in {"start", "queue", "approve", "batch", "finalize"}
  PROVE  /\ Request(kind) \in Post /\ Request(kind).reply = "none"
         /\ Request(kind).data = NoSnapshot /\ Request(kind).kind = kind
  BY NoPostOK DEF Request, Post, Asked

(* A step that keeps the calls, or gives one of them other contents, and    *)
(* keeps what the screen tells.                                             *)
LEMMA ScreenKept ==
  ASSUME ReviewInv, ServerKeeps, NEW p \in Posts,
         server' \in [status : {"Open", "Approved"}, reviewed : SUBSET Rows, gap : BOOLEAN],
         DOMAIN post' = Posts, \A q \in Posts \ {p} : post'[q] = post[q],
         post'[p] \in Post, PostTold(p)',
         screen'.data \in {screen.data, NoSnapshot, post[p].data},
         "data" \in DOMAIN screen', "phase" \in DOMAIN screen',
         \/ screen'.phase \notin {"batch-approved", "finalized"}
         \/ screen'.phase = screen.phase
         \/ post[p].kind \in {"batch", "finalize"} /\ post[p].reply = "ok"
  PROVE  ReviewInv'
<1>1. \A q \in Posts : post'[q] \in Post
  BY DEF ReviewInv
<1>2. \A q \in Posts : PostTold(q)'
  BY DEF ReviewInv, PostTold, Told, ServerKeeps
<1>3. ScreenTellsApproved'
  BY DEF ReviewInv, ScreenTellsApproved, ServerKeeps, PostTold, Told, NoSnapshot
<1>4. QED
  BY <1>1, <1>2, <1>3 DEF ReviewInv

LEMMA ClickStep == ASSUME ReviewInv, NEW p \in Posts, Click(p) PROVE ReviewInv'
<1>1. ServerKeeps /\ server' = server /\ server' \in
        [status : {"Open", "Approved"}, reviewed : SUBSET Rows, gap : BOOLEAN]
  BY DEF Click, ClickStart, ClickLoad, ClickApprove, ClickBatchApprove, ClickFinalize, Send,
         ServerKeeps, ReviewInv
<1>2. PICK made : post' = [post EXCEPT ![p] = made] /\ Asked(made)
  <2>1. CASE ClickStart(p) \/ ClickLoad(p) \/ ClickBatchApprove(p)
    <3>1. PICK kind \in {"start", "queue", "batch"} : post' = [post EXCEPT ![p] = Request(kind)]
      BY <2>1 DEF ClickStart, ClickLoad, ClickBatchApprove, Send, QueueRequest
    <3>2. Asked(Request(kind))
      BY RequestOK DEF Asked
    <3>3. QED
      BY <3>1, <3>2, Zenon
  <2>2. CASE \E r \in Rows : ClickApprove(p, r)
    <3>1. PICK r \in Rows : post' = [post EXCEPT ![p] = [Request("approve") EXCEPT !.row = r]]
      BY <2>2 DEF ClickApprove, Send
    <3>2. Asked([Request("approve") EXCEPT !.row = r])
      BY RequestOK DEF Asked, Post
    <3>3. QED
      BY <3>1, <3>2, Zenon
  <2>3. CASE ClickFinalize(p)
    <3>1. PICK from \in {"queue", "batch-approved"} :
            post' = [post EXCEPT ![p] = [Request("finalize") EXCEPT !.from = from]]
      BY <2>3 DEF ClickFinalize, Send
    <3>2. Asked([Request("finalize") EXCEPT !.from = from])
      BY RequestOK DEF Asked, Post
    <3>3. QED
      BY <3>1, <3>2, Zenon
  <2>4. QED
    BY <2>1, <2>2, <2>3 DEF Click
<1>3. /\ DOMAIN post' = Posts /\ post'[p] = made
      /\ \A q \in Posts \ {p} : post'[q] = post[q]
      /\ post'[p] \in Post
  BY <1>2 DEF ReviewInv, Asked
<1>4. PostTold(p)'
  BY <1>1, <1>2, <1>3 DEF PostTold, Told, NoSnapshot, ReviewInv, Asked
<1>5. /\ screen'.data = screen.data /\ "data" \in DOMAIN screen' /\ "phase" \in DOMAIN screen'
      /\ screen'.phase = screen.phase \/ screen'.phase = "loading"
  BY DEF Click, ClickStart, ClickLoad, ClickApprove, ClickBatchApprove, ClickFinalize, ReviewInv
<1>6. QED
  BY <1>1, <1>2, <1>3, <1>4, <1>5, ScreenKept

LEMMA AnswerStep == ASSUME ReviewInv, NEW p \in Posts, Serve(p) \/ Lose(p) PROVE ReviewInv'
<1>1. CASE Lose(p)
  <2>1. /\ DOMAIN post' = Posts /\ \A q \in Posts \ {p} : post'[q] = post[q]
        /\ post'[p] \in Post /\ post'[p].data = post[p].data /\ post'[p].row = post[p].row
        /\ post'[p].kind = post[p].kind /\ post'[p].reply = "failed"
    BY <1>1 DEF Lose, ReviewInv, Post
  <2>2. PostTold(p)'
    BY <1>1, <2>1 DEF PostTold, Told, ReviewInv, Lose
  <2>3. ServerKeeps
    BY <1>1 DEF ServerKeeps, Lose
  <2>4. QED
    BY <1>1, <2>1, <2>2, <2>3, ScreenKept DEF Lose, ReviewInv
<1>2. CASE Serve(p)
  <2>1. /\ server' \in [status : {"Open", "Approved"}, reviewed : SUBSET Rows, gap : BOOLEAN]
        /\ ServerKeeps
    <3>1. post[p] \in Post /\ (post[p].kind = "approve" => post[p].row \in Rows)
      BY DEF ReviewInv, PostTold
    <3>2. CASE server' = server
      BY <3>2 DEF ServerKeeps, ReviewInv
    <3>3. CASE /\ post[p].kind = "approve" /\ server.status # "Approved"
               /\ post[p].row \in Rows
               /\ server' = [server EXCEPT !.reviewed = @ \cup {post[p].row}]
      BY <3>3 DEF ServerKeeps, ReviewInv
    <3>4. CASE server' = [server EXCEPT !.status = "Approved"]
      BY <3>4 DEF ServerKeeps, ReviewInv
    <3>5. QED
      BY <1>2, <3>1, <3>2, <3>3, <3>4 DEF Serve, Refusal, Post
  <2>2. PICK reply \in {"ok", "409", "422"} :
          /\ Answered(p, reply)
          /\ reply = "ok" /\ post[p].kind \in {"batch", "finalize"} => server'.status = "Approved"
    BY <1>2 DEF Serve, Refusal, ReviewInv
  <2>3. /\ DOMAIN post' = Posts /\ \A q \in Posts \ {p} : post'[q] = post[q]
        /\ post'[p] \in Post /\ post'[p].kind = post[p].kind /\ post'[p].reply = reply
        /\ post'[p].row = post[p].row
        /\ post'[p].data = [status |-> server'.status, reviewed |-> server'.reviewed]
    <3>1. PICK data \in Snapshot :
            data = [status |-> server'.status, reviewed |-> server'.reviewed]
      BY <2>1 DEF Snapshot
    <3>2. DOMAIN post = Posts /\ post[p] \in Post
      BY DEF ReviewInv
    <3>3. PICK next : next = [post[p] EXCEPT !.pc = "answered", !.reply = reply, !.data = data]
      OBVIOUS
    <3>4. next \in Post /\ next.kind = post[p].kind /\ next.row = post[p].row
          /\ next.reply = reply /\ next.data = data
      BY <3>2, <3>3 DEF Post
    <3>5. post' = [post EXCEPT ![p] = next]
      BY <2>2, <3>1, <3>2, <3>3 DEF Answered
    <3>6. QED
      BY <3>1, <3>2, <3>4, <3>5
  <2>4. PostTold(p)'
    BY <2>1, <2>2, <2>3 DEF PostTold, Told, ReviewInv
  <2>5. QED
    BY <1>2, <2>1, <2>3, <2>4, ScreenKept DEF Serve, ReviewInv
<1>3. QED
  BY <1>1, <1>2

LEMMA HandleStep == ASSUME ReviewInv, NEW p \in Posts, Handle(p) PROVE ReviewInv'
<1>1. ServerKeeps /\ server' = server /\ server' \in
        [status : {"Open", "Approved"}, reviewed : SUBSET Rows, gap : BOOLEAN]
  BY DEF Handle, HandleStart, HandleQueue, HandleApprove, HandleBatchApprove, HandleFinalize,
         Handled, LoadQueue, ServerKeeps, ReviewInv
<1>2. PICK made : post' = [post EXCEPT ![p] = made] /\ Asked(made)
  <2>1. Asked(NoPost)
    BY NoPostOK
  <2>2. ASSUME NEW reload \in BOOLEAN PROVE Asked([QueueRequest EXCEPT !.reload = reload])
    BY RequestOK DEF QueueRequest, Post, Asked
  <2>3. \/ post' = [post EXCEPT ![p] = NoPost]
        \/ \E reload \in BOOLEAN :
             post' = [post EXCEPT ![p] = [QueueRequest EXCEPT !.reload = reload]]
    BY DEF Handle, HandleStart, HandleQueue, HandleApprove, HandleBatchApprove, HandleFinalize,
           Handled, LoadQueue
  <2>4. QED
    BY <2>1, <2>2, <2>3, Zenon
<1>3. /\ DOMAIN post' = Posts /\ post'[p] = made
      /\ \A q \in Posts \ {p} : post'[q] = post[q]
      /\ post'[p] \in Post
  BY <1>2 DEF ReviewInv, Asked
<1>4. PostTold(p)'
  BY <1>1, <1>2, <1>3 DEF PostTold, Told, NoSnapshot, ReviewInv, Asked
<1>5. /\ screen'.data \in {screen.data, NoSnapshot, post[p].data}
      /\ "data" \in DOMAIN screen' /\ "phase" \in DOMAIN screen'
      /\ \/ screen'.phase \notin {"batch-approved", "finalized"}
         \/ screen'.phase = screen.phase
         \/ post[p].kind \in {"batch", "finalize"} /\ post[p].reply = "ok"
  <2>1. CASE HandleStart(p) \/ HandleApprove(p)
    BY <2>1 DEF HandleStart, HandleApprove, LoadQueue, ReviewInv
  <2>2. CASE HandleQueue(p)
    BY <2>2 DEF HandleQueue, ReviewInv
  <2>3. CASE HandleBatchApprove(p)
    BY <2>3 DEF HandleBatchApprove, Handles, Ok, Refused, ReviewInv
  <2>4. CASE HandleFinalize(p)
    BY <2>4 DEF HandleFinalize, Handles, Ok, Refused, ReviewInv
  <2>5. QED
    BY <2>1, <2>2, <2>3, <2>4 DEF Handle
<1>6. QED
  BY <1>1, <1>2, <1>3, <1>4, <1>5, ScreenKept

LEMMA OtherAdminStep == ASSUME ReviewInv, OtherAdmin PROVE ReviewInv'
<1>1. /\ server' \in [status : {"Open", "Approved"}, reviewed : SUBSET Rows, gap : BOOLEAN]
      /\ ServerKeeps
  BY DEF OtherAdmin, ServerKeeps, ReviewInv
<1>2. ScreenTellsApproved' /\ \A p \in Posts : PostTold(p)'
  BY <1>1 DEF OtherAdmin, ServerKeeps, ReviewInv, PostTold, Told, ScreenTellsApproved
<1>3. QED
  BY <1>1, <1>2 DEF ReviewInv, OtherAdmin

LEMMA ReviewStep == ASSUME ReviewInv, [ScreenNext]_screenVars PROVE ReviewInv'
<1>1. CASE UNCHANGED screenVars
  BY <1>1 DEF screenVars, ReviewInv, ScreenTellsApproved, PostTold, Told
<1>2. CASE ScreenNext
  BY <1>2, ClickStep, AnswerStep, HandleStep, OtherAdminStep DEF ScreenNext
<1>3. QED
  BY <1>1, <1>2

-----------------------------------------------------------------------------
(* The pages with a selection.  Each call under way was made for a          *)
(* selection; the calls of the latest are for what is selected.             *)

SelectInv == /\ DOMAIN fetch = SelectCalls /\ selects \in Nat
             /\ "of" \in DOMAIN selected
             /\ openView \in Guarded =>
                  \A s \in SelectCalls : fetch[s].pc # "idle" =>
                    /\ fetch[s].round \in Nat /\ fetch[s].round <= selects
                    /\ fetch[s].round = selects => fetch[s].of = selected.of
             /\ ShownIsSelected

LEMMA SelectStart == ASSUME SelectInit \/ SelectBegin PROVE SelectInv
  BY DEF SelectInit, SelectBegin, SelectInv, NoFetch, NothingShown, ShownIsSelected

LEMMA SelectingStep ==
  ASSUME SelectInv, NEW v \in Guarded, NEW c \in Selections, Select(v, c) PROVE SelectInv'
<1> DEFINE slot == (CHOOSE slot \in Slots(1) : TRUE)[1]
           asked == [NoFetch EXCEPT !.pc = "sent", !.of = c, !.round = selects + 1]
<1>1. /\ selects' = selects + 1 /\ openView' = openView /\ selects \in Nat
      /\ "of" \in DOMAIN selected' /\ selected'.of = c
      /\ shown'.phase = "loading"
  BY DEF Select, Selecting, SelectInv, NothingShown
<1>2. fetch' = [fetch EXCEPT ![slot] = asked]
  BY DEF Select
<1>3. asked.round = selects + 1 /\ asked.of = c
  BY DEF NoFetch
<1>4. /\ DOMAIN fetch' = SelectCalls
      /\ \A s \in SelectCalls : fetch'[s] = fetch[s] \/ fetch'[s] = asked
  BY <1>2 DEF SelectInv
<1> HIDE DEF slot, asked
<1>5. ASSUME NEW s \in SelectCalls, openView \in Guarded, fetch'[s].pc # "idle"
      PROVE  /\ fetch'[s].round \in Nat /\ fetch'[s].round <= selects'
             /\ fetch'[s].round = selects' => fetch'[s].of = selected'.of
  <2>1. CASE fetch'[s] = asked
    BY <1>1, <1>3, <2>1
  <2>2. CASE fetch'[s] = fetch[s]
    BY <1>1, <1>5, <2>2 DEF SelectInv
  <2>3. QED
    BY <1>4, <2>1, <2>2
<1>6. QED
  BY <1>1, <1>4, <1>5 DEF SelectInv, ShownIsSelected

(* Calls end, or are answered.                                              *)
LEMMA FetchKept ==
  ASSUME SelectInv, DOMAIN fetch' = SelectCalls, UNCHANGED <<openView, selected, selects>>,
         \A s \in SelectCalls : \/ fetch'[s].pc = "idle"
                                \/ /\ fetch[s].pc # "idle" /\ fetch'[s].round = fetch[s].round
                                   /\ fetch'[s].of = fetch[s].of,
         ShownIsSelected'
  PROVE  SelectInv'
  BY DEF SelectInv

LEMMA FetchRepliedStep ==
  ASSUME SelectInv, NEW s \in SelectCalls, NEW pc, FetchReplied(s, pc) PROVE SelectInv'
<1>1. \A t \in SelectCalls \ {s} : fetch'[t] = fetch[t]
  BY DEF FetchReplied, SelectInv
<1>2. /\ fetch'[s].round = fetch[s].round /\ fetch'[s].of = fetch[s].of
      /\ fetch[s].pc # "idle" /\ DOMAIN fetch' = SelectCalls
  BY DEF FetchReplied, SelectInv
<1>3. ShownIsSelected'
  BY DEF FetchReplied, SelectInv, ShownIsSelected
<1>4. QED
  BY <1>1, <1>2, <1>3, FetchKept, Zenon DEF FetchReplied

LEMMA AnswerTakenStep ==
  ASSUME SelectInv, NEW s \in SelectCalls, AnswerTaken(s), ShownIsSelected' PROVE SelectInv'
<1>1. DOMAIN fetch' = SelectCalls /\ \A t \in SelectCalls : fetch'[t] = fetch[t] \/ fetch'[t].pc = "idle"
  BY DEF AnswerTaken, SelectInv, NoFetch
<1>2. QED
  BY <1>1, FetchKept DEF AnswerTaken

LEMMA useAsyncStep == ASSUME SelectInv, NEW s \in SelectCalls, useAsync(s) PROVE SelectInv'
<1>1. shown'.phase = "data" => shown' = shown \/ shown'.of = selected.of
  <2>1. CASE Latest(s) /\ fetch[s].pc = "done"
    BY <2>1 DEF useAsync, Latest, ShowAnswer, NothingShown, SelectInv
  <2>2. CASE Latest(s) /\ fetch[s].pc # "done"
    BY <2>2 DEF useAsync, ShowAnswer, NothingShown
  <2>3. CASE ~Latest(s)
    BY <2>3 DEF useAsync
  <2>4. QED
    BY <2>1, <2>2, <2>3
<1>2. ShownIsSelected'
  BY <1>1 DEF useAsync, AnswerTaken, ShownIsSelected, SelectInv
<1>3. QED
  BY <1>2, AnswerTakenStep DEF useAsync

LEMMA SelectStep == ASSUME SelectInv, [SelectNext]_selectVars PROVE SelectInv'
<1>1. CASE UNCHANGED selectVars
  BY <1>1 DEF selectVars, SelectInv, ShownIsSelected
<1>2. ASSUME NEW c \in Selections, LoadFinancialPosition(c) \/ LoadProfitability(c) \/ LoadDrawBalance(c)
      PROVE  SelectInv'
  BY <1>2, SelectingStep DEF LoadFinancialPosition, LoadProfitability, LoadDrawBalance, Guarded
<1>3. ASSUME NEW s \in SelectCalls, FetchReplied(s, "done") \/ FetchReplied(s, "failed") \/ useAsync(s)
      PROVE  SelectInv'
  BY <1>3, FetchRepliedStep, useAsyncStep
<1>4. ASSUME SelectNext, openView \notin Guarded PROVE SelectInv'
  <2> DEFINE Kept == /\ openView' = openView /\ selects' \in Nat
                     /\ "of" \in DOMAIN selected' /\ DOMAIN fetch' = SelectCalls
  <2>1. /\ DOMAIN fetch = SelectCalls /\ selects \in Nat /\ selects + 1 \in Nat
        /\ "of" \in DOMAIN selected
    BY DEF SelectInv
  <2>2. ASSUME NEW c \in Selections, LoadTimeline(c) PROVE Kept
    BY <2>1, <2>2 DEF LoadTimeline, Select, Selecting
  <2>3. ASSUME NEW range \in Ranges, LoadTrends(range[1], range[2]) PROVE Kept
    <3>1. DOMAIN fetch' = SelectCalls
      BY <2>1, <2>3 DEF LoadTrends, AskMonths
    <3>2. "of" \in DOMAIN selected'
      BY <2>1, <2>3 DEF LoadTrends
    <3>3. QED
      BY <2>1, <2>3, <3>1, <3>2 DEF LoadTrends, Selecting
  <2>4. ASSUME NEW s \in SelectCalls,
               FetchReplied(s, "done") \/ FetchReplied(s, "failed") \/ SetEvents(s) \/ MonthFailed(s)
        PROVE  Kept
    BY <2>1, <2>4 DEF FetchReplied, SetEvents, MonthFailed, AnswerTaken
  <2>5. ASSUME NEW round \in 1..MaxSelects, AllMonths(round) PROVE Kept
    BY <2>1, <2>5 DEF AllMonths
  <2>6. Kept
    BY <1>4, <2>2, <2>3, <2>4, <2>5 DEF SelectNext, LoadFinancialPosition,
       LoadProfitability, LoadDrawBalance, Select, Selecting, useAsync, Guarded
  <2>7. QED
    BY <1>4, <2>6 DEF SelectInv, ShownIsSelected
<1>5. QED
  <2>1. CASE openView \in Guarded /\ SelectNext
    BY <1>2, <1>3, <2>1 DEF SelectNext, Guarded, LoadTimeline, Select, Selecting, LoadTrends,
       SetEvents, MonthFailed, AllMonths
  <2>2. QED
    BY <1>1, <1>4, <2>1

-----------------------------------------------------------------------------
(* The trends of a range.  The loop over the cursor is a recursive function *)
(* of the calendar: the rows in closed form satisfy its equation (RowsOf),  *)
(* and two functions that do cannot differ, for the last cursor where they  *)
(* did would have a successor.                                              *)

LEMMA DaysAre == Cardinality(Days) \in Nat \ {0} /\ Days = 1..Cardinality(Days)
<1>1. Cardinality(Days) \in Nat /\ Days = 1..Cardinality(Days) /\ Days # {}
  BY FS_CardinalityType, CalendarAssumption
<1>2. Cardinality(Days) # 0
  BY <1>1
<1>. QED BY <1>1, <1>2

(* Months never go back.                                                    *)
LEMMA MonthsGrow ==
  ASSUME NEW d \in Days, NEW e \in Days, d <= e
  PROVE  MonthOf[d] <= MonthOf[e]
<1>1. SUFFICES ASSUME MonthOf[e] < MonthOf[d] PROVE FALSE
  BY CalendarAssumption
<1>. DEFINE S == {x \in d..e : MonthOf[x] >= MonthOf[d]}
<1>2. PICK n \in Nat : Days = 1..n
  BY DaysAre
<1>3. d \in S /\ S \in SUBSET (0..n) /\ e \notin S
  BY <1>1, <1>2, CalendarAssumption
<1>4. PICK x \in S : \A y \in S : y <= x
  <2>. HIDE DEF S
  <2>. QED BY <1>2, <1>3, Greatest
<1>5. x \in Days /\ x + 1 \in Days /\ x + 1 \in d..e
  BY <1>2, <1>3, <1>4
<1>6. x + 1 \in S
  BY <1>1, <1>4, <1>5, CalendarAssumption
<1>. QED BY <1>2, <1>3, <1>4, <1>6

(* A month between two days has a last day, and the next month begins after *)
(* it.                                                                      *)
LEMMA MonthLast ==
  ASSUME NEW d \in Days, NEW e \in Days, NEW m \in MonthOf[d]..MonthOf[e]
  PROVE  /\ LastOf(m) \in Days /\ MonthOf[LastOf(m)] = m
         /\ \A x \in Days : x <= LastOf(m) <=> MonthOf[x] <= m
         /\ m < MonthOf[e] => /\ LastOf(m) + 1 \in Days /\ LastOf(m) + 1 <= e
                              /\ MonthOf[LastOf(m) + 1] = m + 1
<1>1. PICK n \in Nat : Days = 1..n
  BY DaysAre
<1>2. m \in Nat /\ \A x \in Days : MonthOf[x] \in Nat /\ x \in Nat
  BY <1>1, CalendarAssumption
<1>3. PICK z \in Days : MonthOf[z] = m /\ \A x \in Days : MonthOf[x] <= m => x <= z
  <2>. DEFINE S == {x \in Days : MonthOf[x] <= m}
  <2>1. d \in S /\ S \in SUBSET (0..n)
    BY <1>1, <1>2
  <2>2. PICK z \in S : \A y \in S : y <= z
    <3>. HIDE DEF S
    <3>. QED BY <2>1, Greatest
  <2>3. MonthOf[z] = m
    <3>1. SUFFICES ASSUME MonthOf[z] < m PROVE FALSE
      BY <1>2, <2>2
    <3>2. z < e
      BY <1>1, <1>2, <3>1, <2>2, MonthsGrow
    <3>3. z + 1 \in Days /\ MonthOf[z + 1] \in {MonthOf[z], MonthOf[z] + 1}
      BY <1>1, <2>2, <3>2, CalendarAssumption
    <3>4. z + 1 \in S
      BY <1>2, <3>1, <3>3
    <3>. QED BY <1>1, <2>2, <3>3, <3>4
  <2>. QED BY <2>2, <2>3
<1>4. LastOf(m) = z
  <2>1. \A y \in Days : (MonthOf[y] = m /\ \A x \in Days : MonthOf[x] = m => x <= y) => y = z
    BY <1>1, <1>2, <1>3
  <2>2. MonthOf[z] = m /\ \A x \in Days : MonthOf[x] = m => x <= z
    BY <1>2, <1>3
  <2>. QED BY <2>1, <2>2 DEF LastOf
<1>5. \A x \in Days : x <= z <=> MonthOf[x] <= m
  BY <1>1, <1>2, <1>3, MonthsGrow
<1>6. ASSUME m < MonthOf[e] PROVE z + 1 \in Days /\ z + 1 <= e /\ MonthOf[z + 1] = m + 1
  <2>1. z < e
    BY <1>1, <1>2, <1>5, <1>6
  <2>2. z + 1 \in Days
    BY <1>1, <2>1
  <2>3. MonthOf[z + 1] > m
    BY <1>1, <1>2, <1>5, <2>2
  <2>4. MonthOf[z + 1] \in {MonthOf[z], MonthOf[z] + 1}
    BY <2>2, CalendarAssumption
  <2>. QED BY <1>1, <1>2, <1>3, <2>1, <2>2, <2>3, <2>4
<1>. QED BY <1>3, <1>4, <1>5, <1>6

-----------------------------------------------------------------------------
(* The rows of a range in closed form: the i-th is the part of the i-th     *)
(* month that is in the range.                                              *)
Row(first, last, i) ==
  [start |-> IF i = 1 THEN first ELSE LastOf(MonthOf[first] + i - 2) + 1,
   end |-> IF LastOf(MonthOf[first] + i - 1) < last
             THEN LastOf(MonthOf[first] + i - 1) ELSE last]

RowsOf(first, last) ==
  [i \in 1..(MonthOf[last] - MonthOf[first] + 1) |-> Row(first, last, i)]

LEMMA RowsUnfold ==
  ASSUME NEW cursor \in Days, NEW last \in Days, cursor <= last
  PROVE  LET next == LastOf(MonthOf[cursor]) + 1
         IN  /\ next \in 1..(Cardinality(Days) + 1) /\ next > cursor
             /\ RowsOf(cursor, last) =
                  <<[start |-> cursor, end |-> BucketEnd(cursor, last)]>>
                    \o (IF next > last THEN << >> ELSE RowsOf(next, last))
<1>. DEFINE next == LastOf(MonthOf[cursor]) + 1
            head == [start |-> cursor, end |-> BucketEnd(cursor, last)]
<1>1. PICK n \in Nat : n = Cardinality(Days) /\ Days = 1..n
  BY DaysAre
<1>2. \A x \in Days : MonthOf[x] \in Nat /\ x \in Nat
  BY <1>1, CalendarAssumption
<1>3. MonthOf[cursor] <= MonthOf[last]
  BY MonthsGrow
<1>4. PICK z \in Days :
      /\ next = z + 1
      /\ \A x \in Days : x <= z <=> MonthOf[x] <= MonthOf[cursor]
      /\ MonthOf[cursor] < MonthOf[last] =>
           next \in Days /\ next <= last /\ MonthOf[next] = MonthOf[cursor] + 1
  <2>1. MonthOf[cursor] \in MonthOf[cursor]..MonthOf[last]
    BY <1>2, <1>3
  <2>2. /\ LastOf(MonthOf[cursor]) \in Days
        /\ \A x \in Days : x <= LastOf(MonthOf[cursor]) <=> MonthOf[x] <= MonthOf[cursor]
        /\ MonthOf[cursor] < MonthOf[last] =>
             next \in Days /\ next <= last /\ MonthOf[next] = MonthOf[cursor] + 1
    BY <2>1, MonthLast
  <2>. QED BY <2>2
<1>5. next \in 1..(n + 1) /\ next > cursor
  <2>0. z \in 1..n
    BY <1>1
  <2>1. MonthOf[cursor] <= MonthOf[cursor]
    BY <1>2
  <2>2. cursor <= z
    BY <1>4, <2>1
  <2>. HIDE DEF next
  <2>. QED BY <1>1, <1>4, <2>0, <2>2
<1>6. Row(cursor, last, 1) = head
  <2>1. MonthOf[cursor] + 1 - 1 = MonthOf[cursor]
    BY <1>2
  <2>. QED BY <2>1 DEF Row, BucketEnd
<1>7. CASE MonthOf[cursor] = MonthOf[last]
  <2>1. next > last
    <3>1. last <= z
      BY <1>2, <1>4, <1>7
    <3>. HIDE DEF next
    <3>. QED BY <1>2, <1>4, <3>1
  <2>2. RowsOf(cursor, last) = <<head>>
    <3>1. MonthOf[last] - MonthOf[cursor] + 1 = 1
      BY <1>2, <1>7
    <3>2. RowsOf(cursor, last) = [i \in 1..1 |-> Row(cursor, last, i)]
      BY <3>1 DEF RowsOf
    <3>3. RowsOf(cursor, last) = [i \in 1..1 |-> head]
      BY <1>6, <3>2
    <3>. HIDE DEF head
    <3>. QED BY <3>3
  <2>3. <<head>> \o << >> = <<head>>
    <3>. HIDE DEF head
    <3>. QED OBVIOUS
  <2>. QED BY <1>1, <1>5, <2>1, <2>2, <2>3
<1>8. CASE MonthOf[cursor] < MonthOf[last]
  <2>1. next \in Days /\ next <= last /\ MonthOf[next] = MonthOf[cursor] + 1
    BY <1>4, <1>8
  <2>2. PICK k \in Nat : k = MonthOf[last] - MonthOf[next] + 1
    BY <1>2, <1>8, <2>1
  <2>3. k + 1 = MonthOf[last] - MonthOf[cursor] + 1
    BY <1>2, <2>1, <2>2
  <2>4. RowsOf(next, last) = [i \in 1..k |-> Row(next, last, i)]
    BY <2>2 DEF RowsOf
  <2>5. RowsOf(cursor, last) = [i \in 1..(k + 1) |-> Row(cursor, last, i)]
    BY <2>3 DEF RowsOf
  <2>6. \A i \in 1..k : Row(cursor, last, i + 1) = Row(next, last, i)
    <3>1. SUFFICES ASSUME NEW i \in 1..k PROVE Row(cursor, last, i + 1) = Row(next, last, i)
      OBVIOUS
    <3>2. /\ MonthOf[cursor] + (i + 1) - 1 = MonthOf[next] + i - 1
          /\ MonthOf[cursor] + (i + 1) - 2 = MonthOf[next] + i - 2
          /\ i + 1 # 1
          /\ i = 1 => MonthOf[next] + i - 2 = MonthOf[cursor]
      BY <1>2, <2>1
    <3>. QED BY <3>2 DEF Row
  <2>7. <<head>> \o [i \in 1..k |-> Row(next, last, i)]
          = [i \in 1..(k + 1) |-> IF i = 1 THEN head ELSE Row(next, last, i - 1)]
    <3>. DEFINE tail == [i \in 1..k |-> Row(next, last, i)]
    <3>1. Len(tail) = k /\ \A i \in 1..k : tail[i] = Row(next, last, i)
      OBVIOUS
    <3>. HIDE DEF tail, head, next
    <3>2. <<head>> \o tail = [i \in 1..(Len(<<head>>) + Len(tail)) |->
             IF i <= Len(<<head>>) THEN <<head>>[i] ELSE tail[i - Len(<<head>>)]]
      OBVIOUS
    <3>3. Len(<<head>>) = 1
      OBVIOUS
    <3>4. \A i \in 1..(k + 1) : i <= 1 => i = 1 /\ <<head>>[i] = head
      OBVIOUS
    <3>5. \A i \in 1..(k + 1) : ~(i <= 1) => i - 1 \in 1..k /\ i # 1
      OBVIOUS
    <3>6. <<head>> \o tail = [i \in 1..(1 + k) |-> IF i <= 1 THEN <<head>>[i] ELSE tail[i - 1]]
      BY <3>1, <3>2, <3>3
    <3>7. 1 + k = k + 1
      OBVIOUS
    <3>. QED BY <3>1, <3>4, <3>5, <3>6, <3>7 DEF tail
  <2>8. \A i \in 1..(k + 1) :
          Row(cursor, last, i) = IF i = 1 THEN head ELSE Row(next, last, i - 1)
    <3>. HIDE DEF head, next
    <3>1. ASSUME NEW i \in 1..(k + 1), i # 1 PROVE Row(cursor, last, i) = Row(next, last, i - 1)
      <4>1. i - 1 \in 1..k /\ (i - 1) + 1 = i
        BY <3>1
      <4>. QED BY <2>6, <4>1
    <3>. QED BY <1>6, <3>1
  <2>9. RowsOf(cursor, last) = <<head>> \o RowsOf(next, last)
    <3>. HIDE DEF head, next
    <3>. QED BY <2>4, <2>5, <2>7, <2>8
  <2>10. ~(next > last)
    BY <1>2, <2>1
  <2>. HIDE DEF head
  <2>. QED BY <1>1, <1>5, <2>9, <2>10 DEF head
<1>. QED BY <1>2, <1>3, <1>7, <1>8

(* The loop over the cursor computes them.                                  *)
IsLoop(from, last) ==
  from = [cursor \in 1..(Cardinality(Days) + 1) |->
            IF cursor > last THEN << >>
            ELSE <<[start |-> cursor, end |-> BucketEnd(cursor, last)]>>
                   \o from[LastOf(MonthOf[cursor]) + 1]]

LEMMA LoopIsUnique ==
  ASSUME NEW last \in Days
  PROVE  LET rows == [cursor \in 1..(Cardinality(Days) + 1) |->
                        IF cursor > last THEN << >> ELSE RowsOf(cursor, last)]
         IN  IsLoop(rows, last) /\ \A from : IsLoop(from, last) => from = rows
<1>. DEFINE n == Cardinality(Days)
            rows == [cursor \in 1..(n + 1) |->
                       IF cursor > last THEN << >> ELSE RowsOf(cursor, last)]
            next(cursor) == LastOf(MonthOf[cursor]) + 1
            head(cursor) == [start |-> cursor, end |-> BucketEnd(cursor, last)]
<1>1. n \in Nat /\ Days = 1..n
  BY DaysAre
<1>2. \A cursor \in 1..(n + 1) : cursor <= last =>
        /\ next(cursor) \in 1..(n + 1) /\ next(cursor) > cursor
        /\ rows[cursor] = <<head(cursor)>> \o rows[next(cursor)]
  <2>1. SUFFICES ASSUME NEW cursor \in 1..(n + 1), cursor <= last
                 PROVE  /\ next(cursor) \in 1..(n + 1) /\ next(cursor) > cursor
                        /\ rows[cursor] = <<head(cursor)>> \o rows[next(cursor)]
    OBVIOUS
  <2>2. cursor \in Days /\ ~(cursor > last)
    BY <1>1, <2>1
  <2>3. /\ next(cursor) \in 1..(n + 1) /\ next(cursor) > cursor
        /\ RowsOf(cursor, last) =
             <<head(cursor)>> \o (IF next(cursor) > last THEN << >> ELSE RowsOf(next(cursor), last))
    BY <2>1, <2>2, RowsUnfold
  <2>4. rows[next(cursor)] = IF next(cursor) > last THEN << >> ELSE RowsOf(next(cursor), last)
    <3>. HIDE DEF next, head, n
    <3>. QED BY <2>3
  <2>5. rows[cursor] = RowsOf(cursor, last)
    <3>. HIDE DEF n
    <3>. QED BY <2>2
  <2>. HIDE DEF next, head, n, rows
  <2>. QED BY <2>3, <2>4, <2>5
<1>3. IsLoop(rows, last)
  <2>1. \A cursor \in 1..(n + 1) :
          rows[cursor] = IF cursor > last THEN << >>
                         ELSE <<head(cursor)>> \o rows[next(cursor)]
    <3>1. ASSUME NEW cursor \in 1..(n + 1), cursor > last PROVE rows[cursor] = << >>
      BY <3>1
    <3>2. \A cursor \in 1..(n + 1) : ~(cursor > last) => cursor <= last
      BY <1>1
    <3>. HIDE DEF rows, next, head, n
    <3>. QED BY <1>2, <3>1, <3>2
  <2>2. rows = [cursor \in 1..(n + 1) |-> rows[cursor]]
    OBVIOUS
  <2>3. rows = [cursor \in 1..(n + 1) |->
                  IF cursor > last THEN << >> ELSE <<head(cursor)>> \o rows[next(cursor)]]
    <3>. HIDE DEF rows, next, head, n
    <3>. QED BY <2>1, <2>2
  <2>. HIDE DEF rows
  <2>. QED BY <2>3 DEF IsLoop
<1>4. ASSUME NEW from, IsLoop(from, last) PROVE from = rows
  <2>1. from = [cursor \in 1..(n + 1) |->
                  IF cursor > last THEN << >> ELSE <<head(cursor)>> \o from[next(cursor)]]
    BY <1>4 DEF IsLoop
  <2>. DEFINE Wrong == {cursor \in 1..(n + 1) : from[cursor] # rows[cursor]}
  <2>2. Wrong = {}
    <3>1. SUFFICES ASSUME Wrong # {} PROVE FALSE
      OBVIOUS
    <3>2. n + 1 \in Nat /\ Wrong \in SUBSET (0..(n + 1))
      BY <1>1
    <3>3. PICK c \in Wrong : \A x \in Wrong : x <= c
      <4>. HIDE DEF Wrong, n
      <4>. QED BY <3>1, <3>2, Greatest
    <3>4. c <= last
      <4>1. SUFFICES ASSUME c > last PROVE FALSE
        BY <1>1
      <4>2. from[c] = << >>
        <5>. HIDE DEF n, head, next, rows
        <5>. QED BY <2>1, <4>1
      <4>3. rows[c] = << >>
        <5>. HIDE DEF n
        <5>. QED BY <4>1
      <4>. QED BY <4>2, <4>3
    <3>5. next(c) \in 1..(n + 1) /\ next(c) > c /\ rows[c] = <<head(c)>> \o rows[next(c)]
      BY <1>2, <3>3, <3>4
    <3>6. from[c] = <<head(c)>> \o from[next(c)]
      <4>1. ~(c > last) /\ c \in 1..(n + 1)
        BY <1>1, <3>4
      <4>. HIDE DEF n, head, next, rows, Wrong
      <4>. QED BY <2>1, <4>1
    <3>7. next(c) \notin Wrong
      BY <1>1, <3>3, <3>5
    <3>8. from[next(c)] = rows[next(c)]
      <4>. HIDE DEF n, head, next, rows
      <4>. QED BY <3>5, <3>7
    <3>9. from[c] = rows[c]
      <4>. HIDE DEF n, head, next, rows, Wrong
      <4>. QED BY <3>5, <3>6, <3>8
    <3>. HIDE DEF rows
    <3>. QED BY <3>3, <3>9
  <2>3. \A cursor \in 1..(n + 1) : from[cursor] = rows[cursor]
    <3>. HIDE DEF rows
    <3>. QED BY <2>2
  <2>4. /\ from = [cursor \in 1..(n + 1) |-> from[cursor]]
        /\ rows = [cursor \in 1..(n + 1) |-> rows[cursor]]
    BY <2>1
  <2>. HIDE DEF rows
  <2>. QED BY <2>3, <2>4
<1>. QED BY <1>3, <1>4

(* The number of rows that are asked for.                                   *)
Asking(first, last) ==
  IF first > last THEN 0
  ELSE IF MonthOf[last] - MonthOf[first] + 1 < MAX_BUCKETS
         THEN MonthOf[last] - MonthOf[first] + 1 ELSE MAX_BUCKETS

LEMMA BucketsAre ==
  ASSUME NEW first \in Days, NEW last \in Days
  PROVE  /\ Asking(first, last) \in 0..MAX_BUCKETS
         /\ buildMonthlyBuckets(first, last) =
              [i \in 1..Asking(first, last) |-> Row(first, last, i)]
<1>. DEFINE n == Cardinality(Days)
            rows == [cursor \in 1..(n + 1) |->
                       IF cursor > last THEN << >> ELSE RowsOf(cursor, last)]
            loop == CHOOSE from : from =
                      [cursor \in 1..(Cardinality(Days) + 1) |->
                        IF cursor > last THEN << >>
                        ELSE <<[start |-> cursor, end |-> BucketEnd(cursor, last)]>>
                               \o from[LastOf(MonthOf[cursor]) + 1]]
            all == IF first > last THEN << >> ELSE loop[first]
<1>1. n \in Nat /\ Days = 1..n /\ MAX_BUCKETS \in Nat \ {0}
  BY DaysAre, CalendarAssumption
<1>2. loop = rows
  <2>1. IsLoop(rows, last) /\ \A from : IsLoop(from, last) => from = rows
    BY LoopIsUnique
  <2>2. loop = CHOOSE from : IsLoop(from, last)
    BY DEF IsLoop
  <2>. HIDE DEF rows, loop
  <2>. QED BY <2>1, <2>2
<1>3. buildMonthlyBuckets(first, last) =
        SubSeq(all, 1, IF Len(all) < MAX_BUCKETS THEN Len(all) ELSE MAX_BUCKETS)
  BY DEF buildMonthlyBuckets
<1>4. CASE first > last
  <2>1. all = << >> /\ Len(all) = 0
    BY <1>4
  <2>2. Asking(first, last) = 0
    BY <1>4 DEF Asking
  <2>3. SubSeq(all, 1, 0) = << >>
    BY <2>1
  <2>4. [i \in 1..0 |-> Row(first, last, i)] = << >>
    OBVIOUS
  <2>. HIDE DEF all
  <2>. QED BY <1>1, <1>3, <2>1, <2>2, <2>3, <2>4
<1>5. CASE ~(first > last)
  <2>1. first <= last /\ MonthOf[first] \in Nat /\ MonthOf[last] \in Nat
          /\ MonthOf[first] <= MonthOf[last]
    BY <1>1, <1>5, MonthsGrow, CalendarAssumption
  <2>2. PICK k \in Nat : k = MonthOf[last] - MonthOf[first] + 1
    BY <2>1
  <2>3. first \in 1..(n + 1)
    BY <1>1
  <2>4. all = [i \in 1..k |-> Row(first, last, i)]
    <3>1. all = RowsOf(first, last)
      <4>. HIDE DEF n, loop
      <4>. QED BY <1>2, <1>5, <2>3
    <3>. HIDE DEF all
    <3>. QED BY <2>2, <3>1 DEF RowsOf
  <2>. HIDE DEF all, n, rows, loop
  <2>5. Len(all) = k
    BY <2>4
  <2>6. PICK a \in 0..k : a = Asking(first, last) /\ a <= MAX_BUCKETS
          /\ a = IF k < MAX_BUCKETS THEN k ELSE MAX_BUCKETS
    BY <1>1, <1>5, <2>2 DEF Asking
  <2>7. SubSeq(all, 1, a) = [i \in 1..a |-> Row(first, last, i)]
    <3>1. SubSeq(all, 1, a) = [i \in 1..(a - 1 + 1) |-> all[i + 1 - 1]]
      BY <2>4, <2>6
    <3>2. a - 1 + 1 = a /\ \A i \in 1..a : i + 1 - 1 = i /\ i \in 1..k
      BY <2>6
    <3>. QED BY <2>4, <3>1, <3>2
  <2>8. Asking(first, last) \in 0..MAX_BUCKETS
    BY <1>1, <2>6
  <2>9. buildMonthlyBuckets(first, last) = SubSeq(all, 1, a)
    BY <1>3, <2>5, <2>6
  <2>. QED BY <2>6, <2>7, <2>8, <2>9
<1>. QED BY <1>4, <1>5


(* A row is what the range has of its month.                                *)
LEMMA RowCovers ==
  ASSUME NEW first \in Days, NEW last \in Days, first <= last,
         NEW i \in 1..Asking(first, last)
  PROVE  LET row == Row(first, last, i)
         IN  /\ row.start \in Days /\ row.end \in Days
             /\ MonthOf[row.start] = MonthOf[first] + i - 1
             /\ MonthOf[row.end] <= MonthOf[first] + i - 1
             /\ \A d \in Days : row.start <= d /\ d <= row.end <=>
                  first <= d /\ d <= last /\ MonthOf[d] = MonthOf[first] + i - 1
<1>. DEFINE row == Row(first, last, i)
<1>1. PICK n \in Nat : Days = 1..n
  BY DaysAre
<1>2. \A x \in Days : MonthOf[x] \in Nat /\ x \in Nat
  BY <1>1, CalendarAssumption
<1>3. /\ i \in Nat \ {0} /\ MonthOf[first] \in Nat /\ MonthOf[last] \in Nat
      /\ MonthOf[first] + i - 1 \in MonthOf[first]..MonthOf[last]
      /\ i # 1 => MonthOf[first] + i - 2 \in MonthOf[first]..MonthOf[last]
      /\ MonthOf[first] + i - 2 < MonthOf[last]
      /\ MonthOf[first] + i - 2 + 1 = MonthOf[first] + i - 1
  <2>1. Asking(first, last) \in Nat /\ Asking(first, last) <= MonthOf[last] - MonthOf[first] + 1
    BY <1>2, MonthsGrow, CalendarAssumption DEF Asking
  <2>. QED BY <1>2, <2>1
<1>4. PICK m \in Nat : m = MonthOf[first] + i - 1
  BY <1>3
<1>5. PICK z \in Days :
        /\ z = LastOf(m) /\ MonthOf[z] = m
        /\ \A x \in Days : x <= z <=> MonthOf[x] <= m
  BY <1>3, <1>4, MonthLast
<1>6. /\ row.start \in Days /\ MonthOf[row.start] = m /\ first <= row.start
      /\ \A x \in Days : first <= x => (row.start <= x <=> m <= MonthOf[x])
  <2>1. CASE i = 1
    <3>1. row.start = first /\ m = MonthOf[first]
      BY <1>3, <1>4, <2>1 DEF Row
    <3>. HIDE DEF row
    <3>. QED BY <1>2, <3>1, MonthsGrow
  <2>2. CASE i # 1
    <3>1. PICK y \in Days :
            /\ y = LastOf(MonthOf[first] + i - 2)
            /\ \A x \in Days : x <= y <=> MonthOf[x] <= MonthOf[first] + i - 2
            /\ y + 1 \in Days /\ MonthOf[y + 1] = MonthOf[first] + i - 2 + 1
      BY <1>3, <2>2, MonthLast
    <3>2. row.start = y + 1
      BY <2>2, <3>1 DEF Row
    <3>3. MonthOf[first] <= MonthOf[first] + i - 2
      BY <1>3, <2>2
    <3>. HIDE DEF row
    <3>4. row.start \in Days /\ MonthOf[row.start] = m
      BY <1>3, <1>4, <3>1, <3>2
    <3>5. first <= row.start
      BY <1>2, <3>1, <3>2, <3>3
    <3>6. \A x \in Days : row.start <= x <=> m <= MonthOf[x]
      <4>1. SUFFICES ASSUME NEW x \in Days PROVE row.start <= x <=> m <= MonthOf[x]
        OBVIOUS
      <4>2. x <= y <=> MonthOf[x] <= MonthOf[first] + i - 2
        BY <3>1
      <4>. QED BY <1>2, <1>3, <1>4, <3>2, <4>2
    <3>. QED BY <3>4, <3>5, <3>6
  <2>. QED BY <2>1, <2>2
<1>7. /\ row.end \in Days /\ row.end <= z /\ row.end <= last
      /\ \A x \in Days : x <= row.end <=> x <= z /\ x <= last
  <2>1. row.end = IF z < last THEN z ELSE last
    BY <1>4, <1>5 DEF Row
  <2>. HIDE DEF row
  <2>. QED BY <1>2, <2>1
<1>8. MonthOf[row.end] <= m
  <2>. HIDE DEF row
  <2>. QED BY <1>5, <1>7
<1>9. \A d \in Days : row.start <= d /\ d <= row.end <=>
                        first <= d /\ d <= last /\ MonthOf[d] = m
  <2>1. SUFFICES ASSUME NEW d \in Days
                 PROVE  row.start <= d /\ d <= row.end <=>
                          first <= d /\ d <= last /\ MonthOf[d] = m
    OBVIOUS
  <2>. HIDE DEF row
  <2>2. row.start <= d => first <= d
    BY <1>2, <1>6
  <2>3. d <= row.end <=> d <= last /\ MonthOf[d] <= m
    BY <1>5, <1>7
  <2>4. first <= d => (row.start <= d <=> m <= MonthOf[d])
    BY <1>6
  <2>5. MonthOf[d] \in Nat
    BY <1>2
  <2>. QED BY <1>4, <2>2, <2>3, <2>4, <2>5
<1>. HIDE DEF row
<1>. QED BY <1>4, <1>6, <1>7, <1>8, <1>9 DEF row

LEMMA RowsTyped ==
  ASSUME NEW first \in Days, NEW last \in Days
  PROVE  /\ buildMonthlyBuckets(first, last) \in Seq([start : Days, end : Days])
         /\ Len(buildMonthlyBuckets(first, last)) = Asking(first, last)
         /\ DOMAIN buildMonthlyBuckets(first, last) = 1..Asking(first, last)
         /\ Asking(first, last) \in Nat /\ Asking(first, last) <= MAX_BUCKETS
         /\ buildMonthlyBuckets(first, last) # << >> => first <= last
<1>1. PICK k \in 0..MAX_BUCKETS : k = Asking(first, last)
  BY BucketsAre
<1>2. /\ buildMonthlyBuckets(first, last) = [i \in 1..k |-> Row(first, last, i)]
      /\ k \in Nat /\ k <= MAX_BUCKETS
  BY <1>1, BucketsAre, CalendarAssumption
<1>3. first \in Nat /\ last \in Nat
  BY DaysAre
<1>4. k # 0 => first <= last
  BY <1>1, <1>3 DEF Asking
<1>5. ASSUME NEW i \in 1..k PROVE Row(first, last, i) \in [start : Days, end : Days]
  <2>1. k # 0
    BY <1>2
  <2>2. first <= last
    BY <1>4, <2>1
  <2>3. Row(first, last, i).start \in Days /\ Row(first, last, i).end \in Days
    BY <1>1, <2>2, RowCovers
  <2>4. Row(first, last, i) =
          [start |-> Row(first, last, i).start, end |-> Row(first, last, i).end]
    BY DEF Row
  <2>. QED BY <2>3, <2>4
<1>6. [i \in 1..k |-> Row(first, last, i)] \in Seq([start : Days, end : Days])
  BY <1>2, <1>5
<1>7. /\ Len([i \in 1..k |-> Row(first, last, i)]) = k
      /\ DOMAIN [i \in 1..k |-> Row(first, last, i)] = 1..k
      /\ k = 0 => [i \in 1..k |-> Row(first, last, i)] = << >>
  BY <1>2
<1>. QED BY <1>1, <1>2, <1>4, <1>6, <1>7

(* Every day of the range, up to the MAX_BUCKETS-th month, is in one row,   *)
(* and the rows follow each other.                                          *)
Covers(rows, first, last) ==
  /\ \A d \in Days :
       LET of == {i \in DOMAIN rows : rows[i].start <= d /\ d <= rows[i].end}
       IN  /\ Cardinality(of) <= 1
           /\ (of # {}) <=> /\ first <= d /\ d <= last
                            /\ MonthOf[d] < MonthOf[first] + MAX_BUCKETS
  /\ \A i, j \in DOMAIN rows : i < j => rows[i].end < rows[j].start

LEMMA RowsCover ==
  ASSUME NEW first \in Days, NEW last \in Days, first <= last
  PROVE  Covers(buildMonthlyBuckets(first, last), first, last)
<1>. DEFINE rows == buildMonthlyBuckets(first, last)
<1>1. PICK k \in 0..MAX_BUCKETS : k = Asking(first, last)
  BY BucketsAre
<1>2. DOMAIN rows = 1..k /\ k \in Nat /\ \A i \in 1..k : rows[i] = Row(first, last, i)
  BY <1>1, BucketsAre, CalendarAssumption
<1>3. /\ \A x \in Days : MonthOf[x] \in Nat /\ x \in Nat
      /\ MAX_BUCKETS \in Nat
  BY DaysAre, CalendarAssumption
<1>4. \A i \in 1..k :
        /\ rows[i].start \in Days /\ rows[i].end \in Days
        /\ MonthOf[rows[i].start] = MonthOf[first] + i - 1
        /\ MonthOf[rows[i].end] <= MonthOf[first] + i - 1
        /\ \A d \in Days : rows[i].start <= d /\ d <= rows[i].end <=>
             first <= d /\ d <= last /\ MonthOf[d] = MonthOf[first] + i - 1
  <2>1. SUFFICES ASSUME NEW i \in 1..k
                 PROVE  LET row == Row(first, last, i)
                        IN  /\ row.start \in Days /\ row.end \in Days
                            /\ MonthOf[row.start] = MonthOf[first] + i - 1
                            /\ MonthOf[row.end] <= MonthOf[first] + i - 1
                            /\ \A d \in Days : row.start <= d /\ d <= row.end <=>
                                 first <= d /\ d <= last /\ MonthOf[d] = MonthOf[first] + i - 1
    BY <1>2
  <2>. QED BY <1>1, RowCovers
<1>. HIDE DEF rows
<1>5. ASSUME NEW i \in DOMAIN rows, NEW j \in DOMAIN rows, i < j
      PROVE  rows[i].end < rows[j].start
  <2>1. MonthOf[rows[i].end] < MonthOf[rows[j].start]
    <3>1. /\ i \in 1..k /\ j \in 1..k /\ MonthOf[first] \in Nat
          /\ MonthOf[rows[i].end] \in Nat
      BY <1>2, <1>3, <1>4
    <3>. QED BY <1>4, <1>5, <3>1
  <2>2. ~ (rows[j].start <= rows[i].end)
    BY <1>2, <1>3, <1>4, <2>1, MonthsGrow
  <2>. QED BY <1>2, <1>3, <1>4, <2>2
<1>6. ASSUME NEW d \in Days
      PROVE  LET of == {i \in DOMAIN rows : rows[i].start <= d /\ d <= rows[i].end}
             IN  /\ Cardinality(of) <= 1
                 /\ (of # {}) <=> /\ first <= d /\ d <= last
                                  /\ MonthOf[d] < MonthOf[first] + MAX_BUCKETS
  <2>. DEFINE of == {i \in DOMAIN rows : rows[i].start <= d /\ d <= rows[i].end}
  <2>1. \A i \in of : /\ i \in 1..k /\ first <= d /\ d <= last
                      /\ MonthOf[d] = MonthOf[first] + i - 1
    BY <1>2, <1>4
  <2>2. Cardinality(of) <= 1
    <3>1. CASE of = {}
      BY <3>1, FS_EmptySet
    <3>2. CASE of # {}
      <4>1. PICK i \in of : TRUE
        BY <3>2
      <4>2. \A j \in of : j = i
        <5>. HIDE DEF of
        <5>. QED BY <1>3, <2>1
      <4>3. of = {i}
        BY <4>1, <4>2
      <4>. HIDE DEF of
      <4>. QED BY <4>3, FS_Singleton
    <3>. QED BY <3>1, <3>2
  <2>3. ASSUME NEW i \in of PROVE MonthOf[d] < MonthOf[first] + MAX_BUCKETS
    <3>. HIDE DEF of
    <3>. QED BY <1>2, <1>3, <2>1
  <2>4. ASSUME first <= d, d <= last, MonthOf[d] < MonthOf[first] + MAX_BUCKETS
        PROVE  of # {}
    <3>1. MonthOf[first] <= MonthOf[d] /\ MonthOf[d] <= MonthOf[last]
      BY <2>4, MonthsGrow
    <3>2. PICK i \in Nat : i = MonthOf[d] - MonthOf[first] + 1
      BY <1>3, <3>1
    <3>3. k = IF MonthOf[last] - MonthOf[first] + 1 < MAX_BUCKETS
                THEN MonthOf[last] - MonthOf[first] + 1 ELSE MAX_BUCKETS
      BY <1>1, <1>3 DEF Asking
    <3>4. i \in 1..k
      BY <1>3, <2>4, <3>1, <3>2, <3>3
    <3>5. MonthOf[d] = MonthOf[first] + i - 1
      BY <1>3, <3>2
    <3>. QED BY <1>2, <1>4, <2>4, <3>4, <3>5
  <2>. HIDE DEF of
  <2>. QED BY <2>1, <2>2, <2>3, <2>4 DEF of
<1>. QED BY <1>5, <1>6 DEF Covers, rows

-----------------------------------------------------------------------------
(* While the trends load, each row of the range has one call, and no other  *)
(* call is out.                                                             *)

Awaited(s) == fetch[s].pc # "idle"

(* The calls for the months of the rows, one for each. *)
Spread(rows) ==
  /\ \A s \in SelectCalls : Awaited(s) =>
       /\ fetch[s].place \in DOMAIN rows
       /\ fetch[s].from = rows[fetch[s].place].start
       /\ fetch[s].to = rows[fetch[s].place].end
  /\ \A i \in DOMAIN rows : \E s \in SelectCalls : Awaited(s) /\ fetch[s].place = i
  /\ \A s, t \in SelectCalls :
       Awaited(s) /\ Awaited(t) /\ fetch[s].place = fetch[t].place => s = t

AskedOf(rows) ==
  /\ \A s \in SelectCalls : Awaited(s) => shown.phase = "loading" /\ fetch[s].round = selects
  /\ shown.phase = "loading" => rows # << >> /\ Spread(rows)
  /\ shown.phase = "data" => rows # << >> /\ shown.buckets = rows

RowsOfRange == buildMonthlyBuckets(selected.range[1], selected.range[2])

TrendsInv ==
  /\ SelectTypeOK
  /\ openView # "ExecTrends" /\ shown.phase = "loading" =>
       \E s \in SelectCalls : Awaited(s) /\ fetch[s].round = selects
  /\ openView = "ExecTrends" => AskedOf(RowsOfRange)

LEMMA RangeIs ==
  ASSUME NEW range \in Ranges
  PROVE  /\ range[1] \in Days /\ range[2] \in Days
         /\ buildMonthlyBuckets(range[1], range[2]) \in Seq([start : Days, end : Days])
         /\ Len(buildMonthlyBuckets(range[1], range[2])) <= MAX_BUCKETS
<1>1. range[1] \in Days /\ range[2] \in Days
  BY DEF Ranges
<1>. QED BY <1>1, RowsTyped

LEMMA NoFetchOK == NoFetch \in Fetch /\ NoFetch.pc = "idle"
BY DaysAre, CalendarAssumption DEF NoFetch, Fetch

LEMMA TrendsStart == ASSUME SelectInit \/ SelectBegin PROVE TrendsInv
<1>1. /\ openView \in Views /\ selected = [of |-> Nothing, range |-> <<1, 1>>]
      /\ shown = NothingShown("idle") /\ fetch = [s \in SelectCalls |-> NoFetch] /\ selects = 0
  BY DEF SelectInit, SelectBegin, Views, Guarded
<1>2. <<1, 1>> \in Ranges
  BY DaysAre DEF Ranges
<1>3. << >> \in Seq([start : Days, end : Days]) /\ Len(<< >>) = 0
  OBVIOUS
<1>4. SelectTypeOK
  BY <1>1, <1>2, <1>3, NoFetchOK, CalendarAssumption DEF SelectTypeOK, NothingShown
<1>5. \A s \in SelectCalls : ~Awaited(s)
  BY <1>1, NoFetchOK DEF Awaited
<1>6. shown.phase = "idle"
  BY <1>1 DEF NothingShown
<1>. QED BY <1>4, <1>5, <1>6 DEF TrendsInv, AskedOf

LEMMA TrendsSelectStep ==
  ASSUME TrendsInv, NEW v, v # "ExecTrends", NEW c \in Selections, Select(v, c)
  PROVE  TrendsInv'
<1>1. PICK s \in SelectCalls :
        fetch' = [fetch EXCEPT ![s] = [NoFetch EXCEPT !.pc = "sent", !.of = c,
                                                      !.round = selects + 1]]
  <2>1. Slots(1) # {} /\ \A slot \in Slots(1) : slot[1] \in SelectCalls
    BY DEF Select, Slots
  <2>. QED BY <2>1 DEF Select
<1>2. /\ openView' = openView /\ openView = v /\ selects < MaxSelects /\ selects' = selects + 1
      /\ selected' = [selected EXCEPT !.of = c] /\ shown' = NothingShown("loading")
      /\ selects \in 0..MaxSelects /\ fetch \in [SelectCalls -> Fetch]
      /\ selected \in [of : Selections \cup {Nothing}, range : Ranges] /\ openView \in Views
  BY DEF Select, Selecting, TrendsInv, SelectTypeOK
<1>3. PICK asked \in Fetch :
        /\ asked = [NoFetch EXCEPT !.pc = "sent", !.of = c, !.round = selects + 1]
        /\ asked.pc = "sent" /\ asked.round = selects + 1
  <2>1. selects + 1 \in 0..MaxSelects
    BY <1>2, CalendarAssumption
  <2>2. PICK none \in Fetch : none = NoFetch
    BY NoFetchOK
  <2>. DEFINE asked == [none EXCEPT !.pc = "sent", !.of = c, !.round = selects + 1]
  <2>3. asked \in Fetch /\ asked.pc = "sent" /\ asked.round = selects + 1
    BY <2>1 DEF Fetch
  <2>4. asked = [NoFetch EXCEPT !.pc = "sent", !.of = c, !.round = selects + 1]
    BY <2>2
  <2>. HIDE DEF asked
  <2>. QED BY <2>3, <2>4
<1>4. /\ fetch' \in [SelectCalls -> Fetch] /\ fetch'[s].pc = "sent"
      /\ fetch'[s].round = selects'
  BY <1>1, <1>2, <1>3
<1>5. << >> \in Seq([start : Days, end : Days]) /\ Len(<< >>) = 0
  OBVIOUS
<1>6. shown' \in [phase : {"idle", "loading", "data", "error"}, of : Selections \cup {Nothing},
                  buckets : Seq([start : Days, end : Days])] /\ Len(shown'.buckets) <= MAX_BUCKETS
  BY <1>2, <1>5, CalendarAssumption DEF NothingShown
<1>7. SelectTypeOK'
  BY <1>2, <1>4, <1>6, CalendarAssumption DEF SelectTypeOK
<1>. QED BY <1>2, <1>4, <1>7 DEF TrendsInv, Awaited

LEMMA LoadTrendsStep ==
  ASSUME TrendsInv, NEW first \in Days, NEW last \in Days, LoadTrends(first, last)
  PROVE  TrendsInv'
<1>1. PICK rows \in Seq([start : Days, end : Days]), k \in Nat :
        /\ rows = buildMonthlyBuckets(first, last)
        /\ Len(rows) = k /\ DOMAIN rows = 1..k /\ k <= MAX_BUCKETS
  BY RowsTyped
<1>2. /\ openView' = openView /\ openView = "ExecTrends" /\ selects < MaxSelects
      /\ selects' = selects + 1 /\ shown.phase # "loading"
      /\ selected' = [selected EXCEPT !.range = <<first, last>>]
      /\ selects \in 0..MaxSelects /\ fetch \in [SelectCalls -> Fetch]
      /\ selected \in [of : Selections \cup {Nothing}, range : Ranges] /\ openView \in Views
      /\ \A s \in SelectCalls : ~Awaited(s)
  BY DEF LoadTrends, Selecting, TrendsInv, SelectTypeOK, AskedOf
<1>3. /\ selected' \in [of : Selections \cup {Nothing}, range : Ranges]
      /\ selects' \in 0..MaxSelects /\ openView' \in Views
      /\ selected'.range = <<first, last>>
  <2>0. <<first, last>> \in Ranges
    BY DEF Ranges
  <2>1. PICK range \in Ranges : range = <<first, last>>
    BY <2>0
  <2>2. selected' = [selected EXCEPT !.range = range]
    BY <1>2, <2>1
  <2>3. selected' \in [of : Selections \cup {Nothing}, range : Ranges] /\ selected'.range = range
    BY <1>2, <2>2
  <2>4. selects' \in 0..MaxSelects
    BY <1>2, CalendarAssumption
  <2>. QED BY <1>2, <2>1, <2>3, <2>4
<1>4. RowsOfRange' = rows
  BY <1>1, <1>3 DEF RowsOfRange
<1>5. << >> \in Seq([start : Days, end : Days]) /\ Len(<< >>) = 0
  OBVIOUS
<1>6. CASE rows = << >>
  <2>1. shown' = NothingShown("error") /\ fetch' = fetch
    <3>1. AskMonths(rows)
      BY <1>1 DEF LoadTrends
    <3>. QED BY <1>6, <3>1 DEF AskMonths
  <2>2. SelectTypeOK'
    BY <1>2, <1>3, <1>5, <2>1, CalendarAssumption DEF SelectTypeOK, NothingShown
  <2>3. AskedOf(rows)'
    BY <1>2, <2>1 DEF AskedOf, Awaited, NothingShown
  <2>. QED BY <1>2, <1>4, <2>2, <2>3 DEF TrendsInv, AskedOf, Spread
<1>7. CASE rows # << >>
  <2>1. PICK slot \in Slots(k) :
          /\ shown' = NothingShown("loading")
          /\ fetch' = [s \in SelectCalls |->
               IF \E i \in DOMAIN slot : slot[i] = s
                 THEN LET i == CHOOSE i \in DOMAIN slot : slot[i] = s
                      IN  [pc |-> "sent", of |-> Nothing, round |-> selects + 1,
                           from |-> rows[i].start, to |-> rows[i].end, place |-> i]
                 ELSE fetch[s]]
    <3>1. AskMonths(rows)
      BY <1>1 DEF LoadTrends
    <3>. DEFINE asking(slot, s) ==
                  IF \E i \in DOMAIN slot : slot[i] = s
                    THEN LET i == CHOOSE i \in DOMAIN slot : slot[i] = s
                         IN  [pc |-> "sent", of |-> Nothing, round |-> selects + 1,
                              from |-> rows[i].start, to |-> rows[i].end, place |-> i]
                    ELSE fetch[s]
                free == CHOOSE slot \in Slots(Len(rows)) : TRUE
    <3>2. /\ Slots(Len(rows)) # {}
          /\ shown' = NothingShown("loading")
          /\ fetch' = [s \in SelectCalls |-> asking(free, s)]
      BY <1>7, <3>1 DEF AskMonths
    <3>3. free \in Slots(k)
      BY <1>1, <3>2
    <3>4. \E slot \in Slots(k) : /\ shown' = NothingShown("loading")
                                 /\ fetch' = [s \in SelectCalls |-> asking(slot, s)]
      <4>. HIDE DEF asking, free
      <4>. QED BY <3>2, <3>3
    <3>. QED BY <3>4
  <2>2. /\ slot \in [1..k -> SelectCalls]
        /\ \A i, j \in 1..k : slot[i] = slot[j] => i = j
    BY DEF Slots
  <2>3. \A i \in 1..k :
          fetch'[slot[i]] = [pc |-> "sent", of |-> Nothing, round |-> selects + 1,
                             from |-> rows[i].start, to |-> rows[i].end, place |-> i]
    <3>1. SUFFICES ASSUME NEW i \in 1..k
                   PROVE  fetch'[slot[i]] = [pc |-> "sent", of |-> Nothing, round |-> selects + 1,
                            from |-> rows[i].start, to |-> rows[i].end, place |-> i]
      OBVIOUS
    <3>2. (CHOOSE j \in DOMAIN slot : slot[j] = slot[i]) = i /\ slot[i] \in SelectCalls
      BY <2>2
    <3>. QED BY <2>1, <2>2, <3>2
  <2>4. \A s \in SelectCalls : (\A i \in 1..k : slot[i] # s) => fetch'[s] = fetch[s]
    BY <2>1, <2>2
  <2>5. \A s \in SelectCalls : fetch'[s].pc # "idle" => \E i \in 1..k : s = slot[i]
    BY <1>2, <2>4 DEF Awaited
  <2>6. \A i \in 1..k : /\ fetch'[slot[i]] \in Fetch /\ fetch'[slot[i]].pc = "sent"
                        /\ fetch'[slot[i]].round = selects + 1 /\ fetch'[slot[i]].place = i
                        /\ fetch'[slot[i]].from = rows[i].start
                        /\ fetch'[slot[i]].to = rows[i].end
    <3>1. SUFFICES ASSUME NEW i \in 1..k
                   PROVE  /\ fetch'[slot[i]] \in Fetch /\ fetch'[slot[i]].pc = "sent"
                          /\ fetch'[slot[i]].round = selects + 1 /\ fetch'[slot[i]].place = i
                          /\ fetch'[slot[i]].from = rows[i].start
                          /\ fetch'[slot[i]].to = rows[i].end
      OBVIOUS
    <3>. DEFINE sent == [pc |-> "sent", of |-> Nothing, round |-> selects + 1,
                         from |-> rows[i].start, to |-> rows[i].end, place |-> i]
    <3>2. rows[i] \in [start : Days, end : Days]
      BY <1>1, ElementOfSeq
    <3>3. rows[i].start \in Days /\ rows[i].end \in Days
      BY <3>2
    <3>4. selects + 1 \in 0..MaxSelects /\ i \in 0..MAX_BUCKETS
      BY <1>1, <1>2, <1>3, CalendarAssumption
    <3>5. sent \in Fetch
      BY <3>3, <3>4 DEF Fetch
    <3>6. /\ sent.pc = "sent" /\ sent.round = selects + 1 /\ sent.place = i
          /\ sent.from = rows[i].start /\ sent.to = rows[i].end
      OBVIOUS
    <3>7. fetch'[slot[i]] = sent
      BY <2>3
    <3>. HIDE DEF sent
    <3>. QED BY <3>5, <3>6, <3>7
  <2>7. fetch' \in [SelectCalls -> Fetch]
    <3>1. \A s \in SelectCalls : fetch'[s] \in Fetch
      BY <1>2, <2>4, <2>6
    <3>2. fetch' = [s \in SelectCalls |-> fetch'[s]]
      BY <2>1
    <3>. QED BY <3>1, <3>2
  <2>8. Spread(rows)'
    BY <1>1, <2>2, <2>5, <2>6 DEF Spread, Awaited
  <2>9. 1 \in 1..k
    BY <1>1, <1>7
  <2>10. SelectTypeOK'
    <3>1. \E s \in SelectCalls : fetch'[s].pc # "idle"
      BY <2>2, <2>6, <2>9
    <3>2. /\ shown' \in [phase : {"idle", "loading", "data", "error"},
                         of : Selections \cup {Nothing}, buckets : Seq([start : Days, end : Days])]
          /\ Len(shown'.buckets) <= MAX_BUCKETS
      BY <1>5, <2>1, CalendarAssumption DEF NothingShown
    <3>. QED BY <1>3, <2>7, <3>1, <3>2 DEF SelectTypeOK
  <2>11. shown'.phase = "loading"
    BY <2>1 DEF NothingShown
  <2>12. AskedOf(rows)'
    <3>1. \A s \in SelectCalls : fetch'[s].pc # "idle" => fetch'[s].round = selects'
      BY <1>2, <2>5, <2>6
    <3>. QED BY <1>7, <2>8, <2>11, <3>1 DEF AskedOf, Awaited
  <2>. QED BY <1>2, <1>4, <2>10, <2>12 DEF TrendsInv, AskedOf, Spread
<1>. QED BY <1>6, <1>7

LEMMA TrendsRepliedStep ==
  ASSUME TrendsInv, NEW s \in SelectCalls, NEW pc \in {"done", "failed"}, FetchReplied(s, pc)
  PROVE  TrendsInv'
<1>1. /\ fetch[s].pc = "sent" /\ fetch' = [fetch EXCEPT ![s] = [fetch[s] EXCEPT !.pc = pc]]
      /\ openView' = openView /\ selected' = selected /\ shown' = shown /\ selects' = selects
      /\ fetch \in [SelectCalls -> Fetch]
  BY DEF FetchReplied, TrendsInv, SelectTypeOK
<1>2. [fetch[s] EXCEPT !.pc = pc] \in Fetch
  BY <1>1 DEF Fetch
<1>3. /\ fetch' \in [SelectCalls -> Fetch]
      /\ \A t \in SelectCalls :
           /\ fetch'[t].pc # "idle" <=> fetch[t].pc # "idle"
           /\ fetch'[t].round = fetch[t].round /\ fetch'[t].place = fetch[t].place
           /\ fetch'[t].from = fetch[t].from /\ fetch'[t].to = fetch[t].to
  BY <1>1, <1>2 DEF Fetch
<1>4. SelectTypeOK'
  BY <1>1, <1>3 DEF TrendsInv, SelectTypeOK
<1>5. PICK rows : rows = RowsOfRange
  OBVIOUS
<1>6. RowsOfRange' = rows
  BY <1>1, <1>5 DEF RowsOfRange
<1>7. AskedOf(rows) => AskedOf(rows)'
  BY <1>1, <1>3 DEF AskedOf, Spread, Awaited
<1>. QED BY <1>1, <1>3, <1>4, <1>5, <1>6, <1>7 DEF TrendsInv, Awaited, AskedOf, Spread

LEMMA TrendsTakenStep ==
  ASSUME TrendsInv, NEW s \in SelectCalls, useAsync(s) \/ SetEvents(s)
  PROVE  TrendsInv'
<1>1. /\ fetch' = [fetch EXCEPT ![s] = NoFetch]
      /\ openView' = openView /\ selected' = selected /\ selects' = selects
      /\ openView # "ExecTrends" /\ fetch[s].pc \in {"done", "failed"}
      /\ fetch \in [SelectCalls -> Fetch]
      /\ shown \in [phase : {"idle", "loading", "data", "error"}, of : Selections \cup {Nothing},
                    buckets : Seq([start : Days, end : Days])]
      /\ Len(shown.buckets) <= MAX_BUCKETS
  BY DEF useAsync, SetEvents, AnswerTaken, TrendsInv, SelectTypeOK, Guarded
<1>2. fetch' \in [SelectCalls -> Fetch] /\ \A t \in SelectCalls : t # s => fetch'[t] = fetch[t]
  BY <1>1, NoFetchOK
<1>3. << >> \in Seq([start : Days, end : Days]) /\ Len(<< >>) = 0
  OBVIOUS
<1>4. fetch[s].of \in Selections \cup {Nothing}
  BY <1>1 DEF Fetch
<1>5. /\ shown' \in [phase : {"idle", "loading", "data", "error"}, of : Selections \cup {Nothing},
                     buckets : Seq([start : Days, end : Days])]
      /\ Len(shown'.buckets) <= MAX_BUCKETS
      /\ shown'.phase = "loading" => shown.phase = "loading" /\ fetch[s].round # selects
  <2>1. CASE useAsync(s)
    <3>1. /\ ShowAnswer(s) \in [phase : {"idle", "loading", "data", "error"},
                                of : Selections \cup {Nothing},
                                buckets : Seq([start : Days, end : Days])]
          /\ ShowAnswer(s).buckets = << >> /\ ShowAnswer(s).phase # "loading"
      BY <1>3, <1>4 DEF ShowAnswer, NothingShown
    <3>2. shown' = IF Latest(s) THEN ShowAnswer(s) ELSE shown
      BY <2>1 DEF useAsync
    <3>3. CASE Latest(s)
      BY <1>3, <3>1, <3>2, <3>3, CalendarAssumption
    <3>4. CASE ~Latest(s)
      BY <1>1, <3>2, <3>4 DEF Latest
    <3>. QED BY <3>3, <3>4
  <2>2. CASE SetEvents(s)
    <3>1. PICK of \in Selections \cup {Nothing}, phase \in {"idle", "loading", "data", "error"} :
            /\ shown' = [shown EXCEPT !.of = of, !.phase = phase]
            /\ phase = IF ~Latest(s) THEN shown.phase
                       ELSE IF fetch[s].pc = "done" THEN "data" ELSE "error"
      <4>1. shown' = [shown EXCEPT
               !.of = IF fetch[s].pc = "done" THEN fetch[s].of ELSE shown.of,
               !.phase = IF ~Latest(s) THEN shown.phase
                         ELSE IF fetch[s].pc = "done" THEN "data" ELSE "error"]
        BY <2>2 DEF SetEvents
      <4>2. (IF fetch[s].pc = "done" THEN fetch[s].of ELSE shown.of) \in Selections \cup {Nothing}
        BY <1>1, <1>4
      <4>3. (IF ~Latest(s) THEN shown.phase
             ELSE IF fetch[s].pc = "done" THEN "data" ELSE "error")
              \in {"idle", "loading", "data", "error"}
        BY <1>1
      <4>. QED BY <4>1, <4>2, <4>3
    <3>. QED BY <1>1, <3>1 DEF Latest
  <2>. QED BY <2>1, <2>2
<1>6. ASSUME shown'.phase = "loading"
      PROVE  \E t \in SelectCalls : fetch'[t].pc # "idle" /\ fetch'[t].round = selects'
  BY <1>1, <1>2, <1>5, <1>6 DEF TrendsInv, Awaited
<1>7. SelectTypeOK'
  BY <1>1, <1>2, <1>5, <1>6 DEF TrendsInv, SelectTypeOK
<1>. QED BY <1>1, <1>6, <1>7 DEF TrendsInv, Awaited

(* There are as many calls as rows. *)
LEMMA SpreadCounts ==
  ASSUME NEW rows, NEW k \in Nat, DOMAIN rows = 1..k, Spread(rows)
  PROVE  Cardinality({s \in SelectCalls : Awaited(s)}) = k
<1>. DEFINE A == {s \in SelectCalls : Awaited(s)}
            f == [i \in 1..k |-> CHOOSE s \in SelectCalls : Awaited(s) /\ fetch[s].place = i]
<1>1. \A i \in 1..k : f[i] \in A /\ fetch[f[i]].place = i
  BY DEF Spread
<1>2. f \in [1..k -> A]
  BY <1>1
<1>3. \A s \in A : fetch[s].place \in 1..k /\ s = f[fetch[s].place]
  <2>1. SUFFICES ASSUME NEW s \in A PROVE fetch[s].place \in 1..k /\ s = f[fetch[s].place]
    OBVIOUS
  <2>2. fetch[s].place \in 1..k
    BY DEF Spread
  <2>3. f[fetch[s].place] \in A /\ fetch[f[fetch[s].place]].place = fetch[s].place
    <3>. HIDE DEF f
    <3>. QED BY <1>1, <2>2
  <2>. HIDE DEF f
  <2>. QED BY <2>2, <2>3 DEF Spread
<1>4. f \in Bijection(1..k, A)
  <2>. HIDE DEF f, A
  <2>1. f \in Injection(1..k, A)
    BY <1>1, <1>2 DEF Injection, IsInjective
  <2>2. f \in Surjection(1..k, A)
    BY <1>2, <1>3 DEF Surjection
  <2>. QED BY <2>1, <2>2 DEF Bijection
<1>5. ExistsBijection(1..k, A)
  <2>. HIDE DEF f, A
  <2>. QED BY <1>4 DEF ExistsBijection
<1>. HIDE DEF A
<1>. QED BY <1>5, FS_CountingElements DEF A

LEMMA AllMonthsStep ==
  ASSUME TrendsInv, NEW round \in 1..MaxSelects, AllMonths(round)
  PROVE  TrendsInv'
<1>1. /\ openView' = openView /\ selected' = selected /\ selects' = selects
      /\ openView = "ExecTrends" /\ fetch \in [SelectCalls -> Fetch]
      /\ selected \in [of : Selections \cup {Nothing}, range : Ranges]
      /\ fetch' = [s \in SelectCalls |-> IF s \in Months(round) THEN NoFetch ELSE fetch[s]]
  BY DEF AllMonths, TrendsInv, SelectTypeOK
<1>2. PICK rows \in Seq([start : Days, end : Days]), k \in Nat :
        /\ rows = RowsOfRange /\ k = Len(rows) /\ DOMAIN rows = 1..k /\ k <= MAX_BUCKETS
        /\ rows = [i \in 1..k |-> [start |-> rows[i].start, end |-> rows[i].end]]
  <2>1. selected.range \in Ranges
    BY <1>1
  <2>2. /\ RowsOfRange \in Seq([start : Days, end : Days]) /\ Len(RowsOfRange) <= MAX_BUCKETS
    BY <2>1, RangeIs DEF RowsOfRange
  <2>3. PICK rows \in Seq([start : Days, end : Days]) : rows = RowsOfRange
    BY <2>2
  <2>4. Len(rows) \in Nat /\ DOMAIN rows = 1..Len(rows)
    OBVIOUS
  <2>5. rows = [i \in 1..Len(rows) |-> [start |-> rows[i].start, end |-> rows[i].end]]
    <3>1. \A i \in 1..Len(rows) : rows[i] = [start |-> rows[i].start, end |-> rows[i].end]
      <4>1. SUFFICES ASSUME NEW i \in 1..Len(rows)
                     PROVE  rows[i] = [start |-> rows[i].start, end |-> rows[i].end]
        OBVIOUS
      <4>2. rows[i] \in [start : Days, end : Days]
        BY ElementOfSeq
      <4>. QED BY <4>2
    <3>2. rows = [i \in 1..Len(rows) |-> rows[i]]
      OBVIOUS
    <3>. QED BY <3>1, <3>2
  <2>. QED BY <2>2, <2>3, <2>4, <2>5
<1>3. AskedOf(rows)
  BY <1>1, <1>2 DEF TrendsInv
<1>4. PICK s0 \in SelectCalls : s0 \in Months(round)
  BY DEF AllMonths, Months
<1>5. shown.phase = "loading" /\ rows # << >> /\ Spread(rows) /\ round = selects
  BY <1>3, <1>4 DEF AskedOf, Months, Awaited
<1>6. Months(round) = {s \in SelectCalls : Awaited(s)}
  BY <1>3, <1>5 DEF AskedOf, Months, Awaited
<1>7. Cardinality(Months(round)) = k
  BY <1>2, <1>5, <1>6, SpreadCounts
<1>8. shown' = [NothingShown("data") EXCEPT !.buckets =
         [i \in 1..k |->
            LET s == CHOOSE s \in Months(round) : fetch[s].place = i
            IN  [start |-> fetch[s].from, end |-> fetch[s].to]]]
  BY <1>7 DEF AllMonths
<1>9. \A i \in 1..k :
        LET s == CHOOSE s \in Months(round) : fetch[s].place = i
        IN  [start |-> fetch[s].from, end |-> fetch[s].to]
              = [start |-> rows[i].start, end |-> rows[i].end]
  <2>1. SUFFICES ASSUME NEW i \in 1..k
                 PROVE  LET s == CHOOSE s \in Months(round) : fetch[s].place = i
                        IN  fetch[s].from = rows[i].start /\ fetch[s].to = rows[i].end
    OBVIOUS
  <2>2. PICK s \in Months(round) : s = CHOOSE t \in Months(round) : fetch[t].place = i
    BY <1>2, <1>5, <1>6 DEF Spread
  <2>3. fetch[s].place = i
    BY <1>2, <1>5, <1>6, <2>2 DEF Spread
  <2>. QED BY <1>5, <1>6, <2>2, <2>3 DEF Spread
<1>10. shown' = [NothingShown("data") EXCEPT !.buckets = rows]
  <2>1. [i \in 1..k |->
            LET s == CHOOSE s \in Months(round) : fetch[s].place = i
            IN  [start |-> fetch[s].from, end |-> fetch[s].to]] = rows
    <3>. DEFINE row(i) == LET s == CHOOSE s \in Months(round) : fetch[s].place = i
                          IN  [start |-> fetch[s].from, end |-> fetch[s].to]
    <3>1. \A i \in 1..k : row(i) = [start |-> rows[i].start, end |-> rows[i].end]
      BY <1>9
    <3>2. [i \in 1..k |-> row(i)] = rows
      <4>. HIDE DEF row
      <4>. QED BY <1>2, <3>1
    <3>. QED BY <3>2
  <2>. QED BY <1>8, <2>1
<1>11. /\ shown'.phase = "data" /\ shown'.buckets = rows
       /\ shown' \in [phase : {"idle", "loading", "data", "error"}, of : Selections \cup {Nothing},
                      buckets : Seq([start : Days, end : Days])]
       /\ Len(shown'.buckets) <= MAX_BUCKETS
  BY <1>2, <1>10 DEF NothingShown
<1>12. /\ fetch' \in [SelectCalls -> Fetch]
       /\ \A s \in SelectCalls : fetch'[s].pc = "idle"
  BY <1>1, <1>6, NoFetchOK DEF Awaited
<1>13. SelectTypeOK'
  BY <1>1, <1>11, <1>12 DEF TrendsInv, SelectTypeOK
<1>14. RowsOfRange' = rows
  BY <1>1, <1>2 DEF RowsOfRange
<1>15. AskedOf(rows)'
  BY <1>5, <1>11, <1>12 DEF AskedOf, Awaited
<1>. QED BY <1>1, <1>13, <1>14, <1>15 DEF TrendsInv, AskedOf, Spread

LEMMA MonthFailedStep ==
  ASSUME TrendsInv, NEW s \in SelectCalls, MonthFailed(s)
  PROVE  TrendsInv'
<1>1. /\ openView' = openView /\ selected' = selected /\ selects' = selects
      /\ openView = "ExecTrends" /\ fetch \in [SelectCalls -> Fetch]
      /\ shown' = NothingShown("error") /\ fetch[s].pc = "failed"
      /\ fetch' = [t \in SelectCalls |-> IF t \in Months(fetch[s].round) THEN NoFetch ELSE fetch[t]]
  BY DEF MonthFailed, TrendsInv, SelectTypeOK
<1>2. \A t \in SelectCalls : fetch[t].pc # "idle" => fetch[t].round = selects
  BY <1>1 DEF TrendsInv, AskedOf, Awaited
<1>3. \A t \in SelectCalls : fetch[t].pc # "idle" => t \in Months(fetch[s].round)
  BY <1>1, <1>2 DEF Months
<1>4. /\ fetch' \in [SelectCalls -> Fetch]
      /\ \A t \in SelectCalls : fetch'[t].pc = "idle"
  BY <1>1, <1>3, NoFetchOK
<1>5. << >> \in Seq([start : Days, end : Days]) /\ Len(<< >>) = 0
  OBVIOUS
<1>6. /\ shown'.phase = "error"
      /\ shown' \in [phase : {"idle", "loading", "data", "error"}, of : Selections \cup {Nothing},
                     buckets : Seq([start : Days, end : Days])]
      /\ Len(shown'.buckets) <= MAX_BUCKETS
  BY <1>1, <1>5, CalendarAssumption DEF NothingShown
<1>7. SelectTypeOK'
  BY <1>1, <1>4, <1>6 DEF TrendsInv, SelectTypeOK
<1>. QED BY <1>1, <1>4, <1>6, <1>7 DEF TrendsInv, AskedOf, Awaited

LEMMA TrendsStep == ASSUME TrendsInv, [SelectNext]_selectVars PROVE TrendsInv'
<1>1. ASSUME NEW c \in Selections, \/ LoadFinancialPosition(c) \/ LoadProfitability(c)
                                   \/ LoadDrawBalance(c) \/ LoadTimeline(c)
      PROVE  TrendsInv'
  BY <1>1, TrendsSelectStep
     DEF LoadFinancialPosition, LoadProfitability, LoadDrawBalance, LoadTimeline
<1>2. ASSUME NEW range \in Ranges, LoadTrends(range[1], range[2]) PROVE TrendsInv'
  BY <1>2, RangeIs, LoadTrendsStep
<1>3. ASSUME NEW s \in SelectCalls, \/ FetchReplied(s, "done") \/ FetchReplied(s, "failed")
                                    \/ useAsync(s) \/ SetEvents(s) \/ MonthFailed(s)
      PROVE  TrendsInv'
  BY <1>3, TrendsRepliedStep, TrendsTakenStep, MonthFailedStep
<1>4. CASE UNCHANGED selectVars
  <2>1. PICK rows : rows = RowsOfRange
    OBVIOUS
  <2>2. RowsOfRange' = rows
    BY <1>4, <2>1 DEF RowsOfRange, selectVars
  <2>3. AskedOf(rows) => AskedOf(rows)'
    BY <1>4 DEF selectVars, AskedOf, Spread, Awaited
  <2>. QED BY <1>4, <2>1, <2>2, <2>3 DEF selectVars, TrendsInv, SelectTypeOK, Awaited, AskedOf, Spread
<1>. QED BY <1>1, <1>2, <1>3, <1>4, AllMonthsStep DEF SelectNext

LEMMA TrendsInvIsSound == ASSUME TrendsInv PROVE SelectTypeOK /\ TrendsCoverRange
<1>1. ASSUME openView = "ExecTrends", shown.phase = "data"
      PROVE  Covers(shown.buckets, selected.range[1], selected.range[2])
  <2>1. PICK first \in Days, last \in Days :
          first = selected.range[1] /\ last = selected.range[2]
    <3>1. selected.range \in Ranges
      BY DEF TrendsInv, SelectTypeOK
    <3>. QED BY <3>1, RangeIs
  <2>2. /\ shown.buckets = buildMonthlyBuckets(first, last)
        /\ buildMonthlyBuckets(first, last) # << >>
    BY <1>1, <2>1 DEF TrendsInv, AskedOf, RowsOfRange
  <2>3. first <= last
    BY <2>2, RowsTyped
  <2>. QED BY <2>1, <2>2, <2>3, RowsCover
<1>. QED BY <1>1 DEF TrendsInv, TrendsCoverRange, Covers

-----------------------------------------------------------------------------
(* The revisions of a deployment.                                           *)

LEMMA SetImageOK ==
  ASSUME NEW S, NEW h \in Seq(S), NEW image \in S, Len(h) >= 1
  PROVE  /\ SetImage(h, image) \in Seq(S) /\ Len(SetImage(h, image)) >= 1
         /\ Current(SetImage(h, image)) = image
         /\ image # Current(h) =>
              /\ CanUndo(SetImage(h, image))
              /\ SetImage(h, image)[Len(SetImage(h, image)) - 1] = Current(h)
<1>1. CASE \E i \in DOMAIN h : h[i] = image
  <2> DEFINE i == CHOOSE j \in DOMAIN h : h[j] = image
             older == SubSeq(h, 1, i - 1)
             newer == SubSeq(h, i + 1, Len(h))
             rest == older \o newer
  <2>1. i \in DOMAIN h /\ h[i] = image
    BY <1>1
  <2>2. i \in 1..Len(h) /\ Len(h) \in Nat
    BY <2>1
  <2> HIDE DEF i
  <2>3. older \in Seq(S) /\ Len(older) = i - 1
    BY <2>2, SubSeqProperties
  <2>4. /\ newer \in Seq(S) /\ Len(newer) = Len(h) - i
        /\ \A j \in 1..(Len(h) - i) : newer[j] = h[i + j]
    BY <2>2, SubSeqProperties
  <2> HIDE DEF older, newer
  <2>5. /\ rest \in Seq(S) /\ Len(rest) = Len(h) - 1
        /\ i < Len(h) => rest[Len(h) - 1] = h[Len(h)]
    BY <2>2, <2>3, <2>4, ConcatProperties
  <2> HIDE DEF rest
  <2>6. SetImage(h, image) = Append(rest, image)
    BY <1>1 DEF SetImage, i, rest, older, newer
  <2>7. QED
    BY <2>1, <2>2, <2>5, <2>6 DEF Current, CanUndo
<1>2. CASE ~\E i \in DOMAIN h : h[i] = image
  <2>1. SetImage(h, image) = Append(h, image)
    BY <1>2 DEF SetImage
  <2>2. QED
    BY <2>1 DEF Current, CanUndo
<1>3. QED
  BY <1>1, <1>2

LEMMA UndoneOK ==
  ASSUME NEW S, NEW h \in Seq(S), CanUndo(h)
  PROVE  /\ Undone(h) \in Seq(S) /\ Len(Undone(h)) >= 1
         /\ Current(Undone(h)) = h[Len(h) - 1]
<1> DEFINE older == SubSeq(h, 1, Len(h) - 2)
           latest == <<h[Len(h)], h[Len(h) - 1]>>
<1>1. Len(h) \in Nat /\ Len(h) > 1
  BY DEF CanUndo
<1>2. older \in Seq(S) /\ Len(older) = Len(h) - 2
  <2> DEFINE n == Len(h) - 2
  <2>1. n \in Int /\ 1 \in Int /\ 0 <= n /\ \A j \in 1..n : h[j] \in S
    BY <1>1
  <2> HIDE DEF n
  <2>2. /\ SubSeq(h, 1, n) \in Seq(S)
        /\ Len(SubSeq(h, 1, n)) = IF 1 <= n THEN n - 1 + 1 ELSE 0
    <3>1. SubSeq(h, 1, n) \in Seq(S)
      BY <2>1, SubSeqProperties
    <3>2. Len(SubSeq(h, 1, n)) = IF 1 <= n THEN n - 1 + 1 ELSE 0
      BY <2>1, SubSeqProperties
    <3>3. QED
      BY <3>1, <3>2
  <2>3. Len(SubSeq(h, 1, n)) = n
    BY <2>1, <2>2
  <2>4. QED
    BY <2>2, <2>3 DEF n
<1>3. latest \in Seq(S) /\ Len(latest) = 2 /\ latest[2] = h[Len(h) - 1]
  BY <1>1
<1> HIDE DEF older, latest
<1>4. /\ older \o latest \in Seq(S) /\ Len(older \o latest) = Len(h)
      /\ (older \o latest)[Len(h)] = h[Len(h) - 1]
  <2>1. /\ older \o latest \in Seq(S)
        /\ Len(older \o latest) = Len(older) + Len(latest)
        /\ \A j \in 1..(Len(older) + Len(latest)) : (older \o latest)[j] =
             IF j <= Len(older) THEN older[j] ELSE latest[j - Len(older)]
    BY <1>2, <1>3, ConcatProperties
  <2>2. Len(h) \in 1..(Len(older) + Len(latest)) /\ ~(Len(h) <= Len(older))
        /\ Len(h) - Len(older) = 2
    BY <1>1, <1>2, <1>3
  <2>3. QED
    BY <1>2, <1>3, <2>1, <2>2
<1>5. QED
  BY <1>1, <1>4 DEF Undone, Current, older, latest

LEMMA CurrentIn ==
  ASSUME NEW S, NEW h \in Seq(S), Len(h) >= 1 PROVE Current(h) \in S
  BY DEF Current

LEMMA MoreRevisions ==
  ASSUME NEW S, NEW T, S \subseteq T, NEW h \in Seq(S) PROVE h \in Seq(T)
  BY SeqMonotonic

(* The invariant of the deployments. *)

BeforeServer == {"doctor", "tunnel", "kubeconfig", "liveness", "migrate", "setImage"}
AtServer == {"status", "healthz", "undo"}
AtWorkers == {"setWorker", "workerStatus", "undoWorker"}

(* The step of a run agrees with the worker it is at, and from the server   *)
(* on, its migrations have been applied.                                    *)
InStep(d) ==
  /\ job[d].pc \in BeforeServer \cup AtServer => job[d].type = 0
  /\ job[d].pc \in AtWorkers => job[d].type \in 1..job[d].types
  /\ job[d].pc = "static" => job[d].type = job[d].types
  /\ job[d].pc \in {"setImage", "static"} \cup AtServer \cup AtWorkers => job[d].image \in schema

(* A deployment that has been given the image goes back to what it was.     *)
Rolled(h, image, was) == /\ Current(h) = image
                         /\ image # was => CanUndo(h) /\ h[Len(h) - 1] = was

(* What the cluster runs while one run works alone.                         *)
InPlace(d) ==
  /\ job[d].pc \in BeforeServer => Current(app) = job[d].app
  /\ job[d].pc \in AtServer => Rolled(app, job[d].image, job[d].app)
  /\ job[d].pc \in {"static"} \cup AtWorkers => Current(app) = job[d].image
  /\ \A w \in 1..Types :
       /\ w < job[d].type \/ (job[d].pc = "static" /\ w = job[d].type) =>
            Current(workers[w]) = job[d].image
       /\ job[d].pc \in {"workerStatus", "undoWorker"} /\ w = job[d].type =>
            Rolled(workers[w], job[d].image, job[d].workers[w])
       /\ (job[d].pc = "setWorker" /\ w = job[d].type) \/ w > job[d].type =>
            Current(workers[w]) = job[d].workers[w]

Alone(d) == Deploying(d) /\ job[d].alone

(* No two runs so far were at work at once, and each has passed its gate.   *)
Gated(d) == /\ job[d].pc = "healthz" => serving = job[d].image
            /\ job[d].pc \in {"static"} \cup AtWorkers => job[d].image \in passed

Orderly == /\ \A d \in Deployers : Deploying(d) => job[d].alone
           /\ \A w \in 1..Types : workers[w] \in Seq(passed)
           /\ \A d \in Deployers : Gated(d)

RevisionsOK ==
  /\ schema \subseteq Images /\ app \in Seq(schema) /\ Len(app) >= 1
  /\ DOMAIN workers = 1..Types
  /\ \A w \in 1..Types : workers[w] \in Seq(schema) /\ Len(workers[w]) >= 1

RolloutInv ==
  /\ RevisionsOK /\ job \in [Deployers -> Job]
  /\ \A d \in Deployers : InStep(d)
  /\ \A d \in Deployers : Alone(d) => InPlace(d) /\ \A e \in Deployers \ {d} : ~Deploying(e)
  /\ ~overlapped => Orderly
  /\ CleansUp

(* A step of one run changes its own record, in these fields.               *)
Moved(d, pc) ==
  /\ job' \in [Deployers -> Job]
  /\ \A e \in Deployers \ {d} : job'[e] = job[e]
  /\ job'[d].pc = pc
  /\ pc \notin Ended =>
       /\ job'[d].image = job[d].image /\ job'[d].app = job[d].app
       /\ job'[d].workers = job[d].workers /\ job'[d].types = job[d].types
       /\ job'[d].alone = job[d].alone

(* The worker that a run is at is one of those there are.                   *)
LEMMA TypesAre ==
  ASSUME job \in [Deployers -> Job], NEW d \in Deployers
  PROVE  /\ Types \in Nat /\ job[d].types \in 0..Types /\ job[d].type \in 0..Types
         /\ \A t \in 1..job[d].types : t \in 1..Types
<1>1. Types \in Nat /\ job[d].types \in 0..Types /\ job[d].type \in 0..Types
  BY TypesAssumption DEF Job
<1>2. QED
  BY <1>1

LEMMA GoStep ==
  ASSUME job \in [Deployers -> Job], NEW d \in Deployers, NEW pc \in Ended \cup Steps, Go(d, pc)
  PROVE  Moved(d, pc) /\ job'[d].type = job[d].type
<1> DEFINE next == [job[d] EXCEPT !.pc = pc]
<1>1. next \in Job
  BY DEF Job
<1>2. /\ next.pc = pc /\ next.image = job[d].image /\ next.app = job[d].app
      /\ next.workers = job[d].workers /\ next.type = job[d].type /\ next.types = job[d].types
  BY DEF Job
<1>3. next.alone = job[d].alone
  BY DEF Job
<1> HIDE DEF next
<1>4. job' = [job EXCEPT ![d] = next]
  BY DEF Go, next
<1>5. QED
  BY <1>1, <1>2, <1>3, <1>4 DEF Moved

(* Of a run that has ended little is kept.                                  *)
LEMMA OverStep ==
  ASSUME job \in [Deployers -> Job], NEW d \in Deployers, NEW pc \in Ended,
         NEW over \in Job, over.pc = pc, job' = [job EXCEPT ![d] = over]
  PROVE  Moved(d, pc) /\ job'[d] = over
  BY DEF Moved

LEMMA NoJobOK == NoJob \in Job
<1>1. FirstImage \in Images /\ 0 \in 0..Types
  BY ImagesAssumption, TypesAssumption
<1>2. QED
  BY <1>1 DEF NoJob, Job, Ended

LEMMA LeaveStep ==
  ASSUME job \in [Deployers -> Job], NEW d \in Deployers, NEW pc \in Ended,
         NEW lost \in BOOLEAN, Leave(d, pc, lost)
  PROVE  /\ Moved(d, pc) /\ job'[d].lost = lost
         /\ ~job'[d].kubeconfig
         /\ port' # d /\ port' \in {port, Nobody}
<1> DEFINE over == [NoJob EXCEPT !.pc = pc, !.lost = lost]
<1>1. over \in Job
  BY NoJobOK DEF Job
<1>2. over.pc = pc
  BY DEF NoJob
<1>3. over.lost = lost
  BY DEF NoJob
<1>4. over.kubeconfig = FALSE
  BY DEF NoJob
<1> HIDE DEF over
<1>5. job' = [job EXCEPT ![d] = over]
  BY DEF Leave, over
<1>6. Moved(d, pc) /\ job'[d] = over
  BY <1>1, <1>2, <1>5, OverStep
<1>7. ~job'[d].kubeconfig
  BY <1>4, <1>6
<1>8. port' # d /\ port' \in {port, Nobody}
  BY NobodyAssumption DEF Leave
<1>9. QED
  BY <1>3, <1>6, <1>7, <1>8

LEMMA AtTypeStep ==
  ASSUME job \in [Deployers -> Job], NEW d \in Deployers, NEW pc \in Ended \cup Steps,
         NEW t \in 0..Types, job' = [job EXCEPT ![d].type = t, ![d].pc = pc]
  PROVE  Moved(d, pc) /\ job'[d].type = t
<1> DEFINE next == [job[d] EXCEPT !.type = t, !.pc = pc]
<1>1. next \in Job
  BY DEF Job
<1>2. /\ next.pc = pc /\ next.image = job[d].image /\ next.app = job[d].app
      /\ next.workers = job[d].workers /\ next.type = t /\ next.types = job[d].types
  BY DEF Job
<1>3. next.alone = job[d].alone
  BY DEF Job
<1> HIDE DEF next
<1>4. job' = [job EXCEPT ![d] = next]
  BY DEF next
<1>5. QED
  BY <1>1, <1>2, <1>3, <1>4 DEF Moved

LEMMA NextWorkerStep ==
  ASSUME job \in [Deployers -> Job], NEW d \in Deployers, NextWorker(d),
         job[d].type \in 0..job[d].types
  PROVE  /\ Moved(d, IF job[d].type = job[d].types THEN "static" ELSE "setWorker")
         /\ job'[d].type = IF job[d].type = job[d].types THEN job[d].type ELSE job[d].type + 1
<1>1. "static" \in Ended \cup Steps /\ "setWorker" \in Ended \cup Steps
  BY DEF Steps
<1>2. CASE job[d].type = job[d].types
  <2>1. Go(d, "static")
    BY <1>2 DEF NextWorker, Go
  <2>2. QED
    BY <1>1, <1>2, <2>1, GoStep
<1>3. CASE job[d].type # job[d].types
  <2>1. job' = [job EXCEPT ![d].type = job[d].type + 1, ![d].pc = "setWorker"]
    BY <1>3 DEF NextWorker
  <2>2. job[d].type + 1 \in 0..Types
    BY <1>3, TypesAre
  <2>3. Moved(d, "setWorker") /\ job'[d].type = job[d].type + 1
    BY <1>1, <2>1, <2>2, AtTypeStep
  <2>4. QED
    BY <1>3, <2>3
<1>4. QED
  BY <1>2, <1>3

(* What a step of the run d must do for the invariant to hold after it.     *)
LEMMA RunStep ==
  ASSUME RolloutInv, NEW d \in Deployers, Deploying(d), NEW pc, Moved(d, pc),
         RevisionsOK', schema \subseteq schema', InStep(d)',
         pc \notin Ended /\ Alone(d) => InPlace(d)',
         overlapped' = overlapped,
         ~overlapped => (\A w \in 1..Types : workers[w] \in Seq(passed))' /\ Gated(d)',
         port' \in {port, Nobody, d},
         pc \in {"done", "failed"} => ~job'[d].kubeconfig /\ port' # d
  PROVE  RolloutInv'
<1>1. \A e \in Deployers : InStep(e)'
  <2>1. ASSUME NEW e \in Deployers \ {d} PROVE InStep(e)'
    BY <2>1 DEF RolloutInv, InStep, Moved
  <2>2. QED
    BY <2>1
<1>2. \A e \in Deployers \ {d} : Deploying(e)' = Deploying(e) /\ job'[e] = job[e]
  BY DEF Moved, Deploying
<1>3. ASSUME NEW e \in Deployers, Alone(e)'
      PROVE  e = d /\ InPlace(d)' /\ \A f \in Deployers \ {d} : ~Deploying(f)'
  <2>1. CASE e = d
    <3>3. pc \notin Ended
      BY <1>3, <2>1 DEF Alone, Deploying, Moved
    <3>1. job'[d].alone = job[d].alone
      BY <3>3 DEF Moved
    <3>2. Alone(d)
      BY <1>3, <2>1, <3>1 DEF Alone
    <3>4. QED
      BY <1>2, <2>1, <3>2, <3>3 DEF RolloutInv
  <2>2. CASE e # d
    <3>1. Alone(e)
      BY <1>2, <1>3, <2>2 DEF Alone
    <3>2. QED
      BY <2>2, <3>1 DEF RolloutInv
  <2>3. QED
    BY <2>1, <2>2
<1>4. ASSUME ~overlapped' PROVE Orderly'
  <2>1. Orderly /\ job[d].alone /\ Alone(d)
    BY <1>4 DEF RolloutInv, Orderly, Alone
  <2>2. \A e \in Deployers \ {d} : ~Deploying(e)
    BY <2>1 DEF RolloutInv
  <2>3. \A e \in Deployers : Deploying(e)' => job'[e].alone
    <3>1. Deploying(d)' => job'[d].alone
      BY <2>1 DEF Moved, Deploying
    <3>2. QED
      BY <1>2, <2>2, <3>1
  <2>4. \A e \in Deployers \ {d} : Gated(e)'
    BY <1>2, <2>2 DEF Gated, Deploying, Ended, AtWorkers
  <2>5. QED
    BY <1>4, <2>3, <2>4 DEF Orderly
<1>5. CleansUp'
  <2>1. ASSUME NEW e \in Deployers \ {d}, job'[e].pc \in {"done", "failed"}
        PROVE  ~job'[e].kubeconfig /\ port' # e
    BY <1>2, <2>1, NobodyAssumption DEF RolloutInv, CleansUp
  <2>2. QED
    BY <2>1 DEF CleansUp, Moved
<1>6. QED
  BY <1>1, <1>3, <1>4, <1>5 DEF RolloutInv, Moved

USE DEF Cluster, Rest

LEMMA StillOK ==
  ASSUME RolloutInv, UNCHANGED <<app, workers, passed, overlapped>>,
         schema \subseteq schema', schema' \subseteq Images
  PROVE  /\ RevisionsOK'
         /\ ~overlapped => (\A w \in 1..Types : workers[w] \in Seq(passed))'
  BY MoreRevisions DEF RolloutInv, RevisionsOK, Orderly

(* A run ends, in whatever way.                                             *)
LEMMA EndStep ==
  ASSUME RolloutInv, NEW d \in Deployers, Deploying(d), NEW pc \in Ended, Moved(d, pc),
         RevisionsOK', schema \subseteq schema', overlapped' = overlapped,
         ~overlapped => (\A w \in 1..Types : workers[w] \in Seq(passed))',
         port' \in {port, Nobody, d},
         pc \in {"done", "failed"} => ~job'[d].kubeconfig /\ port' # d
  PROVE  RolloutInv'
<1>1. job'[d].pc = pc
  BY DEF Moved
<1>2. pc \notin BeforeServer \cup AtServer \cup AtWorkers \cup {"static", "setImage", "healthz"}
  BY DEF Ended, BeforeServer, AtServer, AtWorkers
<1>3. InStep(d)' /\ Gated(d)'
  BY <1>1, <1>2 DEF InStep, Gated
<1>4. QED
  BY <1>3, RunStep

LEMMA LeavingStep ==
  ASSUME RolloutInv, NEW d \in Deployers, Deploying(d), NEW pc \in {"done", "failed"},
         NEW lost \in BOOLEAN, Leave(d, pc, lost),
         UNCHANGED <<app, workers, serving, passed, deploys, overlapped>>,
         schema \subseteq schema', schema' \subseteq Images
  PROVE  RolloutInv'
<1>1. pc \in Ended /\ pc \in Ended \cup Steps /\ job \in [Deployers -> Job]
  BY DEF Ended, RolloutInv
<1>2. Moved(d, pc) /\ ~job'[d].kubeconfig /\ port' # d /\ port' \in {port, Nobody}
  BY <1>1, LeaveStep
<1>3. QED
  BY <1>1, <1>2, StillOK, EndStep

(* The steps before the server is touched.                                  *)
LEMMA EarlyStep ==
  ASSUME RolloutInv, NEW d \in Deployers, job[d].pc \in BeforeServer, NEW pc \in BeforeServer,
         Moved(d, pc), job'[d].type = job[d].type,
         UNCHANGED <<app, workers, serving, passed, deploys, overlapped>>,
         schema \subseteq schema', schema' \subseteq Images,
         pc = "setImage" => job[d].image \in schema', port' \in {port, Nobody, d}
  PROVE  RolloutInv'
<1>1. /\ job'[d].pc = pc /\ job'[d].image = job[d].image /\ job'[d].app = job[d].app
      /\ job'[d].workers = job[d].workers
  BY DEF Moved, Ended, BeforeServer
<1>2. /\ pc \notin AtServer \cup AtWorkers \cup {"static", "healthz", "done", "failed"}
      /\ job[d].pc \notin AtServer \cup AtWorkers \cup {"static"} \cup Ended
  BY DEF Ended, BeforeServer, AtServer, AtWorkers
<1>3. InStep(d)' /\ Gated(d)'
  BY <1>1, <1>2 DEF InStep, Gated, RolloutInv
<1>4. ASSUME InPlace(d) PROVE InPlace(d)'
  BY <1>1, <1>2, <1>4 DEF InPlace, AtWorkers, BeforeServer
<1>5. QED
  BY <1>2, <1>3, <1>4, StillOK, RunStep DEF Deploying, RolloutInv

LEMMA RunDoctorStep == ASSUME RolloutInv, NEW d \in Deployers, RunDoctor(d) PROVE RolloutInv'
<1>1. job[d].pc = "doctor" /\ job \in [Deployers -> Job] /\ schema \subseteq Images
  BY DEF RunDoctor, Doing, RolloutInv, RevisionsOK
<1>2. CASE Go(d, "tunnel") /\ UNCHANGED port
  <2>1. Moved(d, "tunnel") /\ job'[d].type = job[d].type
    BY <1>1, <1>2, GoStep DEF Steps
  <2>2. QED
    BY <1>1, <1>2, <2>1, EarlyStep DEF RunDoctor, BeforeServer
<1>3. CASE Leave(d, "failed", FALSE)
  BY <1>1, <1>3, LeavingStep DEF RunDoctor, Deploying, Ended
<1>4. QED
  BY <1>2, <1>3 DEF RunDoctor

LEMMA StartTunnelStep == ASSUME RolloutInv, NEW d \in Deployers, StartTunnel(d) PROVE RolloutInv'
<1>1. job[d].pc = "tunnel" /\ job \in [Deployers -> Job] /\ schema \subseteq Images
  BY DEF StartTunnel, Doing, RolloutInv, RevisionsOK
<1>2. Moved(d, "kubeconfig") /\ job'[d].type = job[d].type
  BY <1>1, GoStep DEF StartTunnel, Steps
<1>3. QED
  BY <1>1, <1>2, EarlyStep DEF StartTunnel, BeforeServer

LEMMA BuildKubeconfigStep ==
  ASSUME RolloutInv, NEW d \in Deployers, BuildKubeconfig(d) PROVE RolloutInv'
<1>1. job[d].pc = "kubeconfig" /\ job \in [Deployers -> Job] /\ schema \subseteq Images
  BY DEF BuildKubeconfig, Doing, RolloutInv, RevisionsOK
<1>2. CASE /\ job' = [job EXCEPT ![d].pc = "liveness", ![d].kubeconfig = TRUE]
           /\ UNCHANGED port
  <2> DEFINE next == [job[d] EXCEPT !.pc = "liveness", !.kubeconfig = TRUE]
  <2>1. next \in Job
    BY <1>1 DEF Job, Steps
  <2>2. /\ next.pc = "liveness" /\ next.image = job[d].image /\ next.app = job[d].app
        /\ next.workers = job[d].workers /\ next.type = job[d].type /\ next.types = job[d].types
    BY <1>1 DEF Job
  <2>3. next.alone = job[d].alone
    BY <1>1 DEF Job
  <2> HIDE DEF next
  <2>4. job' = [job EXCEPT ![d] = next]
    BY <1>2 DEF next
  <2>5. Moved(d, "liveness") /\ job'[d].type = job[d].type
    BY <1>1, <2>1, <2>2, <2>3, <2>4 DEF Moved
  <2>6. QED
    BY <1>1, <1>2, <2>5, EarlyStep DEF BuildKubeconfig, BeforeServer
<1>3. CASE Leave(d, "failed", FALSE)
  BY <1>1, <1>3, LeavingStep DEF BuildKubeconfig, Deploying, Ended
<1>4. QED
  BY <1>2, <1>3 DEF BuildKubeconfig

LEMMA LivenessStep ==
  ASSUME RolloutInv, NEW d \in Deployers, RunLivenessChecks(d) PROVE RolloutInv'
<1>1. job[d].pc = "liveness" /\ job \in [Deployers -> Job] /\ schema \subseteq Images
  BY DEF RunLivenessChecks, Doing, RolloutInv, RevisionsOK
<1>0. UNCHANGED <<app, workers, serving, schema, passed, deploys, overlapped>>
  BY DEF RunLivenessChecks
<1>2. CASE Go(d, "migrate") /\ UNCHANGED port
  <2>1. Moved(d, "migrate") /\ job'[d].type = job[d].type
    BY <1>1, <1>2, GoStep DEF Steps
  <2>2. QED
    BY <1>0, <1>1, <1>2, <2>1, EarlyStep DEF BeforeServer
<1>3. CASE Leave(d, "done", FALSE) \/ Leave(d, "failed", FALSE)
  BY <1>0, <1>1, <1>3, LeavingStep DEF Deploying, Ended
<1>4. QED
  BY <1>2, <1>3 DEF RunLivenessChecks

LEMMA MigrationStep ==
  ASSUME RolloutInv, NEW d \in Deployers, RunMigrationJob(d) PROVE RolloutInv'
<1>1. /\ job[d].pc = "migrate" /\ job \in [Deployers -> Job] /\ schema \subseteq Images
      /\ job[d].image \in Images
  BY DEF RunMigrationJob, Doing, RolloutInv, RevisionsOK, Job
<1>2. schema \subseteq schema' /\ schema' \subseteq Images
  BY <1>1 DEF RunMigrationJob
<1>3. CASE schema' = schema \cup {job[d].image} /\ Go(d, "setImage") /\ UNCHANGED port
  <2>1. Moved(d, "setImage") /\ job'[d].type = job[d].type
    BY <1>1, <1>3, GoStep DEF Steps
  <2>2. QED
    BY <1>1, <1>2, <1>3, <2>1, EarlyStep DEF RunMigrationJob, BeforeServer
<1>4. CASE Leave(d, "failed", FALSE)
  BY <1>1, <1>2, <1>4, LeavingStep DEF RunMigrationJob, Deploying, Ended
<1>5. QED
  BY <1>3, <1>4 DEF RunMigrationJob

LEMMA RollServerStep ==
  ASSUME RolloutInv, NEW d \in Deployers, RollServer(d) PROVE RolloutInv'
<1> DEFINE image == job[d].image
<1>1. /\ job[d].pc = "setImage" /\ job \in [Deployers -> Job]
      /\ image \in schema /\ job[d].type = 0
  BY DEF RollServer, Doing, RolloutInv, InStep, BeforeServer
<1>2. Moved(d, "status") /\ job'[d].type = 0
  BY <1>1, GoStep DEF RollServer, Steps
<1>3. app \in Seq(schema) /\ Len(app) >= 1 /\ app' = SetImage(app, image)
  BY DEF RollServer, RolloutInv, RevisionsOK
<1>4. /\ app' \in Seq(schema) /\ Len(app') >= 1
      /\ Current(app') = image
      /\ image # Current(app) => CanUndo(app') /\ app'[Len(app') - 1] = Current(app)
  BY <1>1, <1>3, SetImageOK
<1>5. RevisionsOK' /\ (~overlapped => (\A w \in 1..Types : workers[w] \in Seq(passed))')
  BY <1>4 DEF RollServer, RolloutInv, RevisionsOK, Orderly
<1>6. InStep(d)' /\ Gated(d)'
  BY <1>1, <1>2 DEF InStep, Gated, Moved, Ended, RollServer, AtWorkers, AtServer, BeforeServer
<1>7. ASSUME InPlace(d) PROVE InPlace(d)'
  <2>1. Rolled(app, image, job[d].app)'
    BY <1>1, <1>2, <1>4, <1>7 DEF Rolled, InPlace, Moved, Ended, BeforeServer
  <2>2. \A w \in 1..Types : w > 0 /\ ~(w < 0) /\ Current(workers[w]) = job[d].workers[w]
    BY <1>1, <1>7 DEF InPlace
  <2>3. \A w \in 1..Types : Current(workers'[w]) = job'[d].workers[w]
    BY <2>2, <1>2 DEF Moved, Ended, RollServer
  <2>4. job'[d].pc = "status" /\ job'[d].image = image /\ job'[d].app = job[d].app
    BY <1>2 DEF Moved, Ended
  <2>5. QED
    BY <1>2, <2>1, <2>2, <2>3, <2>4 DEF InPlace, BeforeServer, AtServer, AtWorkers
<1>8. Deploying(d) /\ "status" \notin Ended
  BY <1>1 DEF Deploying, Ended
<1>9. QED
  BY <1>2, <1>5, <1>6, <1>7, <1>8, RunStep DEF RollServer, RolloutInv

(* The gates of the server: they change nothing but the step.               *)
LEMMA GateStep ==
  ASSUME RolloutInv, NEW d \in Deployers, job[d].pc \in AtServer, NEW pc \in AtServer,
         Moved(d, pc), job'[d].type = job[d].type,
         UNCHANGED <<app, workers, serving, schema, passed, port, deploys, overlapped>>,
         pc = "healthz" /\ ~overlapped => serving = job[d].image
  PROVE  RolloutInv'
<1>1. /\ job'[d].pc = pc /\ job'[d].image = job[d].image /\ job'[d].app = job[d].app
      /\ job'[d].workers = job[d].workers
  BY DEF Moved, Ended, AtServer
<1>2. /\ pc \notin BeforeServer \cup AtWorkers \cup {"static", "done", "failed"}
      /\ job[d].pc \notin BeforeServer \cup AtWorkers \cup {"static"} \cup Ended
  BY DEF Ended, BeforeServer, AtServer, AtWorkers
<1>3. InStep(d)'
  BY <1>1, <1>2 DEF InStep, RolloutInv
<1>4. ~overlapped => Gated(d)'
  BY <1>1, <1>2 DEF Gated
<1>5. ASSUME InPlace(d) PROVE InPlace(d)'
  BY <1>1, <1>2, <1>5 DEF InPlace, AtWorkers, AtServer, Rolled
<1>6. schema \subseteq Images
  BY DEF RolloutInv, RevisionsOK
<1>7. QED
  BY <1>2, <1>3, <1>4, <1>5, <1>6, StillOK, RunStep DEF Deploying, RolloutInv

LEMMA AloneIfOrderly ==
  ASSUME RolloutInv, ~overlapped, NEW d \in Deployers, Deploying(d)
  PROVE  InPlace(d) /\ \A e \in Deployers \ {d} : ~Deploying(e)
  BY DEF RolloutInv, Orderly, Alone

LEMMA RolloutStatusStep ==
  ASSUME RolloutInv, NEW d \in Deployers, RolloutStatus(d) PROVE RolloutInv'
<1>1. job[d].pc = "status" /\ job \in [Deployers -> Job] /\ Deploying(d)
  BY DEF RolloutStatus, Doing, RolloutInv, Deploying, Ended
<1>2. ASSUME serving = Current(app), ~overlapped PROVE serving = job[d].image
  BY <1>1, <1>2, AloneIfOrderly DEF InPlace, AtServer, Rolled
<1>3. PICK pc \in {"healthz", "undo"} : Go(d, pc) /\ (pc = "healthz" => serving = Current(app))
  BY DEF RolloutStatus
<1>4. Moved(d, pc) /\ job'[d].type = job[d].type
  BY <1>1, <1>3, GoStep DEF Steps
<1>5. QED
  BY <1>1, <1>2, <1>3, <1>4, GateStep DEF RolloutStatus, AtServer

(* The next worker, or the static files.                                    *)
LEMMA OnToWorkerStep ==
  ASSUME RolloutInv, NEW d \in Deployers, Deploying(d), NextWorker(d),
         job[d].type \in 0..job[d].types, job[d].image \in schema,
         UNCHANGED <<app, workers, serving, schema, port, overlapped>>, passed \subseteq passed',
         ~overlapped => job[d].image \in passed',
         InPlace(d) => /\ Current(app) = job[d].image
                       /\ \A w \in 1..Types :
                            IF w <= job[d].type THEN Current(workers[w]) = job[d].image
                            ELSE Current(workers[w]) = job[d].workers[w]
  PROVE  RolloutInv'
<1> DEFINE pc == IF job[d].type = job[d].types THEN "static" ELSE "setWorker"
           type == IF job[d].type = job[d].types THEN job[d].type ELSE job[d].type + 1
<1>1. Moved(d, pc) /\ job'[d].type = type
  BY NextWorkerStep DEF RolloutInv
<1>2. /\ job'[d].pc = pc /\ job'[d].image = job[d].image /\ job'[d].app = job[d].app
      /\ job'[d].workers = job[d].workers /\ job'[d].types = job[d].types
  BY <1>1 DEF Moved, Ended
<1>3. /\ pc = "static" => type = job[d].type /\ type = job[d].types
      /\ pc = "setWorker" => type = job[d].type + 1 /\ type \in 1..job[d].types
      /\ pc \in {"static", "setWorker"}
      /\ type \in Nat /\ job[d].type \in Nat
  <2>1. job[d].types \in Nat
    BY TypesAre DEF RolloutInv
  <2>2. QED
    BY <2>1
<1> HIDE DEF pc, type
<1>4. RevisionsOK' /\ (~overlapped => (\A w \in 1..Types : workers[w] \in Seq(passed))')
  BY MoreRevisions DEF RolloutInv, RevisionsOK, Orderly
<1>5. InStep(d)'
  BY <1>1, <1>2, <1>3 DEF InStep, BeforeServer, AtServer, AtWorkers
<1>6. ~overlapped => Gated(d)'
  BY <1>2, <1>3 DEF Gated
<1>7. ASSUME InPlace(d) PROVE InPlace(d)'
  <2>1. CASE pc = "static"
    <3>1. ASSUME NEW w \in 1..Types
          PROVE  /\ w <= type => Current(workers'[w]) = job[d].image
                 /\ w > type => Current(workers'[w]) = job[d].workers[w]
      BY <1>3, <1>7, <2>1
    <3>2. QED
      BY <1>1, <1>2, <1>3, <1>7, <2>1, <3>1 DEF InPlace, BeforeServer, AtServer, AtWorkers
  <2>2. CASE pc = "setWorker"
    <3>2. ASSUME NEW w \in 1..Types
          PROVE  /\ w < type => Current(workers'[w]) = job[d].image
                 /\ w >= type => Current(workers'[w]) = job[d].workers[w]
      BY <1>3, <1>7, <2>2
    <3>3. QED
      BY <1>1, <1>2, <1>3, <1>7, <2>2, <3>2 DEF InPlace, BeforeServer, AtServer, AtWorkers
  <2>3. QED
    BY <1>3, <2>1, <2>2
<1>8. pc \notin Ended
  BY <1>3 DEF Ended
<1>9. QED
  BY <1>1, <1>3, <1>4, <1>5, <1>6, <1>7, <1>8, RunStep DEF RolloutInv

LEMMA WaitForHealthzStep ==
  ASSUME RolloutInv, NEW d \in Deployers, WaitForHealthz(d) PROVE RolloutInv'
<1>1. /\ job[d].pc = "healthz" /\ job \in [Deployers -> Job] /\ Deploying(d)
      /\ job[d].type = 0 /\ job[d].image \in schema
  BY DEF WaitForHealthz, Doing, RolloutInv, Deploying, Ended, InStep, AtServer
<1>2. CASE passed' = passed \cup {serving} /\ NextWorker(d)
  <2>1. ~overlapped => job[d].image \in passed'
    BY <1>1, <1>2 DEF RolloutInv, Orderly, Gated
  <2>2. 0 \in 0..job[d].types /\ \A w \in 1..Types : ~(w <= 0) /\ w > 0
    BY <1>1, TypesAre
  <2>3. ASSUME InPlace(d)
        PROVE  /\ Current(app) = job[d].image
               /\ \A w \in 1..Types : Current(workers[w]) = job[d].workers[w]
    BY <1>1, <2>2, <2>3 DEF InPlace, AtServer, Rolled
  <2>4. QED
    BY <1>1, <1>2, <2>1, <2>2, <2>3, OnToWorkerStep DEF WaitForHealthz
<1>3. CASE Go(d, "undo") /\ UNCHANGED passed
  <2>1. Moved(d, "undo") /\ job'[d].type = job[d].type
    BY <1>1, <1>3, GoStep DEF Steps
  <2>2. QED
    BY <1>1, <1>3, <2>1, GateStep DEF WaitForHealthz, AtServer
<1>4. QED
  BY <1>2, <1>3 DEF WaitForHealthz

LEMMA UndoStep == ASSUME RolloutInv, NEW d \in Deployers, Undo(d) PROVE RolloutInv'
<1>1. job \in [Deployers -> Job] /\ Deploying(d) /\ "failed" \in Ended
  BY DEF Undo, Doing, RolloutInv, Deploying, Ended
<1>2. Moved(d, "failed") /\ ~job'[d].kubeconfig /\ port' # d /\ port' \in {port, Nobody}
  BY <1>1, LeaveStep DEF Undo
<1>3. app' \in Seq(schema) /\ Len(app') >= 1
  BY UndoneOK DEF Undo, RolloutInv, RevisionsOK
<1>4. RevisionsOK' /\ (~overlapped => (\A w \in 1..Types : workers[w] \in Seq(passed))')
  BY <1>3 DEF Undo, RolloutInv, RevisionsOK, Orderly
<1>5. QED
  BY <1>1, <1>2, <1>4, EndStep DEF Undo

LEMMA RollWorkerStep ==
  ASSUME RolloutInv, NEW d \in Deployers, RollWorker(d) PROVE RolloutInv'
<1> DEFINE image == job[d].image
           t == job[d].type
<1>1. /\ job[d].pc = "setWorker" /\ job \in [Deployers -> Job]
      /\ image \in schema /\ t \in 1..job[d].types /\ t \in 1..Types
      /\ ~overlapped => image \in passed
  BY TypesAre DEF RollWorker, Doing, RolloutInv, InStep, AtWorkers, Orderly, Gated
<1>2. Moved(d, "workerStatus") /\ job'[d].type = t
  BY <1>1, GoStep DEF RollWorker, Steps
<1>3. /\ workers[t] \in Seq(schema) /\ Len(workers[t]) >= 1 /\ DOMAIN workers = 1..Types
      /\ ~overlapped => workers[t] \in Seq(passed)
      /\ workers' = [workers EXCEPT ![t] = SetImage(workers[t], image)]
  BY <1>1 DEF RollWorker, RolloutInv, RevisionsOK, Orderly
<1>4. /\ workers'[t] \in Seq(schema) /\ Len(workers'[t]) >= 1
      /\ Current(workers'[t]) = image
      /\ image # Current(workers[t]) =>
           CanUndo(workers'[t]) /\ workers'[t][Len(workers'[t]) - 1] = Current(workers[t])
      /\ \A w \in 1..Types \ {t} : workers'[w] = workers[w]
      /\ DOMAIN workers' = 1..Types
  <2>1. workers'[t] = SetImage(workers[t], image)
    BY <1>1, <1>3
  <2>2. /\ \A w \in 1..Types \ {t} : workers'[w] = workers[w]
        /\ DOMAIN workers' = 1..Types
    BY <1>1, <1>3
  <2> DEFINE h == workers[t]
  <2>3. h \in Seq(schema) /\ Len(h) >= 1 /\ image \in schema
    BY <1>1, <1>3
  <2>5. workers'[t] = SetImage(h, image) /\ workers[t] = h
    BY <2>1
  <2> HIDE DEF h, image
  <2>4. /\ SetImage(h, image) \in Seq(schema) /\ Len(SetImage(h, image)) >= 1
        /\ Current(SetImage(h, image)) = image
        /\ image # Current(h) =>
             /\ CanUndo(SetImage(h, image))
             /\ SetImage(h, image)[Len(SetImage(h, image)) - 1] = Current(h)
    BY <2>3, SetImageOK
  <2>6. QED
    BY <2>2, <2>4, <2>5
<1>5. ~overlapped => workers'[t] \in Seq(passed)
  <2>1. workers'[t] = SetImage(workers[t], image)
    BY <1>1, <1>3
  <2> DEFINE h == workers[t]
  <2>2. h \in Seq(schema) /\ Len(h) >= 1
        /\ (~overlapped => h \in Seq(passed) /\ image \in passed)
    BY <1>1, <1>3
  <2>3. workers'[t] = SetImage(h, image)
    BY <2>1
  <2> HIDE DEF h, image
  <2>4. ~overlapped => SetImage(h, image) \in Seq(passed)
    BY <2>2, SetImageOK
  <2>5. QED
    BY <2>3, <2>4
<1>6. RevisionsOK'
  BY <1>4 DEF RollWorker, RolloutInv, RevisionsOK
<1>7. ~overlapped => (\A w \in 1..Types : workers[w] \in Seq(passed))'
  BY <1>4, <1>5 DEF RollWorker, RolloutInv, Orderly
<1>8. InStep(d)' /\ (~overlapped => Gated(d)')
  BY <1>1, <1>2 DEF InStep, Gated, Moved, Ended, RollWorker, AtWorkers, AtServer, BeforeServer
<1>9. ASSUME InPlace(d) PROVE InPlace(d)'
  <2>1. /\ job'[d].pc = "workerStatus" /\ job'[d].image = image /\ job'[d].type = t
        /\ job'[d].workers = job[d].workers /\ Current(app') = image
    BY <1>1, <1>2, <1>9 DEF Moved, Ended, InPlace, RollWorker, AtWorkers
  <2>0. Current(workers[t]) = job[d].workers[t]
    BY <1>1, <1>9 DEF InPlace
  <2>2. Rolled(workers'[t], image, job[d].workers[t])
    BY <1>4, <2>0 DEF Rolled
  <2>3. ASSUME NEW w \in 1..Types
        PROVE  /\ w < t => Current(workers'[w]) = image
               /\ w > t => Current(workers'[w]) = job[d].workers[w]
    BY <1>1, <1>4, <1>9, <2>3 DEF InPlace
  <2>4. QED
    BY <2>1, <2>2, <2>3 DEF InPlace, BeforeServer, AtServer, AtWorkers
<1>10. Deploying(d) /\ "workerStatus" \notin Ended
  BY <1>1 DEF Deploying, Ended
<1>11. QED
  BY <1>2, <1>6, <1>7, <1>8, <1>9, <1>10, RunStep DEF RollWorker, RolloutInv

LEMMA WorkerStatusStep ==
  ASSUME RolloutInv, NEW d \in Deployers, WorkerStatus(d) PROVE RolloutInv'
<1>1. /\ job[d].pc = "workerStatus" /\ job \in [Deployers -> Job] /\ Deploying(d)
      /\ job[d].type \in 1..job[d].types /\ job[d].image \in schema
      /\ ~overlapped => job[d].image \in passed
  BY DEF WorkerStatus, Doing, RolloutInv, Deploying, Ended, InStep, AtWorkers, Orderly, Gated
<1>2. CASE NextWorker(d)
  <2>1. ASSUME InPlace(d), NEW w \in 1..Types
        PROVE  /\ Current(app) = job[d].image
               /\ IF w <= job[d].type THEN Current(workers[w]) = job[d].image
                  ELSE Current(workers[w]) = job[d].workers[w]
    BY <1>1, <2>1 DEF InPlace, AtWorkers, Rolled
  <2>2. 1 \in 1..Types /\ job[d].type \in 0..job[d].types
    BY <1>1, TypesAre
  <2>3. QED
    BY <1>1, <1>2, <2>1, <2>2, OnToWorkerStep DEF WorkerStatus
<1>3. CASE Go(d, "undoWorker")
  <2>1. Moved(d, "undoWorker") /\ job'[d].type = job[d].type
    BY <1>1, <1>3, GoStep DEF Steps
  <2>2. /\ job'[d].pc = "undoWorker" /\ job'[d].image = job[d].image
        /\ job'[d].workers = job[d].workers /\ job'[d].types = job[d].types
    BY <2>1 DEF Moved, Ended
  <2>3. InStep(d)' /\ (~overlapped => Gated(d)')
    BY <1>1, <2>1, <2>2 DEF InStep, Gated, WorkerStatus, AtWorkers, AtServer, BeforeServer
  <2>4. ASSUME InPlace(d) PROVE InPlace(d)'
    BY <1>1, <2>1, <2>2, <2>4 DEF InPlace, WorkerStatus, AtWorkers, AtServer, BeforeServer
  <2>5. schema \subseteq Images /\ "undoWorker" \notin Ended
    BY DEF RolloutInv, RevisionsOK, Ended
  <2>6. QED
    BY <1>1, <2>1, <2>3, <2>4, <2>5, StillOK, RunStep DEF WorkerStatus, RolloutInv
<1>4. QED
  BY <1>2, <1>3 DEF WorkerStatus

LEMMA UndoWorkerStep ==
  ASSUME RolloutInv, NEW d \in Deployers, UndoWorker(d) PROVE RolloutInv'
<1>1. /\ job \in [Deployers -> Job] /\ Deploying(d) /\ "failed" \in Ended
      /\ job[d].type \in 1..Types
  BY TypesAre DEF UndoWorker, Doing, RolloutInv, Deploying, Ended, InStep, AtWorkers
<1>2. Moved(d, "failed") /\ ~job'[d].kubeconfig /\ port' # d /\ port' \in {port, Nobody}
  BY <1>1, LeaveStep DEF UndoWorker
<1>3. /\ workers'[job[d].type] = Undone(workers[job[d].type])
      /\ DOMAIN workers' = 1..Types
      /\ \A w \in 1..Types \ {job[d].type} : workers'[w] = workers[w]
  BY <1>1 DEF UndoWorker, RolloutInv, RevisionsOK
<1>4. ASSUME NEW S, workers[job[d].type] \in Seq(S)
      PROVE  workers'[job[d].type] \in Seq(S) /\ Len(workers'[job[d].type]) >= 1
  BY <1>3, <1>4, UndoneOK DEF UndoWorker
<1>5. RevisionsOK'
  BY <1>1, <1>3, <1>4 DEF UndoWorker, RolloutInv, RevisionsOK
<1>6. ~overlapped => (\A w \in 1..Types : workers[w] \in Seq(passed))'
  BY <1>1, <1>3, <1>4 DEF UndoWorker, RolloutInv, Orderly
<1>7. QED
  BY <1>1, <1>2, <1>5, <1>6, EndStep DEF UndoWorker

LEMMA PodsReadyStep == ASSUME RolloutInv, PodsReady PROVE RolloutInv'
<1>1. UNCHANGED <<app, workers, schema, passed, port, job, overlapped>> /\ serving' = Current(app)
  BY DEF PodsReady
<1>2. ASSUME Orderly PROVE Orderly'
  <2>1. ASSUME NEW d \in Deployers PROVE Gated(d)'
    <3>1. CASE job[d].pc = "healthz"
      <4>1. Alone(d)
        BY <1>2, <3>1 DEF Orderly, Alone, Deploying, Ended
      <4>2. Current(app) = job[d].image
        BY <3>1, <4>1 DEF RolloutInv, InPlace, AtServer, Rolled
      <4>3. QED
        BY <1>1, <3>1, <4>2 DEF Gated, AtWorkers
    <3>2. CASE job[d].pc # "healthz"
      BY <1>1, <1>2, <3>2 DEF Orderly, Gated
    <3>3. QED
      BY <3>1, <3>2
  <2>2. QED
    BY <1>1, <1>2, <2>1 DEF Orderly, Deploying
<1>3. RevisionsOK' /\ \A d \in Deployers : InStep(d)'
  BY <1>1 DEF RolloutInv, RevisionsOK, InStep
<1>4. \A d \in Deployers : (Alone(d)' <=> Alone(d)) /\ (InPlace(d)' <=> InPlace(d)) /\ (Deploying(d)' <=> Deploying(d))
  BY <1>1 DEF Alone, Deploying, InPlace, Rolled
<1>5. CleansUp'
  BY <1>1 DEF RolloutInv, CleansUp
<1>6. QED
  BY <1>1, <1>2, <1>3, <1>4, <1>5 DEF RolloutInv

LEMMA SyncStaticStep == ASSUME RolloutInv, NEW d \in Deployers, SyncStatic(d) PROVE RolloutInv'
<1>1. Deploying(d) /\ schema \subseteq Images
  BY DEF SyncStatic, Doing, Deploying, Ended, RolloutInv, RevisionsOK
<1>2. UNCHANGED <<app, workers, serving, schema, passed, deploys, overlapped>>
  BY DEF SyncStatic
<1>3. CASE Leave(d, "done", FALSE)
  BY <1>1, <1>2, <1>3, LeavingStep
<1>4. CASE Leave(d, "failed", FALSE)
  BY <1>1, <1>2, <1>4, LeavingStep
<1>5. QED
  BY <1>3, <1>4 DEF SyncStatic

LEMMA KubectlFailsStep == ASSUME RolloutInv, NEW d \in Deployers, KubectlFails(d) PROVE RolloutInv'
<1>1. Deploying(d) /\ schema \subseteq Images
  BY DEF KubectlFails, Deploying, Ended, RolloutInv, RevisionsOK
<1>2. /\ Leave(d, "failed", TRUE) /\ "failed" \in {"done", "failed"} /\ TRUE \in BOOLEAN
      /\ UNCHANGED <<app, workers, serving, schema, passed, deploys, overlapped>>
  BY DEF KubectlFails
<1>3. schema \subseteq schema' /\ schema' \subseteq Images
  BY <1>1, <1>2
<1>4. QED
  BY <1>1, <1>2, <1>3, LeavingStep

LEMMA ScriptKilledStep == ASSUME RolloutInv, NEW d \in Deployers, ScriptKilled(d) PROVE RolloutInv'
<1>1. Deploying(d) /\ schema \subseteq Images
  BY DEF ScriptKilled, RolloutInv, RevisionsOK
<1>2. /\ Leave(d, "done", FALSE) /\ FALSE \in BOOLEAN
      /\ UNCHANGED <<app, workers, serving, schema, passed, deploys, overlapped>>
  BY DEF ScriptKilled
<1>3. schema \subseteq schema' /\ schema' \subseteq Images
  BY <1>1, <1>2
<1>4. QED
  BY <1>1, <1>2, <1>3, LeavingStep

LEMMA KilledStep == ASSUME RolloutInv, NEW d \in Deployers, Killed(d) PROVE RolloutInv'
<1> DEFINE over == [NoJob EXCEPT !.pc = "killed", !.kubeconfig = job[d].kubeconfig]
<1>1. "killed" \in Ended /\ job \in [Deployers -> Job] /\ schema \subseteq Images
  BY DEF Ended, RolloutInv, RevisionsOK
<1>0. over \in Job
  <2>1. job[d].kubeconfig \in BOOLEAN
    BY <1>1 DEF Job
  <2>2. QED
    BY <1>1, <2>1, NoJobOK DEF Job
<1>5. over.pc = "killed"
  BY DEF NoJob
<1> HIDE DEF over
<1>6. job' = [job EXCEPT ![d] = over]
  BY DEF Killed, over
<1>2. Moved(d, "killed")
  BY <1>0, <1>1, <1>5, <1>6, OverStep
<1>3. RevisionsOK' /\ (~overlapped => (\A w \in 1..Types : workers[w] \in Seq(passed))')
  BY <1>1, StillOK DEF Killed
<1>4. QED
  BY <1>1, <1>2, <1>3, EndStep DEF Killed

(* A run begins; those at work are not alone any more.                      *)
LEMMA StartStep ==
  ASSUME RolloutInv, NEW d \in Deployers, NEW image \in Images, NEW via \in {"deploy.ts", "deploy.sh"},
         NEW types \in 0..Types, Start(d, image, via, types)
  PROVE  RolloutInv'
<1> DEFINE free == \A e \in Deployers : ~Deploying(e)
           was == [w \in 1..Types |-> Current(workers[w])]
           first == IF via = "deploy.ts" THEN "doctor" ELSE "migrate"
           begun == [NoJob EXCEPT !.pc = first, !.image = image, !.via = via, !.types = types,
                                  !.app = Current(app), !.workers = was, !.alone = free]
           other(e) == [job[e] EXCEPT !.alone = @ /\ ~Deploying(e)]
<1>1. /\ ~Deploying(d) /\ port # d /\ UNCHANGED <<app, workers, serving, schema, passed, port>>
      /\ job' = [e \in Deployers |-> IF e # d THEN other(e) ELSE begun]
      /\ overlapped' = (overlapped \/ ~free)
  BY DEF Start
<1>2. Current(app) \in Images /\ was \in [1..Types -> Images] /\ RevisionsOK'
  <2>1. Current(app) \in Images
    BY CurrentIn DEF RolloutInv, RevisionsOK
  <2>2. ASSUME NEW w \in 1..Types PROVE Current(workers[w]) \in Images
    BY CurrentIn DEF RolloutInv, RevisionsOK
  <2>3. QED
    BY <1>1, <2>1, <2>2 DEF RolloutInv, RevisionsOK
<1>3. /\ begun \in Job /\ begun.pc = first /\ begun.image = image /\ begun.app = Current(app)
      /\ begun.workers = was /\ begun.type = 0
  <2>1. first \in Steps /\ 0 \in 0..Types /\ free \in BOOLEAN
    BY TypesAssumption DEF Steps
  <2> HIDE DEF first, was, free
  <2>2. QED
    BY <1>2, <2>1 DEF NoJob, Job
<1>4. begun.alone = free
  BY DEF NoJob
<1>5. ASSUME NEW e \in Deployers
      PROVE  /\ other(e) \in Job /\ other(e).pc = job[e].pc /\ other(e).image = job[e].image
             /\ other(e).app = job[e].app /\ other(e).workers = job[e].workers
             /\ other(e).type = job[e].type /\ other(e).types = job[e].types
  <2>1. job[e] \in Job
    BY DEF RolloutInv
  <2>2. QED
    BY <2>1 DEF Job
<1>6. ASSUME NEW e \in Deployers
      PROVE  other(e).alone = (job[e].alone /\ ~Deploying(e)) /\ other(e).kubeconfig = job[e].kubeconfig
  <2>1. job[e] \in Job
    BY DEF RolloutInv
  <2>2. QED
    BY <2>1 DEF Job
<1>7. first \in {"doctor", "migrate"}
  OBVIOUS
<1> HIDE DEF begun, other, was, first
<1>8. job' \in [Deployers -> Job]
  BY <1>1, <1>3, <1>5
<1>9. \A e \in Deployers \ {d} :
        /\ job'[e].pc = job[e].pc /\ job'[e].image = job[e].image
        /\ job'[e].app = job[e].app /\ job'[e].workers = job[e].workers
        /\ job'[e].type = job[e].type /\ job'[e].types = job[e].types
  BY <1>1, <1>5
<1>10. \A e \in Deployers \ {d} :
        /\ job'[e].alone = (job[e].alone /\ ~Deploying(e))
        /\ job'[e].kubeconfig = job[e].kubeconfig
        /\ Deploying(e)' = Deploying(e)
  BY <1>1, <1>6, <1>9 DEF Deploying
<1>11. job'[d] = begun /\ job'[d].alone = free /\ Deploying(d)'
  BY <1>1, <1>3, <1>4, <1>7 DEF Deploying, Ended
<1>12. InStep(d)' /\ Gated(d)' /\ InPlace(d)'
  <2>1. /\ job'[d].pc \in BeforeServer
        /\ job'[d].pc \notin AtServer \cup AtWorkers \cup {"setImage", "static", "healthz"}
    BY <1>3, <1>7, <1>11 DEF BeforeServer, AtServer, AtWorkers
  <2>2. job'[d].type = 0 /\ job'[d].app = Current(app') /\ \A w \in 1..Types : job'[d].workers[w] = Current(workers'[w])
    BY <1>1, <1>3, <1>11 DEF was
  <2>3. job'[d].pc # "setImage" /\ job'[d].pc # "static"
    BY <2>1
  <2>4. QED
    BY <2>1, <2>2, <2>3 DEF InStep, Gated, InPlace, AtWorkers
<1>13. \A e \in Deployers : InStep(e)'
  BY <1>1, <1>9, <1>12 DEF InStep, RolloutInv
<1>14. ASSUME NEW e \in Deployers, Alone(e)'
       PROVE  InPlace(e)' /\ \A f \in Deployers \ {e} : ~Deploying(f)'
  BY <1>10, <1>11, <1>12, <1>14 DEF Alone
<1>15. ASSUME ~overlapped' PROVE Orderly'
  <2>1. Orderly /\ free
    BY <1>1, <1>15 DEF RolloutInv
  <2>2. \A e \in Deployers : Deploying(e)' => job'[e].alone
    BY <1>10, <1>11, <2>1
  <2>3. \A e \in Deployers \ {d} : Gated(e)'
    BY <1>1, <1>9, <2>1 DEF Gated, Orderly
  <2>4. QED
    BY <1>1, <1>12, <2>1, <2>2, <2>3 DEF Orderly
<1>16. CleansUp'
  <2>1. job'[d].pc \notin {"done", "failed"}
    BY <1>3, <1>7, <1>11
  <2>2. QED
    BY <1>1, <1>9, <1>10, <2>1 DEF CleansUp, RolloutInv
<1>17. QED
  BY <1>2, <1>8, <1>13, <1>14, <1>15, <1>16 DEF RolloutInv

LEMMA RolloutStart == ASSUME RolloutInit PROVE RolloutInv
<1>1. FirstImage \in Images /\ Types \in Nat
  BY ImagesAssumption, TypesAssumption
<1>2. NoJob \in Job /\ NoJob.pc = "idle" /\ NoJob.type = 0 /\ ~NoJob.kubeconfig
  BY <1>1 DEF NoJob, Job, Ended
<1>3. RevisionsOK
  BY <1>1 DEF RolloutInit, RevisionsOK
<1>4. job \in [Deployers -> Job] /\ \A d \in Deployers : job[d] = NoJob /\ job[d].pc = "idle"
  BY <1>2 DEF RolloutInit
<1>5. \A d \in Deployers : ~Deploying(d) /\ InStep(d) /\ Gated(d)
  BY <1>2, <1>4 DEF Deploying, Ended, InStep, Gated, BeforeServer, AtServer, AtWorkers
<1>6. \A w \in 1..Types : workers[w] \in Seq(passed)
  BY DEF RolloutInit
<1>7. CleansUp
  BY <1>4 DEF CleansUp
<1>8. QED
  BY <1>3, <1>4, <1>5, <1>6, <1>7 DEF RolloutInv, Orderly, Alone

LEMMA RolloutStep == ASSUME RolloutInv, [RolloutNext]_rolloutVars PROVE RolloutInv'
<1>1. CASE UNCHANGED rolloutVars
  BY <1>1 DEF rolloutVars, RolloutInv, RevisionsOK, InStep, Alone, Deploying, InPlace, Rolled,
              Orderly, Gated, CleansUp
<1>2. CASE PodsReady
  BY <1>2, PodsReadyStep
<1>3. ASSUME NEW d \in Deployers,
             \/ \E image \in Images, via \in {"deploy.ts", "deploy.sh"}, types \in 0..Types :
                  Start(d, image, via, types)
             \/ RunDoctor(d) \/ StartTunnel(d) \/ BuildKubeconfig(d) \/ RunLivenessChecks(d)
             \/ RunMigrationJob(d) \/ RollServer(d) \/ RolloutStatus(d) \/ WaitForHealthz(d)
             \/ Undo(d) \/ RollWorker(d) \/ WorkerStatus(d) \/ UndoWorker(d)
             \/ SyncStatic(d) \/ KubectlFails(d) \/ ScriptKilled(d) \/ Killed(d)
      PROVE  RolloutInv'
  BY <1>3, StartStep, RunDoctorStep, StartTunnelStep, BuildKubeconfigStep, LivenessStep,
     MigrationStep, RollServerStep, RolloutStatusStep, WaitForHealthzStep, UndoStep,
     RollWorkerStep, WorkerStatusStep, UndoWorkerStep, SyncStaticStep, KubectlFailsStep,
     ScriptKilledStep, KilledStep
<1>4. QED
  BY <1>1, <1>2, <1>3 DEF RolloutNext

LEMMA RolloutIsSound == ASSUME RolloutInv PROVE RolloutSound
<1>1. MigratedFirst
  BY CurrentIn DEF RolloutInv, RevisionsOK, MigratedFirst
<1>2. ASSUME ~overlapped, NEW w \in 1..Types PROVE Current(workers[w]) \in passed
  BY <1>2, CurrentIn DEF RolloutInv, RevisionsOK, Orderly
<1>3. QED
  BY <1>1, <1>2 DEF RolloutInv, RolloutSound, WorkersFollowServer

(* The steps of one run leave every other run where it is.                  *)
LEMMA OthersStay ==
  ASSUME job \in [Deployers -> Job], NEW d \in Deployers, NEW e \in Deployers \ {d},
         \/ \E image \in Images, via \in {"deploy.ts", "deploy.sh"}, types \in 0..Types :
                  Start(e, image, via, types)
         \/ RunDoctor(e) \/ StartTunnel(e) \/ BuildKubeconfig(e) \/ RunLivenessChecks(e)
         \/ RunMigrationJob(e) \/ RollServer(e) \/ RolloutStatus(e) \/ WaitForHealthz(e)
         \/ Undo(e) \/ RollWorker(e) \/ WorkerStatus(e) \/ UndoWorker(e)
         \/ SyncStatic(e) \/ KubectlFails(e) \/ ScriptKilled(e) \/ Killed(e)
  PROVE  job'[d].pc = job[d].pc
<1>1. CASE \E image \in Images, via \in {"deploy.ts", "deploy.sh"}, types \in 0..Types :
                  Start(e, image, via, types)
  <2>1. job'[d] = [job[d] EXCEPT !.alone = @ /\ ~Deploying(d)]
    BY <1>1 DEF Start
  <2>2. job[d] \in Job
    OBVIOUS
  <2>3. QED
    BY <2>1, <2>2 DEF Job
<1>2. CASE RunDoctor(e) \/ StartTunnel(e) \/ BuildKubeconfig(e) \/ RunLivenessChecks(e)
  BY <1>2 DEF RunDoctor, StartTunnel, BuildKubeconfig, RunLivenessChecks, Go, Leave
<1>3. CASE RunMigrationJob(e) \/ RollServer(e) \/ RolloutStatus(e) \/ WaitForHealthz(e)
  BY <1>3 DEF RunMigrationJob, RollServer, RolloutStatus, WaitForHealthz, Go, Leave, NextWorker
<1>4. CASE Undo(e) \/ RollWorker(e) \/ WorkerStatus(e) \/ UndoWorker(e)
  BY <1>4 DEF Undo, RollWorker, WorkerStatus, UndoWorker, Go, Leave, NextWorker
<1>5. CASE SyncStatic(e) \/ KubectlFails(e) \/ ScriptKilled(e) \/ Killed(e)
  BY <1>5 DEF SyncStatic, KubectlFails, ScriptKilled, Killed, Go, Leave
<1>6. QED
  BY <1>1, <1>2, <1>3, <1>4, <1>5

(* The ways in which a run fails by itself.                                 *)
LEMMA OwnFailures ==
  ASSUME RolloutInv, RolloutNext, NEW d \in Deployers,
         Deploying(d), job'[d].pc = "failed", ~job'[d].lost
  PROVE  \/ job[d].pc \in BeforeServer /\ UNCHANGED <<app, workers>>
         \/ Undo(d)
         \/ UndoWorker(d)
         \/ Doing(d, "static") /\ UNCHANGED <<app, workers>>
<1>1. job \in [Deployers -> Job] /\ job[d].pc # "failed"
  BY DEF RolloutInv, Deploying, Ended
<1>2. ~PodsReady
  BY <1>1 DEF PodsReady
<1>3. \/ RunDoctor(d) \/ StartTunnel(d) \/ BuildKubeconfig(d) \/ RunLivenessChecks(d)
      \/ RunMigrationJob(d) \/ RollServer(d) \/ RolloutStatus(d) \/ WaitForHealthz(d)
      \/ Undo(d) \/ RollWorker(d) \/ WorkerStatus(d) \/ UndoWorker(d)
      \/ SyncStatic(d) \/ KubectlFails(d) \/ ScriptKilled(d) \/ Killed(d)
  <2>1. PICK e \in Deployers :
          \/ \E image \in Images, via \in {"deploy.ts", "deploy.sh"}, types \in 0..Types :
                  Start(e, image, via, types)
          \/ RunDoctor(e) \/ StartTunnel(e) \/ BuildKubeconfig(e) \/ RunLivenessChecks(e)
          \/ RunMigrationJob(e) \/ RollServer(e) \/ RolloutStatus(e) \/ WaitForHealthz(e)
          \/ Undo(e) \/ RollWorker(e) \/ WorkerStatus(e) \/ UndoWorker(e)
          \/ SyncStatic(e) \/ KubectlFails(e) \/ ScriptKilled(e) \/ Killed(e)
    BY <1>2 DEF RolloutNext
  <2>2. e = d
    BY <1>1, <2>1, OthersStay
  <2>3. \A image, via, types : ~Start(d, image, via, types)
    BY DEF Start
  <2>4. QED
    BY <2>1, <2>2, <2>3
<1>4. CASE RunDoctor(d) \/ StartTunnel(d) \/ BuildKubeconfig(d) \/ RunLivenessChecks(d)
  BY <1>4 DEF RunDoctor, StartTunnel, BuildKubeconfig, RunLivenessChecks, Doing, BeforeServer
<1>5. CASE RunMigrationJob(d)
  BY <1>5 DEF RunMigrationJob, Doing, BeforeServer
<1>0. \A pc \in Ended \cup Steps : Go(d, pc) => job'[d].pc = pc
  BY <1>1, GoStep DEF Moved
<1>6. ~RollServer(d) /\ ~RolloutStatus(d) /\ ~RollWorker(d)
  <2>1. ~Go(d, "status") /\ ~Go(d, "healthz") /\ ~Go(d, "undo") /\ ~Go(d, "workerStatus")
    BY <1>0 DEF Ended, Steps
  <2>2. QED
    BY <2>1 DEF RollServer, RolloutStatus, RollWorker
<1>12. ~Killed(d)
  BY <1>1 DEF Killed, NoJob
<1>7. ~WaitForHealthz(d) /\ ~WorkerStatus(d)
  <2>1. ~Go(d, "undo") /\ ~Go(d, "undoWorker")
    BY <1>0 DEF Steps
  <2>2. job[d].pc \in {"healthz", "workerStatus"} => job[d].type \in 0..job[d].types
    BY <1>1, TypesAre DEF RolloutInv, InStep, AtServer, AtWorkers
  <2>3. job[d].pc \in {"healthz", "workerStatus"} => ~NextWorker(d)
    BY <1>1, <2>2, NextWorkerStep DEF Moved
  <2>4. QED
    BY <2>1, <2>3 DEF WaitForHealthz, WorkerStatus, Doing
<1>8. ~KubectlFails(d)
  BY <1>1, LeaveStep DEF KubectlFails, Ended
<1>11. ~ScriptKilled(d)
  BY <1>1, LeaveStep DEF ScriptKilled, Ended, Moved
<1>9. CASE SyncStatic(d)
  BY <1>9 DEF SyncStatic
<1>10. QED
  BY <1>3, <1>4, <1>5, <1>6, <1>7, <1>8, <1>9, <1>11, <1>12

LEMMA FailingStep ==
  ASSUME RolloutInv, RolloutNext, NEW d \in Deployers,
         Deploying(d), job'[d].pc = "failed", job[d].alone, ~job'[d].lost,
         job[d].image # job[d].app, \A w \in 1..job[d].types : job[d].image # job[d].workers[w]
  PROVE  /\ Current(app') = IF ServerPassed(d) THEN job[d].image ELSE job[d].app
         /\ \A w \in 1..Types :
              Current(workers'[w]) =
                IF w \in WorkersPassed(d) THEN job[d].image ELSE job[d].workers[w]
<1>1. InPlace(d) /\ InStep(d) /\ Types \in Nat /\ job[d].type \in Nat /\ job[d].types \in Nat
  BY TypesAre DEF RolloutInv, Alone
<1>0. ASSUME NEW w \in 1..Types
      PROVE  w \in WorkersPassed(d) <=>
               IF job[d].pc = "static" THEN w <= job[d].types ELSE w < job[d].type
  BY DEF WorkersPassed, Doing
<1>2. CASE job[d].pc \in BeforeServer /\ UNCHANGED <<app, workers>>
  <2>1. /\ job[d].type = 0 /\ job[d].pc # "static" /\ ~ServerPassed(d)
        /\ Current(app') = job[d].app
    BY <1>1, <1>2 DEF InPlace, InStep, BeforeServer, ServerPassed
  <2>2. ASSUME NEW w \in 1..Types
        PROVE  Current(workers'[w]) = job[d].workers[w] /\ w \notin WorkersPassed(d)
    BY <1>0, <1>1, <1>2, <2>1 DEF InPlace
  <2>3. QED
    BY <2>1, <2>2
<1>3. CASE Doing(d, "static") /\ UNCHANGED <<app, workers>>
  <2>1. /\ job[d].pc = "static" /\ job[d].type = job[d].types /\ ServerPassed(d)
        /\ Current(app') = job[d].image
    BY <1>1, <1>3 DEF InPlace, InStep, Doing, ServerPassed
  <2>2. ASSUME NEW w \in 1..Types
        PROVE  IF w <= job[d].types THEN Current(workers'[w]) = job[d].image
               ELSE Current(workers'[w]) = job[d].workers[w]
    BY <1>1, <1>3, <2>1 DEF InPlace
  <2>3. QED
    BY <1>0, <2>1, <2>2
<1>4. CASE Undo(d)
  <2>1. /\ job[d].pc = "undo" /\ job[d].type = 0 /\ CanUndo(app) /\ app' = Undone(app)
        /\ workers' = workers /\ app \in Seq(schema)
    BY <1>1, <1>4 DEF Undo, Doing, InStep, AtServer, RolloutInv, RevisionsOK
  <2>2. app[Len(app) - 1] = job[d].app
    BY <1>1, <2>1 DEF InPlace, Rolled, AtServer
  <2>3. Current(app') = job[d].app
    BY <2>1, <2>2, UndoneOK
  <2>4. \A w \in 1..Types :
          Current(workers'[w]) = job[d].workers[w] /\ w \notin WorkersPassed(d)
    BY <1>0, <1>1, <2>1 DEF InPlace
  <2>5. QED
    BY <2>1, <2>3, <2>4 DEF ServerPassed
<1>5. CASE UndoWorker(d)
  <2> DEFINE t == job[d].type
  <2>0. t \in 1..job[d].types /\ t \in 1..Types
    BY <1>1, <1>5, TypesAre DEF UndoWorker, Doing, InStep, AtWorkers, RolloutInv
  <2>1. /\ job[d].pc = "undoWorker" /\ CanUndo(workers[t])
        /\ workers' = [workers EXCEPT ![t] = Undone(workers[t])]
        /\ app' = app /\ workers[t] \in Seq(schema) /\ DOMAIN workers = 1..Types
    BY <1>5, <2>0 DEF UndoWorker, Doing, RolloutInv, RevisionsOK
  <2>2. Current(app) = job[d].image
    BY <1>1, <2>1 DEF InPlace, AtWorkers
  <2>3. workers[t][Len(workers[t]) - 1] = job[d].workers[t]
    BY <1>1, <2>0, <2>1 DEF InPlace, Rolled
  <2>4. Current(workers'[t]) = job[d].workers[t]
    <3>1. Current(Undone(workers[t])) = job[d].workers[t]
      BY <2>1, <2>3, UndoneOK
    <3>2. QED
      BY <2>0, <2>1, <3>1
  <2>5. ASSUME NEW w \in 1..Types, w # t
        PROVE  /\ w < t => Current(workers'[w]) = job[d].image
               /\ w > t => Current(workers'[w]) = job[d].workers[w]
    BY <1>1, <2>0, <2>1, <2>5 DEF InPlace
  <2>6. ASSUME NEW w \in 1..Types
        PROVE  Current(workers'[w]) =
                 IF w \in WorkersPassed(d) THEN job[d].image ELSE job[d].workers[w]
    BY <1>0, <1>1, <2>1, <2>4, <2>5
  <2>7. QED
    BY <2>1, <2>2, <2>6 DEF ServerPassed
<1>6. QED
  BY <1>2, <1>3, <1>4, <1>5, OwnFailures

-----------------------------------------------------------------------------
(* The door: the limiter                                                    *)

(* What the limiter has noted of the requests it let in: all of those in    *)
(* the window.                                                              *)
Noted ==
  \A c \in Clients, t \in Times :
    /\ InWindow(t) => stamps[c][t] = admitted[c][t]
    /\ t > now => stamps[c][t] = 0 /\ admitted[c][t] = 0

(* What a window that ends at last holds of the requests let in. *)
Let(times, last) ==
  [t \in Times |-> IF t <= last /\ t + Window > last THEN times[t] ELSE 0]

(* A client that was turned away waits until a request has left the window  *)
(* without which there is room.                                             *)
Without(times, t) == [times EXCEPT ![t] = 0]

Room ==
  \A c \in Clients :
    promised[c] > 0 =>
      \E t \in Times :
        /\ t + Window <= promised[c]
        /\ CountOf(Without(Active(stamps[c]), t)) < MaxRequests

LimiterInv == LimiterTypeOK /\ Noted /\ RateBound /\ Room

LEMMA TimesFinite == IsFiniteSet(Times) /\ Times \subseteq Nat
BY FS_Interval, WindowAssumption DEF Times

LEMMA CountIsSum == ASSUME NEW f PROVE CountOf(f) = Sum(f, Times)
BY DEF CountOf, Sum

Counts == [Times -> Nat]

LEMMA CountLess ==
  ASSUME NEW f \in Counts, NEW g \in Counts, \A t \in Times : f[t] <= g[t]
  PROVE  CountOf(f) <= CountOf(g) /\ CountOf(f) \in Nat /\ CountOf(g) \in Nat
<1>1. Ints(f, Times) /\ Ints(g, Times) /\ \A t \in Times : f[t] \in Nat /\ g[t] \in Nat
  BY DEF Ints, Counts
<1>. QED BY <1>1, TimesFinite, CountIsSum, SumLess, SumNat

LEMMA CountChange ==
  ASSUME NEW f \in Counts, NEW g \in Counts, NEW e \in Times,
         \A t \in Times : t # e => f[t] = g[t]
  PROVE  CountOf(g) = CountOf(f) - f[e] + g[e]
<1>1. Ints(f, Times) /\ Ints(g, Times)
  BY DEF Ints, Counts
<1>2. Sum(g, Times) = Sum(f, Times) - f[e] + g[e]
  BY <1>1, TimesFinite, SumChange
<1>. QED BY <1>2, CountIsSum

LEMMA CountPositive ==
  ASSUME NEW f \in Counts, CountOf(f) > 0
  PROVE  \E t \in Times : f[t] > 0
<1>1. \A t \in Times : f[t] \in Nat
  BY DEF Counts
<1>2. Sum(f, Times) > 0
  BY CountIsSum
<1>. QED BY <1>1, <1>2, TimesFinite, SumPositive

LEMMA LimiterStart == ASSUME LimiterInit PROVE LimiterInv
<1>1. LimiterTypeOK /\ Noted /\ Room
  BY WindowAssumption DEF LimiterInit, LimiterTypeOK, Noted, Room, Times, InWindow
<1>2. ASSUME NEW c \in Clients, NEW last \in Times
      PROVE  CountOf([t \in Times |-> IF t <= last /\ t + Window > last THEN admitted[c][t] ELSE 0])
               <= MaxRequests
  <2>. DEFINE f == [t \in Times |-> IF t <= last /\ t + Window > last THEN admitted[c][t] ELSE 0]
  <2>1. \A t \in Times : f[t] = 0
    BY <1>2 DEF LimiterInit
  <2>2. f \in Counts
    BY <2>1 DEF Counts
  <2>. HIDE DEF f
  <2>3. CountOf(f) \in Nat
    BY <2>2, CountLess DEF Counts
  <2>4. ~ (CountOf(f) > 0)
    BY <2>1, <2>2, CountPositive
  <2>. QED BY <2>3, <2>4, WindowAssumption DEF f
<1>. QED BY <1>1, <1>2 DEF LimiterInv, RateBound

LEMMA ActiveCounts ==
  ASSUME LimiterInv, NEW c \in Clients
  PROVE  /\ Active(stamps[c]) \in Counts /\ stamps[c] \in Counts /\ admitted[c] \in Counts
         /\ \A t \in Times : Active(stamps[c])[t] = IF InWindow(t) THEN admitted[c][t] ELSE 0
         /\ \A t \in Times : Active(stamps[c])[t] \in 0..MaxSame
<1>1. stamps[c] \in [Times -> 0..MaxSame] /\ admitted[c] \in [Times -> 0..MaxSame]
  BY DEF LimiterInv, LimiterTypeOK
<1>2. 0..MaxSame \subseteq Nat /\ 0 \in 0..MaxSame
  BY WindowAssumption
<1>. QED BY <1>1, <1>2 DEF Active, Counts, LimiterInv, Noted

(* The window that ends now holds no more than the limit, for the check of  *)
(* a request and the note of it are one turn.                               *)
LEMMA WindowFits ==
  ASSUME LimiterInv, NEW c \in Clients
  PROVE  CountOf(Active(stamps[c])) <= MaxRequests
<1>1. now \in Times
  BY DEF LimiterInv, LimiterTypeOK
<1>2. CountOf(Let(admitted[c], now)) <= MaxRequests
  BY <1>1 DEF LimiterInv, RateBound, Let
<1>3. Let(admitted[c], now) = Active(stamps[c])
  BY <1>1, ActiveCounts DEF LimiterInv, Noted, Let, Active, InWindow
<1>. QED BY <1>2, <1>3

(* A client waits until the oldest request has left its window.             *)
LEMMA WaitsLongEnough ==
  ASSUME NEW n \in Nat, NEW o \in Nat, n < o
  PROVE  /\ n + Second * (CeilSecond(o) - (n \div Second)) >= o
         /\ n + Second * (CeilSecond(o) - (n \div Second)) \in Nat
<1>. DEFINE a == (o + Second - 1) \div Second
            b == n \div Second
<1>1. Second \in Nat \ {0}
  BY WindowAssumption
<1>2. a \in Int /\ b \in Int
  BY <1>1
<1>3. Second * a >= o /\ Second * b <= n
  BY <1>1
<1>4. Second * (a - b) = Second * a - Second * b /\ Second * a \in Int /\ Second * b \in Int
  BY <1>1, <1>2
<1>. HIDE DEF a, b
<1>5. n + Second * (a - b) >= o /\ n + Second * (a - b) \in Int
  BY <1>2, <1>3, <1>4
<1>. QED BY <1>5 DEF a, b, CeilSecond

LEMMA OldestIsKnown ==
  ASSUME LimiterInv, NEW c \in Clients, ~Allowed(c)
  PROVE  /\ Oldest(c) \in Times /\ InWindow(Oldest(c)) /\ Active(stamps[c])[Oldest(c)] > 0
<1>. DEFINE S == {t \in Times : Active(stamps[c])[t] > 0}
<1>1. CountOf(Active(stamps[c])) > 0
  <2>1. CountOf(Active(stamps[c])) \in Nat
    BY ActiveCounts, CountLess DEF Counts
  <2>. QED BY <2>1, WindowAssumption DEF Allowed
<1>2. S # {}
  BY <1>1, ActiveCounts, CountPositive
<1>3. \E x \in S : \A y \in S : x <= y
  BY <1>2, TimesFinite, Least
<1>4. Oldest(c) \in S
  BY <1>3 DEF Oldest, Min
<1>. QED BY <1>4, ActiveCounts DEF Active

LEMMA Calm ==
  ASSUME LimiterInv, NEW c \in Clients, NEW f \in Counts,
         \A t \in Times : f[t] <= Active(stamps[c])[t], promised[c] > 0
  PROVE  \E t \in Times : t + Window <= promised[c] /\ CountOf(Without(f, t)) < MaxRequests
<1>. DEFINE g == Active(stamps[c])
<1>1. g \in Counts
  BY ActiveCounts
<1>2. PICK t \in Times : t + Window <= promised[c] /\ CountOf(Without(g, t)) < MaxRequests
  BY DEF LimiterInv, Room
<1>. HIDE DEF g
<1>3. Without(f, t) \in Counts /\ Without(g, t) \in Counts
  BY <1>1 DEF Without, Counts
<1>4. \A s \in Times : Without(f, t)[s] <= Without(g, t)[s]
  BY <1>1 DEF Without, Counts, g
<1>5. CountOf(Without(f, t)) <= CountOf(Without(g, t)) /\ CountOf(Without(f, t)) \in Nat
         /\ CountOf(Without(g, t)) \in Nat
  BY <1>3, <1>4, CountLess
<1>. QED BY <1>2, <1>5, WindowAssumption

LEMMA TickInv == ASSUME LimiterInv, Tick PROVE LimiterInv'
<1>1. now \in Nat /\ now \in Times /\ now' = now + 1 /\ now' \in Times
  BY WindowAssumption DEF LimiterInv, LimiterTypeOK, Tick, Times
<1>2. LimiterTypeOK' /\ Noted'
  BY <1>1, WindowAssumption, TimesFinite DEF LimiterInv, LimiterTypeOK, Noted, Tick, InWindow
<1>3. RateBound'
  BY DEF LimiterInv, RateBound, Tick
<1>4. ASSUME NEW c \in Clients, promised[c] > 0
      PROVE  \E t \in Times : t + Window <= promised[c]
                /\ CountOf(Without(Active(stamps[c])', t)) < MaxRequests
  <2>. DEFINE f == Active(stamps[c])'
  <2>1. f = [t \in Times |-> IF t + Window > now' /\ t <= now' THEN stamps[c][t] ELSE 0]
    BY DEF Tick, Active, InWindow
  <2>2. f \in Counts
    BY <2>1, ActiveCounts DEF Counts
  <2>3. \A t \in Times : f[t] <= Active(stamps[c])[t]
    <3>1. stamps[c] \in Counts /\ \A t \in Times : t > now => stamps[c][t] = 0
      BY ActiveCounts DEF LimiterInv, Noted
    <3>2. ASSUME NEW t \in Times PROVE f[t] <= Active(stamps[c])[t]
      <4>1. /\ t \in Nat /\ stamps[c][t] \in Nat
            /\ f[t] = IF t + Window > now + 1 /\ t <= now + 1 THEN stamps[c][t] ELSE 0
            /\ Active(stamps[c])[t] = IF t + Window > now /\ t <= now THEN stamps[c][t] ELSE 0
        BY <1>1, <2>1, <3>1, TimesFinite DEF Active, InWindow, Counts
      <4>2. t = now + 1 => stamps[c][t] = 0
        BY <1>1, <3>1
      <4>. HIDE DEF f
      <4>. QED BY <1>1, <4>1, <4>2, WindowAssumption
    <3>. QED BY <3>2
  <2>. HIDE DEF f
  <2>4. QED BY <1>4, <2>2, <2>3, Calm DEF f
<1>. QED BY <1>2, <1>3, <1>4 DEF LimiterInv, Room, Tick

LEMMA CleanupInv == ASSUME LimiterInv, Cleanup PROVE LimiterInv'
<1>1. now' = now /\ admitted' = admitted /\ promised' = promised
        /\ stamps' = [c \in Clients |-> Active(stamps[c])]
  BY DEF Cleanup
<1>2. \A c \in Clients : stamps'[c] = Active(stamps[c])
  BY <1>1
<1>3. LimiterTypeOK'
  <2>1. ASSUME NEW c \in Clients
        PROVE  Active(stamps[c]) \in [Times -> 0..MaxSame]
    <3>1. \A t \in Times : Active(stamps[c])[t] \in 0..MaxSame
      BY ActiveCounts
    <3>. QED BY <3>1 DEF Active
  <2>. QED BY <1>1, <2>1 DEF LimiterInv, LimiterTypeOK, Times
<1>4. Noted'
  BY <1>1, <1>2, ActiveCounts, WindowAssumption, TimesFinite
     DEF LimiterInv, LimiterTypeOK, Noted, Active, InWindow
<1>5. RateBound'
  BY <1>1 DEF LimiterInv, RateBound
<1>6. ASSUME NEW c \in Clients, promised[c] > 0
      PROVE  \E t \in Times : t + Window <= promised[c]
                /\ CountOf(Without(Active(stamps[c])', t)) < MaxRequests
  <2>1. Active(stamps[c])' = Active(stamps[c])
    BY <1>1, <1>2 DEF Active, InWindow
  <2>. QED BY <1>6, <2>1 DEF LimiterInv, Room
<1>. QED BY <1>1, <1>3, <1>4, <1>5, <1>6 DEF LimiterInv, Room

LEMMA TurnAwayInv ==
  ASSUME LimiterInv, NEW q \in Clients, TurnAway(q)
  PROVE  LimiterInv'
<1>. DEFINE o == Oldest(q)
<1>1. now' = now /\ admitted' = admitted /\ stamps' = stamps
        /\ promised' = [promised EXCEPT ![q] = now + Second * RetryAfter(q)] /\ ~Allowed(q)
  BY DEF TurnAway
<1>2. o \in Times /\ InWindow(o) /\ Active(stamps[q])[o] > 0 /\ now \in Nat
  BY <1>1, OldestIsKnown, TimesFinite DEF LimiterInv, LimiterTypeOK
<1>3. /\ o + Window <= now + Second * RetryAfter(q)
      /\ now + Second * RetryAfter(q) \in Nat
  <2>. HIDE DEF o
  <2>1. o + Window \in Nat /\ now < o + Window
    BY <1>2, TimesFinite, WindowAssumption DEF InWindow
  <2>. QED BY <1>2, <2>1, WaitsLongEnough DEF RetryAfter, o
<1>4. CountOf(Without(Active(stamps[q]), o)) < MaxRequests
  <2>. DEFINE f == Active(stamps[q])
              g == Without(f, o)
  <2>1. f \in Counts
    BY ActiveCounts
  <2>2. g \in Counts /\ g[o] = 0 /\ \A t \in Times : t # o => f[t] = g[t]
    BY <1>2, <2>1 DEF Without, Counts
  <2>3. f[o] > 0 /\ f[o] \in Nat
    BY <1>2, <2>1 DEF Counts
  <2>4. CountOf(f) <= MaxRequests
    BY WindowFits
  <2>. HIDE DEF f, g, o
  <2>5. CountOf(f) \in Nat
    BY <2>1, CountLess DEF Counts
  <2>6. CountOf(g) = CountOf(f) - f[o] + g[o]
    BY <1>2, <2>1, <2>2, CountChange
  <2>7. CountOf(g) < MaxRequests
    BY <2>2, <2>3, <2>4, <2>5, <2>6, WindowAssumption
  <2>. QED BY <2>7 DEF f, g, o
<1>5. LimiterTypeOK' /\ Noted'
  BY <1>1, <1>3 DEF LimiterInv, LimiterTypeOK, Noted, InWindow
<1>6. RateBound'
  BY <1>1 DEF LimiterInv, RateBound
<1>7. ASSUME NEW c \in Clients, promised'[c] > 0
      PROVE  \E t \in Times : t + Window <= promised'[c]
                /\ CountOf(Without(Active(stamps[c]), t)) < MaxRequests
  <2>1. CASE c = q
    <3>1. promised'[c] = now + Second * RetryAfter(q)
      BY <1>1, <2>1 DEF LimiterInv, LimiterTypeOK
    <3>. HIDE DEF o
    <3>. QED BY <1>2, <1>3, <1>4, <2>1, <3>1
  <2>2. CASE c # q
    <3>1. promised'[c] = promised[c]
      BY <1>1, <2>2 DEF LimiterInv, LimiterTypeOK
    <3>. QED BY <1>7, <3>1 DEF LimiterInv, Room
  <2>. QED BY <2>1, <2>2
<1>8. Room'
  <2>1. \A c \in Clients : Active(stamps[c])' = Active(stamps[c])
    BY <1>1 DEF Active, InWindow
  <2>. QED BY <1>7, <2>1 DEF Room
<1>. QED BY <1>5, <1>6, <1>8 DEF LimiterInv

LEMMA PassInv ==
  ASSUME LimiterInv, NEW q \in Clients, Pass(q)
  PROVE  LimiterInv'
<1>1. /\ now' = now /\ now \in Times /\ Allowed(q) /\ admitted[q][now] < MaxSame
      /\ stamps' = [stamps EXCEPT ![q] = Note(stamps[q])]
      /\ admitted' = [admitted EXCEPT ![q] = [admitted[q] EXCEPT ![now] = admitted[q][now] + 1]]
      /\ promised' = [promised EXCEPT ![q] = 0]
      /\ admitted \in [Clients -> [Times -> 0..MaxSame]]
      /\ stamps \in [Clients -> [Times -> 0..MaxSame]]
      /\ promised \in [Clients -> Nat]
  BY DEF Pass, LimiterInv, LimiterTypeOK
<1>2. now \in Nat /\ InWindow(now) /\ admitted[q][now] \in Nat
  BY <1>1, ActiveCounts, TimesFinite, WindowAssumption DEF InWindow, Counts
<1>3. /\ admitted'[q] = [admitted[q] EXCEPT ![now] = admitted[q][now] + 1]
      /\ stamps'[q] = Note(stamps[q])
      /\ \A c \in Clients : c # q => admitted'[c] = admitted[c] /\ stamps'[c] = stamps[c]
      /\ promised'[q] = 0
      /\ \A c \in Clients : c # q => promised'[c] = promised[c]
  BY <1>1
<1>4. /\ admitted'[q][now] = admitted[q][now] + 1
      /\ \A t \in Times : t # now => admitted'[q][t] = admitted[q][t]
      /\ admitted'[q] \in [Times -> 0..MaxSame] /\ admitted'[q] \in Counts
  BY <1>1, <1>2, <1>3, WindowAssumption DEF Counts
<1>5. \A t \in Times : stamps'[q][t] = IF InWindow(t) THEN admitted'[q][t] ELSE 0
  <2>. DEFINE f == Active(stamps[q])
  <2>1. \A t \in Times : f[t] = IF InWindow(t) THEN admitted[q][t] ELSE 0
    BY ActiveCounts
  <2>2. stamps'[q] = [f EXCEPT ![now] = f[now] + 1] /\ DOMAIN f = Times
    BY <1>3 DEF Note, Active
  <2>. HIDE DEF f
  <2>. QED BY <1>1, <1>2, <1>4, <2>1, <2>2
<1>6. LimiterTypeOK'
  <2>1. DOMAIN (stamps'[q]) = Times /\ stamps'[q] = [t \in Times |-> stamps'[q][t]]
    BY <1>1, <1>3 DEF Note, Active
  <2>2. stamps'[q] \in [Times -> 0..MaxSame]
    BY <1>4, <1>5, <2>1, WindowAssumption
  <2>. QED BY <1>1, <1>3, <1>4, <2>2 DEF LimiterTypeOK, Times
<1>7. Noted'
  <2>1. \A t \in Times : t > now => ~InWindow(t) /\ t # now
    BY <1>2, TimesFinite DEF InWindow
  <2>2. \A t \in Times : InWindow(t)' <=> InWindow(t)
    BY <1>1 DEF InWindow
  <2>. QED BY <1>1, <1>3, <1>4, <1>5, <2>1, <2>2 DEF Noted, LimiterInv
<1>8. ASSUME NEW last \in Times
      PROVE  CountOf(Let(admitted'[q], last)) <= MaxRequests
  <2>. DEFINE f == Let(admitted[q], last)
              g == Let(admitted'[q], last)
              a == Active(stamps[q])
  <2>1. f \in Counts /\ g \in Counts /\ a \in Counts
    BY <1>4, ActiveCounts DEF Let, Counts
  <2>2. \A t \in Times : t # now => f[t] = g[t]
    BY <1>4 DEF Let
  <2>3. CASE now <= last /\ now + Window > last
    <3>1. \A t \in Times : f[t] <= a[t]
      BY <1>2, <2>1, <2>3, ActiveCounts, TimesFinite, WindowAssumption
         DEF Let, LimiterInv, Noted, InWindow, Counts
    <3>2. g[now] = f[now] + 1 /\ f[now] \in Nat
      BY <1>1, <1>2, <1>4, <2>3 DEF Let
    <3>3. CountOf(a) < MaxRequests
      BY <1>1 DEF Allowed
    <3>. HIDE DEF f, g, a
    <3>4. CountOf(f) <= CountOf(a) /\ CountOf(f) \in Nat /\ CountOf(a) \in Nat
      BY <2>1, <3>1, CountLess
    <3>5. CountOf(g) = CountOf(f) - f[now] + g[now]
      BY <1>1, <2>1, <2>2, CountChange
    <3>. QED BY <3>2, <3>3, <3>4, <3>5, WindowAssumption DEF g
  <2>4. CASE ~ (now <= last /\ now + Window > last)
    <3>1. f = g
      BY <1>4, <2>4 DEF Let
    <3>2. CountOf(f) <= MaxRequests
      BY DEF LimiterInv, RateBound, Let
    <3>. QED BY <3>1, <3>2
  <2>. QED BY <2>3, <2>4
<1>9. RateBound'
  <2>1. ASSUME NEW c \in Clients, NEW last \in Times
        PROVE  CountOf(Let(admitted'[c], last)) <= MaxRequests
    <3>1. CASE c = q
      BY <1>8, <3>1
    <3>2. CASE c # q
      BY <1>3, <3>2 DEF LimiterInv, RateBound, Let
    <3>. QED BY <3>1, <3>2
  <2>. QED BY <2>1 DEF RateBound, Let
<1>10. Room'
  <2>1. \A c \in Clients : c # q => Active(stamps[c])' = Active(stamps[c])
    BY <1>1, <1>3 DEF Active, InWindow
  <2>2. \A c \in Clients : promised'[c] > 0 => c # q
    BY <1>3
  <2>. QED BY <1>3, <2>1, <2>2 DEF Room, LimiterInv
<1>. QED BY <1>6, <1>7, <1>9, <1>10 DEF LimiterInv

LEMMA LimiterStep ==
  ASSUME LimiterInv, [LimiterNext]_limiterVars
  PROVE  LimiterInv'
<1>1. CASE LimiterNext
  BY <1>1, PassInv, TurnAwayInv, CleanupInv, TickInv DEF LimiterNext
<1>2. CASE UNCHANGED limiterVars
  <2>1. now' = now /\ stamps' = stamps /\ admitted' = admitted /\ promised' = promised
    BY <1>2 DEF limiterVars
  <2>2. \A c \in Clients : Active(stamps[c])' = Active(stamps[c])
    BY <2>1 DEF Active, InWindow
  <2>. QED BY <2>1, <2>2
        DEF LimiterInv, LimiterTypeOK, Noted, RateBound, Room, InWindow
<1>. QED BY <1>1, <1>2

LEMMA LimiterInvIsSound == ASSUME LimiterInv PROVE LimiterSound
<1>1. ASSUME NEW c \in Clients, promised[c] > 0, now >= promised[c]
      PROVE  Allowed(c)
  <2>1. PICK t \in Times : t + Window <= promised[c]
                             /\ CountOf(Without(Active(stamps[c]), t)) < MaxRequests
    BY <1>1 DEF LimiterInv, Room
  <2>2. ~InWindow(t)
    BY <1>1, <2>1, TimesFinite, WindowAssumption DEF InWindow, LimiterInv, LimiterTypeOK
  <2>3. Without(Active(stamps[c]), t) = Active(stamps[c])
    BY <2>2 DEF Without, Active
  <2>. QED BY <2>1, <2>3 DEF Allowed
<1>. QED BY <1>1 DEF LimiterInv, LimiterSound, RetryAfterHolds

-----------------------------------------------------------------------------
(* The types of the sessions.                                               *)

(* Who is there, and what was revoked.                                      *)
SessionsTyped == users \subseteq Users /\ revoked \subseteq {t \in Tokens : token[t] # None}

LEMMA SessionsTypedStart ==
  ASSUME NEW scene \in SessionScenes, SessionsInit(scene)
  PROVE  SessionsTyped
  BY SessionsAssumption DEF SessionsInit, SessionsTyped

(* The steps that write the users, the tokens or the revocations.           *)
LEMMA TablesStep ==
  ASSUME [SessionsNext]_sessionVars
  PROVE  \/ UNCHANGED <<users, token, revoked>>
         \/ \E q \in Calls : CreateUser(q) \/ Revoke(q) \/ \E t \in Tokens : Sign(q, t)
         \/ \E t \in Tokens : TokenExpires(t)
<1>1. ASSUME NEW q \in Calls, NEW u \in Users, RegisterBegin(q, u) \/ DemoSignIn(q, u)
      PROVE  UNCHANGED <<users, token, revoked>>
  BY <1>1 DEF RegisterBegin, DemoSignIn, FindUser, sessionTables
<1>2. ASSUME NEW q \in Calls, LoginBegin(q) \/ ConsumeChallenge(q) \/ WriteCount(q) \/ ReadMember(q)
      PROVE  UNCHANGED <<users, token, revoked>>
  BY <1>2 DEF LoginBegin, ConsumeChallenge, WriteCount, ReadMember, sessionTables
<1>3. ASSUME NEW q \in Calls, StartLoading(q) \/ LoadCurrent(q) \/ LoadOld(q)
      PROVE  UNCHANGED <<users, token, revoked>>
  BY <1>3 DEF StartLoading, LoadCurrent, LoadOld, Fill, sessionTables
<1>4. ASSUME NEW q \in Calls, Verify(q) \/ CheckRevoked(q) \/ Answer(q) \/ CallFails(q)
      PROVE  UNCHANGED <<users, token, revoked>>
  BY <1>4 DEF Verify, CheckRevoked, Answer, CallFails, sessionTables
<1>5. ASSUME NEW q \in Calls, NEW c \in Challenges,
             CreateChallenge(q, c) \/ \E flow \in {"registration", "assertion"} : Complete(q, c, flow)
      PROVE  UNCHANGED <<users, token, revoked>>
  BY <1>5 DEF CreateChallenge, Complete, sessionTables
<1>6. ASSUME NEW q \in Calls, NEW k \in Passkeys, NEW n \in 0..MaxCount,
             InsertPasskey(q, k, n) \/ ReadPasskey(q, k, n)
      PROVE  UNCHANGED <<users, token, revoked>>
  BY <1>6 DEF InsertPasskey, ReadPasskey, sessionTables
<1>7. ASSUME NEW q \in Calls, NEW t \in Tokens,
             \E flow \in {"request", "logout"} : Present(q, t, flow)
      PROVE  UNCHANGED <<users, token, revoked>>
  BY <1>7 DEF Present, sessionTables
<1>8. ASSUME NEW c \in Challenges, ChallengeExpires(c)
      PROVE  UNCHANGED <<users, token, revoked>>
  BY <1>8 DEF ChallengeExpires
<1>9. ASSUME Deploy \/ UNCHANGED sessionVars
      PROVE  UNCHANGED <<users, token, revoked>>
  BY <1>9 DEF Deploy, Restart, sessionVars, sessionTables
<1>. QED BY <1>1, <1>2, <1>3, <1>4, <1>5, <1>6, <1>7, <1>8, <1>9 DEF SessionsNext

LEMMA SessionsTypedStep ==
  ASSUME SessionsInv, SessionsTyped, [SessionsNext]_sessionVars
  PROVE  SessionsTyped'
<1>1. \A q \in Calls : /\ call[q].pc = "createUser" => call[q].user \in Users
                       /\ call[q].pc = "revoke" => /\ call[q].token \in Tokens
                                                   /\ token[call[q].token] # None
  BY DEF SessionsInv, CallsOK, OKCall, Asks, Presents, Shows
<1>2. \/ UNCHANGED <<users, token, revoked>>
      \/ \E q \in Calls : CreateUser(q) \/ Revoke(q) \/ \E t \in Tokens : Sign(q, t)
      \/ \E t \in Tokens : TokenExpires(t)
  BY TablesStep
<1>3. users' \subseteq Users
  BY <1>1, <1>2 DEF SessionsTyped, CreateUser, At, Revoke, Sign, TokenExpires
<1>6. \A t \in Tokens : token[t] # None => token'[t] # None
  <2>1. token \in [Tokens -> Token \cup {None}] /\ token' \in [Tokens -> Token \cup {None}]
    BY SessionsStep, SessionsStutter DEF SessionsInv, Typed
  <2>2. ASSUME NEW q \in Calls, NEW t \in Tokens, Sign(q, t), NEW s \in Tokens, token[s] # None
        PROVE  token'[s] # None
    BY <2>1, <2>2 DEF Sign
  <2>3. ASSUME NEW t \in Tokens, TokenExpires(t), NEW s \in Tokens, token[s] # None
        PROVE  token'[s] # None
    <3>1. CASE s = t
      <4>1. PICK row : row = [token[t] EXCEPT !.live = FALSE]
        OBVIOUS
      <4>2. token[t] \in Token
        BY <2>1, <2>3, <3>1
      <4>3. row \in Token
        BY <4>1, <4>2 DEF Token
      <4>4. token'[s] = row
        BY <2>1, <2>3, <3>1, <4>1 DEF TokenExpires
      <4>. QED BY <4>3, <4>4, SessionsAssumption
    <3>2. CASE s # t
      BY <2>1, <2>3, <3>2 DEF TokenExpires
    <3>. QED BY <3>1, <3>2
  <2>. QED BY <1>2, <2>2, <2>3 DEF CreateUser, Revoke
<1>7. revoked' \subseteq {t \in Tokens : token'[t] # None}
  BY <1>1, <1>2, <1>6 DEF SessionsTyped, CreateUser, Revoke, Sign, TokenExpires, At
<1>. QED BY <1>3, <1>7 DEF SessionsTyped

LEMMA SessionsAreTyped == ASSUME SessionsInv, SessionsTyped PROVE SessionsTypeOK
<1>1. \A q \in Calls : Shows(call[q]) => token[call[q].token] # None
  BY DEF SessionsInv, CallsOK, OKCall, Presents
<1>2. challenge \in [Challenges -> Challenge \cup {None}]
  BY DEF SessionsInv, Typed, Drawn
<1>. QED BY <1>1, <1>2 DEF SessionsInv, Typed, SessionsTyped, SessionsTypeOK, Shows

-----------------------------------------------------------------------------
(* The types of the run review page.                                        *)

(* The call for a finalize that is out. *)
Finalizing(p) == post[p].pc # "idle" /\ post[p].kind = "finalize"

ScreenTyped == /\ ScreenTypeOK
               /\ \A p, q \in Posts : Finalizing(p) /\ Finalizing(q) => p = q

LEMMA ScreenTypedStart == ASSUME ScreenInit PROVE ScreenTyped
<1>1. NoSnapshot \in Snapshot
  BY DEF NoSnapshot, Snapshot
<1>2. NoPost \in Post /\ NoPost.pc = "idle" /\ NoPost.reply = "none"
  BY <1>1 DEF NoPost, Post
<1>3. post \in [Posts -> Post] /\ \A p \in Posts : post[p] = NoPost
  BY <1>2 DEF ScreenInit
<1>4. screen \in Screen /\ screen.finalizing = FALSE
  BY <1>1 DEF ScreenInit, Screen
<1>5. server \in [status : {"Open", "Approved"}, reviewed : SUBSET Rows, gap : BOOLEAN]
  BY DEF ScreenInit
<1>6. \A p \in Posts : ~Finalizing(p) /\ post[p].pc # "answered" /\ post[p].reply = "none"
  BY <1>2, <1>3 DEF Finalizing
<1>7. screen.finalizing = \E p \in Posts : post[p].pc # "idle" /\ post[p].kind = "finalize"
  BY <1>4, <1>6 DEF Finalizing
<1>. QED BY <1>3, <1>4, <1>5, <1>6, <1>7 DEF ScreenTyped, ScreenTypeOK

(* A step that gives one call other contents, and keeps finalizing true to  *)
(* the calls.                                                               *)
LEMMA ScreenTypedKept ==
  ASSUME ScreenTyped, NEW p \in Posts, NEW made \in Post, post' = [post EXCEPT ![p] = made],
         server' \in [status : {"Open", "Approved"}, reviewed : SUBSET Rows, gap : BOOLEAN],
         screen' \in Screen,
         made.pc = "answered" <=> made.reply # "none",
         \/ /\ screen'.finalizing = screen.finalizing
            /\ Finalizing(p) <=> made.pc # "idle" /\ made.kind = "finalize"
         \/ /\ ~screen.finalizing /\ screen'.finalizing
            /\ made.pc # "idle" /\ made.kind = "finalize"
         \/ /\ Finalizing(p) /\ ~screen'.finalizing
            /\ ~(made.pc # "idle" /\ made.kind = "finalize")
  PROVE  ScreenTyped'
<1>1. /\ post' \in [Posts -> Post] /\ post'[p] = made
      /\ \A q \in Posts : q # p => post'[q] = post[q]
  BY DEF ScreenTyped, ScreenTypeOK
<1>2. /\ \A q \in Posts : q # p => (Finalizing(q)' <=> Finalizing(q))
      /\ Finalizing(p)' <=> made.pc # "idle" /\ made.kind = "finalize"
  BY <1>1 DEF Finalizing
<1>3. screen.finalizing \in BOOLEAN /\ screen'.finalizing \in BOOLEAN
  BY DEF ScreenTyped, ScreenTypeOK, Screen
<1>4. screen.finalizing <=> \E q \in Posts : Finalizing(q)
  BY DEF ScreenTyped, ScreenTypeOK, Finalizing
<1>5. \A q, r \in Posts : Finalizing(q) /\ Finalizing(r) => q = r
  BY DEF ScreenTyped
<1>6. /\ screen'.finalizing <=> \E q \in Posts : Finalizing(q)'
      /\ \A q, r \in Posts : Finalizing(q)' /\ Finalizing(r)' => q = r
  <2>. HIDE DEF Finalizing
  <2>. QED BY <1>2, <1>4, <1>5
<1>7. screen'.finalizing = \E q \in Posts : post'[q].pc # "idle" /\ post'[q].kind = "finalize"
  BY <1>3, <1>6 DEF Finalizing
<1>8. \A q \in Posts : (post'[q].pc = "answered") <=> (post'[q].reply # "none")
  BY <1>1 DEF ScreenTyped, ScreenTypeOK
<1>. QED BY <1>1, <1>6, <1>7, <1>8 DEF ScreenTyped, ScreenTypeOK

LEMMA ClickTyped == ASSUME ScreenTyped, NEW p \in Posts, Click(p) PROVE ScreenTyped'
<1>1. /\ server' = server /\ post[p].pc = "idle" /\ screen \in Screen
      /\ server \in [status : {"Open", "Approved"}, reviewed : SUBSET Rows, gap : BOOLEAN]
  BY DEF ScreenTyped, ScreenTypeOK, Click, ClickStart, ClickLoad, ClickApprove,
         ClickBatchApprove, ClickFinalize, Send
<1>2. \A kind \in {"start", "queue", "approve", "batch", "finalize"} :
        LET made == Request(kind)
        IN made \in Post /\ made.pc = "sent" /\ made.reply = "none" /\ made.kind = kind
  <2>1. NoSnapshot \in Snapshot
    BY DEF NoSnapshot, Snapshot
  <2>. QED BY <2>1 DEF Request, NoPost, Post
<1>3. CASE ClickStart(p) \/ ClickLoad(p) \/ ClickBatchApprove(p)
  <2>1. PICK kind \in {"start", "queue", "batch"} : post' = [post EXCEPT ![p] = Request(kind)]
    BY <1>3 DEF ClickStart, ClickLoad, ClickBatchApprove, Send, QueueRequest
  <2>2. screen' \in Screen /\ screen'.finalizing = screen.finalizing
    BY <1>1, <1>3 DEF ClickStart, ClickLoad, ClickBatchApprove, Screen
  <2>. HIDE DEF Request
  <2>. QED BY <1>1, <1>2, <2>1, <2>2, ScreenTypedKept DEF Finalizing
<1>4. ASSUME NEW r \in Rows, ClickApprove(p, r) PROVE ScreenTyped'
  <2>1. PICK made : made = [Request("approve") EXCEPT !.row = r]
    OBVIOUS
  <2>2. post' = [post EXCEPT ![p] = made]
    BY <1>4, <2>1 DEF ClickApprove, Send
  <2>3. made \in Post /\ made.pc = "sent" /\ made.reply = "none" /\ made.kind = "approve"
    BY <1>2, <2>1 DEF Post
  <2>4. screen' \in Screen /\ screen'.finalizing = screen.finalizing
    BY <1>1, <1>4 DEF ClickApprove, Screen
  <2>. QED BY <1>1, <2>2, <2>3, <2>4, ScreenTypedKept DEF Finalizing
<1>5. CASE ClickFinalize(p)
  <2>1. PICK made : made = [Request("finalize") EXCEPT !.from = screen.phase]
    OBVIOUS
  <2>2. post' = [post EXCEPT ![p] = made] /\ ~screen.finalizing
    BY <1>5, <2>1 DEF ClickFinalize, Send
  <2>3. screen.phase \in {"queue", "batch-approved"}
    BY <1>5 DEF ClickFinalize
  <2>4. made \in Post /\ made.pc = "sent" /\ made.reply = "none" /\ made.kind = "finalize"
    BY <1>2, <2>1, <2>3 DEF Post
  <2>5. screen' \in Screen /\ screen'.finalizing
    BY <1>1, <1>5 DEF ClickFinalize, Screen
  <2>. QED BY <1>1, <2>2, <2>4, <2>5, ScreenTypedKept
<1>. QED BY <1>3, <1>4, <1>5 DEF Click

LEMMA AnswerTyped ==
  ASSUME ScreenTyped, ReviewInv, NEW p \in Posts, Serve(p) \/ Lose(p)
  PROVE  ScreenTyped'
<1>1. /\ screen' = screen /\ screen \in Screen /\ post[p] \in Post /\ post[p].pc # "idle"
      /\ DOMAIN post = Posts
      /\ server \in [status : {"Open", "Approved"}, reviewed : SUBSET Rows, gap : BOOLEAN]
  BY DEF ScreenTyped, ScreenTypeOK, Serve, Lose
<1>2. CASE Lose(p)
  <2>1. PICK made : made = [post[p] EXCEPT !.pc = "answered", !.reply = "failed"]
    OBVIOUS
  <2>2. post' = [post EXCEPT ![p] = made]
    BY <1>2, <2>1 DEF Lose
  <2>3. /\ made \in Post /\ made.pc = "answered" /\ made.reply = "failed"
        /\ made.kind = post[p].kind
    BY <1>1, <2>1 DEF Post
  <2>4. server' = server
    BY <1>2 DEF Lose
  <2>. QED BY <1>1, <2>2, <2>3, <2>4, ScreenTypedKept DEF Finalizing
<1>3. CASE Serve(p)
  <2>1. /\ server' \in [status : {"Open", "Approved"}, reviewed : SUBSET Rows, gap : BOOLEAN]
        /\ \E reply \in {"ok", "409", "422"} : Answered(p, reply)
    <3>1. CASE post[p].kind \in {"start", "queue"}
      BY <1>1, <1>3, <3>1 DEF Serve
    <3>2. CASE post[p].kind \notin {"start", "queue"}
      <4>1. Refusal(post[p]) \in {"none", "409", "422"}
        BY DEF Refusal
      <4>2. CASE Refusal(post[p]) # "none"
        BY <1>1, <1>3, <3>2, <4>1, <4>2 DEF Serve
      <4>3. CASE Refusal(post[p]) = "none"
        <5>1. /\ server' = IF post[p].kind = "approve"
                             THEN [server EXCEPT !.reviewed = server.reviewed \cup {post[p].row}]
                             ELSE [server EXCEPT !.status = "Approved"]
              /\ Answered(p, "ok")
          BY <1>3, <3>2, <4>3 DEF Serve
        <5>2. post[p].kind = "approve" => post[p].row \in Rows
          BY DEF ReviewInv, PostTold
        <5>. QED BY <1>1, <5>1, <5>2
      <4>. QED BY <4>2, <4>3
    <3>. QED BY <3>1, <3>2
  <2>2. PICK reply \in {"ok", "409", "422"} : Answered(p, reply)
    BY <2>1
  <2>3. PICK seen : seen = [status |-> server'.status, reviewed |-> server'.reviewed]
    OBVIOUS
  <2>4. seen \in Snapshot
    BY <2>1, <2>3 DEF Snapshot
  <2>5. PICK made : made = [post[p] EXCEPT !.pc = "answered", !.reply = reply, !.data = seen]
    OBVIOUS
  <2>6. post' = [post EXCEPT ![p] = made]
    BY <1>1, <2>2, <2>3, <2>5 DEF Answered
  <2>7. /\ made \in Post /\ made.pc = "answered" /\ made.reply = reply
        /\ made.kind = post[p].kind
    BY <1>1, <2>4, <2>5 DEF Post
  <2>. QED BY <1>1, <2>1, <2>6, <2>7, ScreenTypedKept DEF Finalizing
<1>. QED BY <1>2, <1>3

LEMMA HandleTyped == ASSUME ScreenTyped, NEW p \in Posts, Handle(p) PROVE ScreenTyped'
<1>1. /\ server' = server /\ screen \in Screen /\ post[p] \in Post /\ DOMAIN post = Posts
      /\ post[p].pc = "answered"
      /\ server \in [status : {"Open", "Approved"}, reviewed : SUBSET Rows, gap : BOOLEAN]
  BY DEF ScreenTyped, ScreenTypeOK, Handle, HandleStart, HandleQueue, HandleApprove, Handles,
         HandleBatchApprove, HandleFinalize, Handled, LoadQueue
<1>2. NoSnapshot \in Snapshot
  BY DEF NoSnapshot, Snapshot
<1>3. NoPost \in Post /\ NoPost.pc = "idle" /\ NoPost.reply = "none"
  BY <1>2 DEF NoPost, Post
<1>4. ASSUME NEW reload \in BOOLEAN, LoadQueue(p, reload), post[p].kind # "finalize"
      PROVE  ScreenTyped'
  <2>1. PICK made : made = [QueueRequest EXCEPT !.reload = reload]
    OBVIOUS
  <2>2. post' = [post EXCEPT ![p] = made]
    BY <1>4, <2>1 DEF LoadQueue
  <2>3. made \in Post /\ made.pc = "sent" /\ made.reply = "none" /\ made.kind = "queue"
    BY <1>2, <2>1 DEF QueueRequest, Request, NoPost, Post
  <2>4. screen' \in Screen /\ screen'.finalizing = screen.finalizing
    BY <1>1, <1>4 DEF LoadQueue, Screen
  <2>. QED BY <1>1, <1>4, <2>2, <2>3, <2>4, ScreenTypedKept DEF Finalizing
<1>5. ASSUME Handled(p), screen' \in Screen,
             \/ post[p].kind # "finalize" /\ screen'.finalizing = screen.finalizing
             \/ post[p].kind = "finalize" /\ ~screen'.finalizing
      PROVE  ScreenTyped'
  <2>1. post' = [post EXCEPT ![p] = NoPost]
    BY <1>5 DEF Handled
  <2>. HIDE DEF NoPost
  <2>. QED BY <1>1, <1>3, <1>5, <2>1, ScreenTypedKept DEF Finalizing
<1>6. CASE HandleStart(p)
  <2>1. CASE Ok(p)
    BY <1>4, <1>6, <2>1 DEF HandleStart, Handles
  <2>2. CASE ~Ok(p)
    BY <1>1, <1>5, <1>6, <2>2 DEF HandleStart, Handles, Screen
  <2>. QED BY <2>1, <2>2
<1>7. CASE HandleQueue(p)
  <2>1. PICK phase \in {"queue", "error"}, data \in Snapshot,
             approving \in {"none", screen.approving} :
          screen' = [screen EXCEPT !.phase = phase, !.data = data, !.starting = FALSE,
                                   !.approving = approving]
    BY <1>1, <1>2, <1>7 DEF HandleQueue, Post
  <2>2. screen' \in Screen /\ screen'.finalizing = screen.finalizing
    BY <1>1, <2>1 DEF Screen
  <2>. QED BY <1>5, <1>7, <2>2 DEF HandleQueue, Handles
<1>8. CASE HandleApprove(p)
  <2>1. CASE Ok(p)
    BY <1>4, <1>8, <2>1 DEF HandleApprove, Handles
  <2>2. CASE ~Ok(p)
    BY <1>1, <1>5, <1>8, <2>2 DEF HandleApprove, Handles, Screen
  <2>. QED BY <2>1, <2>2
<1>9. Refused(p) \in Screen /\ Refused(p).finalizing = screen.finalizing
  <2>1. PICK blocked, error :
          /\ blocked = (screen.blocked \/ post[p].reply = "422")
          /\ error = (screen.mutationError \/ post[p].reply # "422")
    OBVIOUS
  <2>2. blocked \in BOOLEAN /\ error \in BOOLEAN
    BY <1>1, <2>1, Zenon DEF Screen
  <2>3. Refused(p) = [screen EXCEPT !.blocked = blocked, !.mutationError = error]
    BY <2>1, Zenon DEF Refused
  <2>. QED BY <1>1, <2>2, <2>3 DEF Screen
<1>10. CASE HandleBatchApprove(p)
  <2>1. PICK s \in Screen : /\ s.finalizing = screen.finalizing
                            /\ screen' = [s EXCEPT !.batchApproving = FALSE]
    <3>. HIDE DEF Refused
    <3>1. CASE Ok(p)
      <4>1. PICK s : s = [screen EXCEPT !.phase = "batch-approved"]
        OBVIOUS
      <4>2. s \in Screen /\ s.finalizing = screen.finalizing
        BY <1>1, <4>1 DEF Screen
      <4>3. screen' = [s EXCEPT !.batchApproving = FALSE]
        BY <1>10, <3>1, <4>1 DEF HandleBatchApprove
      <4>. QED BY <4>2, <4>3
    <3>2. CASE ~Ok(p)
      BY <1>9, <1>10, <3>2 DEF HandleBatchApprove
    <3>. QED BY <3>1, <3>2
  <2>2. screen' \in Screen /\ screen'.finalizing = screen.finalizing
    BY <2>1 DEF Screen
  <2>. QED BY <1>5, <1>10, <2>2 DEF HandleBatchApprove, Handles
<1>11. CASE HandleFinalize(p)
  <2>1. PICK s \in Screen : screen' = [s EXCEPT !.finalizing = FALSE]
    <3>1. CASE Ok(p)
      <4>1. PICK s : s = [screen EXCEPT !.phase = "finalized"]
        OBVIOUS
      <4>2. s \in Screen
        BY <1>1, <4>1 DEF Screen
      <4>3. screen' = [s EXCEPT !.finalizing = FALSE]
        BY <1>11, <3>1, <4>1 DEF HandleFinalize
      <4>. QED BY <4>2, <4>3
    <3>2. CASE ~Ok(p)
      BY <1>9, <1>11, <3>2 DEF HandleFinalize
    <3>. QED BY <3>1, <3>2
  <2>2. screen' \in Screen /\ ~screen'.finalizing
    BY <2>1 DEF Screen
  <2>. QED BY <1>5, <1>11, <2>2 DEF HandleFinalize, Handles
<1>. QED BY <1>6, <1>7, <1>8, <1>10, <1>11 DEF Handle

LEMMA ScreenTypedStep ==
  ASSUME ScreenTyped, ReviewInv, [ScreenNext]_screenVars
  PROVE  ScreenTyped'
<1>1. CASE OtherAdmin
  <2>1. server' \in [status : {"Open", "Approved"}, reviewed : SUBSET Rows, gap : BOOLEAN]
    BY <1>1 DEF OtherAdmin, ScreenTyped, ScreenTypeOK
  <2>. QED BY <1>1, <2>1 DEF OtherAdmin, ScreenTyped, ScreenTypeOK, Finalizing
<1>2. CASE UNCHANGED screenVars
  BY <1>2 DEF screenVars, ScreenTyped, ScreenTypeOK, Finalizing
<1>. QED BY <1>1, <1>2, ClickTyped, AnswerTyped, HandleTyped DEF ScreenNext

-----------------------------------------------------------------------------
(* The types of the shell.                                                  *)

(* A page that is shown has its own tabs; while the session is probed none  *)
(* is shown, and the tab is the one to begin with.                          *)
ShellTyped == ShellTypeOK /\ (probing = "loading" => tab = "default")

LEMMA ShellTypedStart == ASSUME ShellInit PROVE ShellTyped
  BY DEF ShellInit, ShellTyped, ShellTypeOK

LEMMA Pairs == ASSUME NEW S, NEW a \in S, NEW b \in S PROVE Append(<<a>>, b) = <<a, b>>
<1>1. /\ <<a>> \in Seq(S) /\ <<a, b>> \in Seq(S)
      /\ Len(<<a>>) = 1 /\ Len(<<a, b>>) = 2
  OBVIOUS
<1>2. /\ Append(<<a>>, b) \in Seq(S) /\ Len(Append(<<a>>, b)) = 2
      /\ Append(<<a>>, b)[1] = a /\ Append(<<a>>, b)[2] = b
  BY <1>1, AppendProperties
<1>3. \A i \in 1..Len(Append(<<a>>, b)) : Append(<<a>>, b)[i] = <<a, b>>[i]
  BY <1>2
<1>. QED BY <1>1, <1>2, <1>3, SeqEqual

LEMMA ItemsAreRoutes ==
  /\ \A role \in Roles : landingPathForRole(role) \in ROUTES
  /\ \A t \in FinanceTabs : pathForTab(t, <<"finance">>, "processing") \in ROUTES
  /\ \A t \in ExecutiveTabs : pathForTab(t, <<"executive">>, "dashboard") \in ROUTES
<1>1. ASSUME NEW role \in Roles PROVE landingPathForRole(role) \in ROUTES
  BY DEF landingPathForRole, navItems, Roles, ROUTES
<1>2. ASSUME NEW t \in FinanceTabs PROVE pathForTab(t, <<"finance">>, "processing") \in ROUTES
  <2>. DEFINE S == {"finance", "cases", "adjustments", "reconciliation"}
  <2>1. /\ Append(<<"finance">>, "cases") = <<"finance", "cases">>
        /\ Append(<<"finance">>, "adjustments") = <<"finance", "adjustments">>
        /\ Append(<<"finance">>, "reconciliation") = <<"finance", "reconciliation">>
    <3>1. \A a, b \in S : Append(<<a>>, b) = <<a, b>>
      BY Pairs
    <3>. QED BY <3>1
  <2>. QED BY <2>1, Zenon DEF FinanceTabs, pathForTab, ROUTES
<1>3. ASSUME NEW t \in ExecutiveTabs PROVE pathForTab(t, <<"executive">>, "dashboard") \in ROUTES
  <2>. DEFINE S == {"executive", "profitability", "trends", "finance"}
  <2>1. /\ Append(<<"executive">>, "profitability") = <<"executive", "profitability">>
        /\ Append(<<"executive">>, "trends") = <<"executive", "trends">>
        /\ Append(<<"executive">>, "finance") = <<"executive", "finance">>
    <3>1. \A a, b \in S : Append(<<a>>, b) = <<a, b>>
      BY Pairs
    <3>. QED BY <3>1
  <2>. QED BY <2>1, Zenon DEF ExecutiveTabs, pathForTab, ROUTES
<1>. QED BY <1>1, <1>2, <1>3

(* A step to another page.                                                  *)
LEMMA Navigated ==
  ASSUME ShellTyped, NEW p \in ROUTES, navigate(p),
         session' \in Roles \cup {"none"}, prevRole' \in Roles \cup {"none"},
         probing' \in {"no", "due", "loading"},
         csrf' \in BOOLEAN, signedOut' \in BOOLEAN, redirect' \in BOOLEAN, typed' \in BOOLEAN
  PROVE  ShellTyped'
  BY DEF navigate, ShellTyped, ShellTypeOK

LEMMA ShellTypedStep ==
  ASSUME ShellTyped, [ShellNext]_shellVars
  PROVE  ShellTyped'
<1>1. /\ session \in Roles \cup {"none"} /\ probing \in {"no", "due", "loading"}
      /\ path \in ROUTES /\ prevRole \in Roles \cup {"none"}
      /\ csrf \in BOOLEAN /\ signedOut \in BOOLEAN /\ redirect \in BOOLEAN /\ typed \in BOOLEAN
      /\ OnPage => tab \in LocalTabs \cup {"default"}
      /\ probing = "loading" => tab = "default"
  BY DEF ShellTyped, ShellTypeOK
<1>2. CASE StartProbe
  BY <1>1, <1>2 DEF StartProbe, ShellTyped, ShellTypeOK
<1>3. ASSUME NEW role \in Roles \cup {"none"}, AnswerMe(role) PROVE ShellTyped'
  BY <1>1, <1>3 DEF AnswerMe, ShellTyped, ShellTypeOK
<1>4. CASE Redirect
  <2>1. CASE probing = "loading" \/ signedOut \/ session = "none"
    BY <1>1, <1>4, <2>1
       DEF Redirect, ShellTyped, ShellTypeOK, OnPage, LocalTabs, Surface
  <2>2. CASE ~ (probing = "loading" \/ signedOut \/ session = "none")
    <3>1. session \in Roles /\ prevRole' \in Roles \cup {"none"}
      BY <1>1, <1>4, <2>2 DEF Redirect
    <3>2. CASE path = LOGIN \/ prevRole \notin {"none", session}
      BY <1>1, <1>4, <2>2, <3>1, <3>2, Navigated, ItemsAreRoutes DEF Redirect
    <3>3. CASE ~ (path = LOGIN \/ prevRole \notin {"none", session})
      <4>1. /\ path' = path /\ tab' = tab /\ session' = session /\ probing' = probing
            /\ signedOut' = signedOut /\ typed' = typed /\ redirect' = FALSE /\ csrf' = csrf
        BY <1>4, <2>2, <3>3 DEF Redirect
      <4>2. OnPage' = OnPage /\ LocalTabs' = LocalTabs
        BY <4>1 DEF OnPage, LocalTabs, Surface
      <4>. QED BY <1>1, <3>1, <4>1, <4>2 DEF ShellTyped, ShellTypeOK
    <3>. QED BY <3>2, <3>3
  <2>. QED BY <2>1, <2>2
<1>5. ASSUME NEW p \in ROUTES, FollowItem(p) \/ GoBack(p) PROVE ShellTyped'
  BY <1>1, <1>5, Navigated DEF FollowItem, GoBack
<1>6. ASSUME NEW t, SelectPathTab(t) PROVE ShellTyped'
  <2>1. PICK p : navigate(p) /\ p \in ROUTES
    BY <1>6, ItemsAreRoutes DEF SelectPathTab
  <2>. QED BY <1>1, <1>6, <2>1, Navigated DEF SelectPathTab
<1>7. ASSUME NEW t, SelectTab(t) PROVE ShellTyped'
  <2>1. OnPage' = OnPage /\ LocalTabs' = LocalTabs
    BY <1>7 DEF SelectTab, OnPage, LocalTabs, Surface
  <2>2. probing # "loading"
    BY <1>7 DEF SelectTab, LocalTabs, Surface
  <2>. QED BY <1>1, <1>7, <2>1, <2>2 DEF SelectTab, ShellTyped, ShellTypeOK
<1>8. CASE GoHome
  <2>1. session \in Roles
    <3>1. CASE session = "none"
      <4>1. CASE probing = "loading"
        BY <1>8, <4>1 DEF GoHome, Surface
      <4>2. CASE probing # "loading"
        BY <1>8, <3>1, <4>2 DEF GoHome, Surface
      <4>. QED BY <4>1, <4>2
    <3>. QED BY <1>1, <3>1
  <2>. QED BY <1>1, <1>8, <2>1, Navigated, ItemsAreRoutes DEF GoHome
<1>9. CASE SignIn
  <2>1. ~OnPage'
    BY <1>9 DEF SignIn, OnPage, Surface
  <2>. QED BY <1>1, <1>9, <2>1 DEF SignIn, ShellTyped, ShellTypeOK
<1>10. CASE handleLogout
  BY <1>1, <1>10, Navigated DEF handleLogout, ROUTES
<1>11. CASE UNCHANGED shellVars
  BY <1>1, <1>11 DEF shellVars, ShellTyped, ShellTypeOK, OnPage, LocalTabs, Surface
<1>. QED BY <1>2, <1>3, <1>4, <1>5, <1>6, <1>7, <1>8, <1>9, <1>10, <1>11 DEF ShellNext

-----------------------------------------------------------------------------
(* The types of a deployment.                                               *)

(* A deployment has each image in one revision at most.                     *)
Distinct(h) == \A i, j \in DOMAIN h : h[i] = h[j] => i = j

LEMMA SetImageDistinct ==
  ASSUME NEW S, NEW h \in Seq(S), NEW image \in S, Distinct(h)
  PROVE  Distinct(SetImage(h, image))
<1>1. CASE \E i \in DOMAIN h : h[i] = image
  <2>1. PICK i : i = CHOOSE j \in DOMAIN h : h[j] = image
    OBVIOUS
  <2>2. i \in 1..Len(h) /\ Len(h) \in Nat /\ h[i] = image
    BY <1>1, <2>1
  <2>3. PICK older : older = SubSeq(h, 1, i - 1)
    OBVIOUS
  <2>4. PICK newer : newer = SubSeq(h, i + 1, Len(h))
    OBVIOUS
  <2>5. /\ older \in Seq(S) /\ Len(older) = i - 1
        /\ \A j \in 1..(i - 1) : older[j] = h[j]
    BY <2>2, <2>3, SubSeqProperties
  <2>6. /\ newer \in Seq(S) /\ Len(newer) = Len(h) - i
        /\ \A j \in 1..(Len(h) - i) : newer[j] = h[i + j]
    BY <2>2, <2>4, SubSeqProperties
  <2>7. PICK rest : rest = older \o newer
    OBVIOUS
  <2>8. /\ rest \in Seq(S) /\ Len(rest) = Len(h) - 1
        /\ \A j \in 1..(Len(h) - 1) : rest[j] = IF j < i THEN h[j] ELSE h[j + 1]
    <3>1. /\ rest \in Seq(S) /\ Len(rest) = Len(older) + Len(newer)
          /\ \A j \in 1..(Len(older) + Len(newer)) : rest[j] =
               IF j <= Len(older) THEN older[j] ELSE newer[j - Len(older)]
      BY <2>5, <2>6, <2>7, ConcatProperties
    <3>2. ASSUME NEW j \in 1..(Len(h) - 1)
          PROVE  rest[j] = IF j < i THEN h[j] ELSE h[j + 1]
      <4>. j \in 1..(Len(older) + Len(newer)) /\ j \in Nat /\ i \in Nat /\ Len(older) = i - 1
        BY <2>2, <2>5, <2>6
      <4>0. rest[j] = IF j <= i - 1 THEN older[j] ELSE newer[j - (i - 1)]
        BY <3>1
      <4>1. CASE j < i
        <5>1. j <= i - 1 /\ j \in 1..(i - 1)
          BY <4>1
        <5>. QED BY <2>5, <4>0, <4>1, <5>1
      <4>2. CASE ~ (j < i)
        <5>1. /\ j - (i - 1) \in 1..(Len(h) - i) /\ i + (j - (i - 1)) = j + 1
              /\ ~ (j <= i - 1)
          BY <2>2, <4>2
        <5>. QED BY <2>6, <4>0, <4>2, <5>1
      <4>. QED BY <4>1, <4>2
    <3>. QED BY <2>2, <2>5, <2>6, <3>1, <3>2
  <2>9. PICK g : g = Append(rest, image)
    OBVIOUS
  <2>10. SetImage(h, image) = g
    BY <1>1, <2>1, <2>3, <2>4, <2>7, <2>9 DEF SetImage
  <2>11. /\ DOMAIN g = 1..Len(h) /\ g[Len(h)] = h[i]
         /\ \A j \in 1..(Len(h) - 1) : g[j] = IF j < i THEN h[j] ELSE h[j + 1]
    <3>1. /\ Len(g) = Len(h) /\ g \in Seq(S) /\ g[Len(h)] = image
          /\ \A j \in 1..(Len(h) - 1) : g[j] = rest[j]
      BY <2>2, <2>8, <2>9, AppendProperties
    <3>. QED BY <2>2, <2>8, <3>1
  <2>12. PICK at : at = [j \in 1..Len(h) |-> IF j = Len(h) THEN i
                                             ELSE IF j < i THEN j ELSE j + 1]
    OBVIOUS
  <2>13. /\ \A j \in 1..Len(h) : at[j] \in 1..Len(h) /\ g[j] = h[at[j]]
         /\ \A j, k \in 1..Len(h) : at[j] = at[k] => j = k
    BY <2>2, <2>11, <2>12
  <2>14. ASSUME NEW j \in 1..Len(h), NEW k \in 1..Len(h), g[j] = g[k] PROVE j = k
    <3>1. h[at[j]] = h[at[k]] /\ at[j] \in DOMAIN h /\ at[k] \in DOMAIN h
      BY <2>13, <2>14
    <3>2. at[j] = at[k]
      BY <3>1 DEF Distinct
    <3>. QED BY <2>13, <3>2
  <2>. QED BY <2>10, <2>11, <2>14 DEF Distinct
<1>2. CASE ~ \E i \in DOMAIN h : h[i] = image
  <2>1. SetImage(h, image) = Append(h, image)
    BY <1>2 DEF SetImage
  <2>2. PICK g : g = Append(h, image)
    OBVIOUS
  <2>3. /\ DOMAIN g = 1..(Len(h) + 1) /\ g[Len(h) + 1] = image
        /\ \A j \in 1..Len(h) : g[j] = h[j]
    BY <2>2, AppendProperties
  <2>4. DOMAIN h = 1..Len(h) /\ Len(h) \in Nat
    OBVIOUS
  <2>. QED BY <1>2, <2>1, <2>2, <2>3, <2>4 DEF Distinct
<1>. QED BY <1>1, <1>2

LEMMA UndoneDistinct ==
  ASSUME NEW S, NEW h \in Seq(S), CanUndo(h), Distinct(h)
  PROVE  Distinct(Undone(h))
<1>1. Len(h) \in Nat /\ Len(h) > 1 /\ DOMAIN h = 1..Len(h) /\ \A j \in 1..Len(h) : h[j] \in S
  BY DEF CanUndo
<1>2. PICK n : n = Len(h)
  OBVIOUS
<1>3. PICK older : older = SubSeq(h, 1, n - 2)
  OBVIOUS
<1>4. PICK latest : latest = <<h[n], h[n - 1]>>
  OBVIOUS
<1>5. /\ older \in Seq(S) /\ Len(older) = n - 2 /\ \A j \in 1..(n - 2) : older[j] = h[j]
  <2>1. PICK m : m = n - 2
    OBVIOUS
  <2>2. m \in Int /\ 1 \in Int /\ 0 <= m /\ \A j \in 1..m : h[j] \in S
    BY <1>1, <1>2, <2>1
  <2>3. older = SubSeq(h, 1, m)
    BY <1>3, <2>1
  <2>4. /\ SubSeq(h, 1, m) \in Seq(S)
        /\ Len(SubSeq(h, 1, m)) = IF 1 <= m THEN m - 1 + 1 ELSE 0
        /\ \A j \in 1..(m - 1 + 1) : SubSeq(h, 1, m)[j] = h[1 + j - 1]
    BY <2>2, SubSeqProperties
  <2>5. Len(older) = m /\ \A j \in 1..m : older[j] = h[j]
    BY <2>2, <2>3, <2>4
  <2>. QED BY <2>1, <2>3, <2>4, <2>5
<1>6. latest \in Seq(S) /\ Len(latest) = 2 /\ latest[1] = h[n] /\ latest[2] = h[n - 1]
  BY <1>1, <1>2, <1>4
<1>7. PICK g : g = older \o latest
  OBVIOUS
<1>8. /\ g \in Seq(S) /\ Len(g) = Len(older) + Len(latest)
      /\ \A j \in 1..(Len(older) + Len(latest)) : g[j] =
           IF j <= Len(older) THEN older[j] ELSE latest[j - Len(older)]
  BY <1>5, <1>6, <1>7, ConcatProperties
<1>9. /\ DOMAIN g = 1..n /\ \A j \in 1..(n - 2) : g[j] = h[j]
      /\ g[n - 1] = h[n] /\ g[n] = h[n - 1]
  <2>1. n \in Nat /\ n > 1 /\ Len(g) = n
    BY <1>1, <1>2, <1>5, <1>6, <1>8
  <2>2. \A j \in 1..n : g[j] = IF j <= n - 2 THEN older[j] ELSE latest[j - (n - 2)]
    BY <1>5, <1>6, <1>8, <2>1
  <2>3. \A j \in 1..(n - 2) : j \in 1..n /\ j <= n - 2
    BY <2>1
  <2>4. /\ n - 1 \in 1..n /\ n \in 1..n /\ ~ (n - 1 <= n - 2) /\ ~ (n <= n - 2)
        /\ (n - 1) - (n - 2) = 1 /\ n - (n - 2) = 2
    BY <2>1
  <2>5. g[n - 1] = latest[1] /\ g[n] = latest[2]
    BY <2>2, <2>4
  <2>. QED BY <1>5, <1>6, <1>8, <2>1, <2>2, <2>3, <2>5
<1>10. Undone(h) = g
  BY <1>2, <1>3, <1>4, <1>7 DEF Undone
<1>11. PICK at : at = [j \in 1..n |-> IF j = n THEN n - 1 ELSE IF j = n - 1 THEN n ELSE j]
  OBVIOUS
<1>12. /\ \A j \in 1..n : at[j] \in 1..n /\ g[j] = h[at[j]]
       /\ \A j, k \in 1..n : at[j] = at[k] => j = k
  <2>1. n \in Nat /\ n > 1
    BY <1>1, <1>2
  <2>2. \A j \in 1..n : j = n \/ j = n - 1 \/ j \in 1..(n - 2)
    BY <2>1
  <2>3. \A j \in 1..n : at[j] \in 1..n
    BY <1>11, <2>1
  <2>4. \A j \in 1..n : g[j] = h[at[j]]
    BY <1>9, <1>11, <2>1, <2>2
  <2>5. \A j, k \in 1..n : at[j] = at[k] => j = k
    BY <1>11, <2>1
  <2>. QED BY <2>3, <2>4, <2>5
<1>13. ASSUME NEW j \in 1..n, NEW k \in 1..n, g[j] = g[k] PROVE j = k
  <2>1. h[at[j]] = h[at[k]] /\ at[j] \in DOMAIN h /\ at[k] \in DOMAIN h
    BY <1>1, <1>2, <1>12, <1>13
  <2>2. at[j] = at[k]
    BY <2>1 DEF Distinct
  <2>. QED BY <1>12, <2>2
<1>. QED BY <1>9, <1>10, <1>13 DEF Distinct

(* What RolloutInv does not say of the types.                               *)
RolloutTyped ==
  /\ Distinct(app) /\ serving \in GoodImages /\ passed \subseteq Images
  /\ port \in Deployers \cup {Nobody} /\ deploys \in 0..MaxDeploys /\ overlapped \in BOOLEAN

LEMMA RolloutTypedStart == ASSUME RolloutInit PROVE RolloutTyped
<1>1. Distinct(app)
  <2>1. DOMAIN app = {1}
    BY DEF RolloutInit
  <2>. QED BY <2>1 DEF Distinct
<1>2. 0 \in 0..MaxDeploys
  BY TypesAssumption
<1>. QED BY <1>1, <1>2, ImagesAssumption DEF RolloutInit, RolloutTyped

LEMMA RolloutTypedStep ==
  ASSUME RolloutInv, RolloutTyped, [RolloutNext]_rolloutVars
  PROVE  RolloutTyped'
<1>1. /\ Distinct(app) /\ serving \in GoodImages /\ passed \subseteq Images
      /\ port \in Deployers \cup {Nobody} /\ deploys \in 0..MaxDeploys /\ overlapped \in BOOLEAN
  BY DEF RolloutTyped
<1>2. app \in Seq(Images) /\ job \in [Deployers -> Job]
  BY MoreRevisions DEF RolloutInv, RevisionsOK
<1>3. ASSUME UNCHANGED app, serving' = serving, passed' \subseteq Images,
             port' \in Deployers \cup {Nobody}, UNCHANGED Rest
      PROVE  RolloutTyped'
  BY <1>1, <1>3 DEF RolloutTyped, Distinct, Rest
<1>4. \A d \in Deployers : \A pc, lost : Leave(d, pc, lost) => port' \in Deployers \cup {Nobody}
  BY <1>1 DEF Leave
<1>5. CASE PodsReady
  BY <1>1, <1>5 DEF PodsReady, RolloutTyped, Distinct
<1>6. ASSUME NEW d \in Deployers, NEW image \in Images, NEW via \in {"deploy.ts", "deploy.sh"},
             NEW types \in 0..Types, Start(d, image, via, types)
      PROVE  RolloutTyped'
  <2>1. /\ UNCHANGED <<app, serving, passed, port>> /\ deploys' = deploys + 1
        /\ deploys < MaxDeploys
    BY <1>6 DEF Start, Cluster
  <2>2. overlapped' \in BOOLEAN
    BY <1>6 DEF Start
  <2>. QED BY <1>1, <2>1, <2>2, TypesAssumption DEF RolloutTyped, Distinct
<1>7. ASSUME NEW d \in Deployers, RunDoctor(d) \/ StartTunnel(d) \/ BuildKubeconfig(d)
      PROVE  RolloutTyped'
  BY <1>1, <1>3, <1>4, <1>7 DEF RunDoctor, StartTunnel, BuildKubeconfig, Cluster
<1>8. ASSUME NEW d \in Deployers, RunLivenessChecks(d) \/ RunMigrationJob(d)
      PROVE  RolloutTyped'
  BY <1>1, <1>3, <1>4, <1>8 DEF RunLivenessChecks, RunMigrationJob, Cluster
<1>9. ASSUME NEW d \in Deployers, RollServer(d)
      PROVE  RolloutTyped'
  <2>1. app' = SetImage(app, job[d].image) /\ job[d].image \in Images
    BY <1>2, <1>9 DEF RollServer, Job
  <2>2. Distinct(SetImage(app, job[d].image))
    BY <1>1, <1>2, <2>1, SetImageDistinct
  <2>3. Distinct(app')
    BY <2>1, <2>2
  <2>. QED BY <1>1, <1>9, <2>3 DEF RollServer, RolloutTyped, Distinct, Rest
<1>10. ASSUME NEW d \in Deployers, RolloutStatus(d) \/ WaitForHealthz(d)
       PROVE  RolloutTyped'
  BY <1>1, <1>3, <1>10, ImagesAssumption DEF RolloutStatus, WaitForHealthz, Cluster
<1>11. ASSUME NEW d \in Deployers, Undo(d)
       PROVE  RolloutTyped'
  <2>1. app' = Undone(app) /\ CanUndo(app)
    BY <1>11 DEF Undo
  <2>2. Distinct(Undone(app))
    BY <1>1, <1>2, <2>1, UndoneDistinct
  <2>3. Distinct(app')
    BY <2>1, <2>2
  <2>4. port' \in Deployers \cup {Nobody}
    BY <1>4, <1>11 DEF Undo
  <2>. QED BY <1>1, <1>11, <2>3, <2>4 DEF Undo, RolloutTyped, Distinct, Rest
<1>12. ASSUME NEW d \in Deployers, RollWorker(d) \/ WorkerStatus(d) \/ UndoWorker(d)
       PROVE  RolloutTyped'
  BY <1>1, <1>3, <1>4, <1>12 DEF RollWorker, WorkerStatus, UndoWorker, Cluster
<1>13. ASSUME NEW d \in Deployers, SyncStatic(d) \/ KubectlFails(d) \/ ScriptKilled(d) \/ Killed(d)
       PROVE  RolloutTyped'
  BY <1>1, <1>3, <1>4, <1>13 DEF SyncStatic, KubectlFails, ScriptKilled, Killed, Cluster
<1>14. CASE UNCHANGED rolloutVars
  BY <1>1, <1>3, <1>14 DEF rolloutVars, Rest
<1>. QED BY <1>5, <1>6, <1>7, <1>8, <1>9, <1>10, <1>11, <1>12, <1>13, <1>14 DEF RolloutNext

LEMMA RolloutIsTyped == ASSUME RolloutInv, RolloutTyped PROVE RolloutTypeOK
<1>1. app \in Seq(Images) /\ \A w \in 1..Types : workers[w] \in Seq(Images)
  BY MoreRevisions DEF RolloutInv, RevisionsOK
<1>2. /\ \A i \in DOMAIN app : app[i] \in Images
      /\ \A w \in 1..Types : \A i \in DOMAIN workers[w] : workers[w][i] \in Images
  BY <1>1
<1>. QED BY <1>2 DEF RolloutInv, RevisionsOK, RolloutTyped, Distinct, RolloutTypeOK

-----------------------------------------------------------------------------
(* Where the shell takes its user: the sidebar, the tabs and the redirect    *)
(* lead to pages of the role, with something on them.                       *)

(* Paths and their prefixes.                                                *)

LEMMA PrefixIs ==
  ASSUME NEW S, NEW s \in Seq(S), NEW t \in Seq(S)
  PROVE  IsPrefix(s, t) <=> Len(s) <= Len(t) /\ \A i \in 1..Len(s) : s[i] = t[i]
<1>1. CASE Len(s) <= Len(t)
  <2>1. PICK n : n = Len(s)
    OBVIOUS
  <2>2. n \in Int /\ 1 \in Int /\ n >= 0 /\ (\A i \in 1..n : s[i] \in S /\ t[i] \in S)
    BY <1>1, <2>1
  <2>3. /\ SubSeq(s, 1, n) \in Seq(S)
        /\ Len(SubSeq(s, 1, n)) = IF 1 <= n THEN n - 1 + 1 ELSE 0
        /\ \A i \in 1..(n - 1 + 1) : SubSeq(s, 1, n)[i] = s[1 + i - 1]
    BY <2>2, SubSeqProperties
  <2>4. /\ SubSeq(t, 1, n) \in Seq(S)
        /\ Len(SubSeq(t, 1, n)) = IF 1 <= n THEN n - 1 + 1 ELSE 0
        /\ \A i \in 1..(n - 1 + 1) : SubSeq(t, 1, n)[i] = t[1 + i - 1]
    BY <2>2, SubSeqProperties
  <2>5. PICK a \in Seq(S), b \in Seq(S) : a = SubSeq(s, 1, n) /\ b = SubSeq(t, 1, n)
    BY <2>3, <2>4
  <2>6. /\ Len(a) = n /\ Len(b) = n /\ \A i \in 1..n : a[i] = s[i] /\ b[i] = t[i]
    BY <2>2, <2>3, <2>4, <2>5
  <2>7. ASSUME \A i \in 1..n : s[i] = t[i] PROVE a = b
    <3>1. \A i \in 1..Len(a) : a[i] = b[i]
      BY <2>6, <2>7
    <3>. QED BY <2>6, <3>1, SeqEqual
  <2>8. ASSUME a = b PROVE \A i \in 1..n : s[i] = t[i]
    BY <2>6, <2>8
  <2>9. IsPrefix(s, t) <=> a = b
    BY <1>1, <2>1, <2>5 DEF IsPrefix
  <2>. QED BY <1>1, <2>1, <2>7, <2>8, <2>9
<1>2. CASE ~ (Len(s) <= Len(t))
  BY <1>2 DEF IsPrefix
<1>. QED BY <1>1, <1>2

Words == {"portal", "finance", "cases", "adjustments", "reconciliation", "manager", "executive",
          "profitability", "trends", "hr", "partner", "docs"}

LEMMA RoutesAre ==
  /\ ROUTES \subseteq Seq(Words)
  /\ \A p \in ROUTES : p # LOGIN => Len(p) \in {1, 2} /\ p[1] \in Words
  /\ LOGIN \in ROUTES /\ Len(LOGIN) = 0
<1>1. \A a \in Words : <<a>> \in Seq(Words) /\ Len(<<a>>) = 1 /\ <<a>>[1] = a
  OBVIOUS
<1>2. \A a, b \in Words :
        <<a, b>> \in Seq(Words) /\ Len(<<a, b>>) = 2 /\ <<a, b>>[1] = a /\ <<a, b>>[2] = b
  OBVIOUS
<1>3. LOGIN \in Seq(Words) /\ Len(LOGIN) = 0 /\ LOGIN \in ROUTES
  BY DEF LOGIN, ROUTES
<1>4. \A p \in ROUTES : \/ p = LOGIN \/ \E a \in Words : p = <<a>>
                        \/ \E a, b \in Words : p = <<a, b>>
  BY DEF ROUTES, Words, LOGIN
<1>. HIDE DEF Words
<1>5. ASSUME NEW p \in ROUTES
      PROVE  /\ p \in Seq(Words)
             /\ p # LOGIN => Len(p) \in {1, 2} /\ p[1] \in Words
  <2>1. CASE p = LOGIN
    BY <1>3, <2>1
  <2>2. CASE \E a \in Words : p = <<a>>
    BY <1>1, <2>2
  <2>3. CASE \E a, b \in Words : p = <<a, b>>
    BY <1>2, <2>3
  <2>. QED BY <1>4, <2>1, <2>2, <2>3
<1>. QED BY <1>3, <1>5

(* The pages of a role, by the first segment of their path.                 *)
LEMMA ItemsAre ==
  /\ Items("Producer") = {<<"portal">>, <<"docs">>}
  /\ Items("FinanceAdmin") = {<<"finance">>, <<"finance", "cases">>, <<"finance", "adjustments">>,
                              <<"finance", "reconciliation">>, <<"docs">>}
  /\ Items("Manager") = {<<"manager">>, <<"docs">>}
  /\ Items("Executive") = {<<"executive">>, <<"executive", "profitability">>,
                           <<"executive", "trends">>, <<"executive", "finance">>, <<"docs">>}
  /\ Items("HR") = {<<"hr">>, <<"docs">>}
  /\ Items("ExternalPartner") = {<<"partner">>, <<"docs">>}
<1>1. \A a, b : ToSet(<<a, b>>) = {a, b}
  BY DEF ToSet
<1>2. \A a, b, c, d, e : ToSet(<<a, b, c, d, e>>) = {a, b, c, d, e}
  BY DEF ToSet
<1>3. /\ navItems["Producer"] = <<<<"portal">>, <<"docs">>>>
      /\ navItems["FinanceAdmin"] =
           <<<<"finance">>, <<"finance", "cases">>,
             <<"finance", "adjustments">>, <<"finance", "reconciliation">>, <<"docs">>>>
      /\ navItems["Manager"] = <<<<"manager">>, <<"docs">>>>
  BY DEF navItems, Roles
<1>4. /\ navItems["Executive"] =
           <<<<"executive">>, <<"executive", "profitability">>,
             <<"executive", "trends">>, <<"executive", "finance">>, <<"docs">>>>
      /\ navItems["HR"] = <<<<"hr">>, <<"docs">>>>
      /\ navItems["ExternalPartner"] = <<<<"partner">>, <<"docs">>>>
  BY DEF navItems, Roles
<1>5. /\ Items("Producer") = {<<"portal">>, <<"docs">>}
      /\ Items("Manager") = {<<"manager">>, <<"docs">>}
      /\ Items("HR") = {<<"hr">>, <<"docs">>}
      /\ Items("ExternalPartner") = {<<"partner">>, <<"docs">>}
  BY <1>1, <1>3, <1>4, Zenon DEF Items
<1>6. Items("FinanceAdmin") = {<<"finance">>, <<"finance", "cases">>, <<"finance", "adjustments">>,
                              <<"finance", "reconciliation">>, <<"docs">>}
  <2>1. Items("FinanceAdmin") =
          ToSet(<<<<"finance">>, <<"finance", "cases">>, <<"finance", "adjustments">>,
                             <<"finance", "reconciliation">>, <<"docs">>>>)
    BY <1>3, Zenon DEF Items
  <2>2. ToSet(<<<<"finance">>, <<"finance", "cases">>, <<"finance", "adjustments">>,
                             <<"finance", "reconciliation">>, <<"docs">>>>)
          = {<<"finance">>, <<"finance", "cases">>, <<"finance", "adjustments">>,
                             <<"finance", "reconciliation">>, <<"docs">>}
    BY <1>2
  <2>. QED BY <2>1, <2>2, Zenon
<1>7. Items("Executive") = {<<"executive">>, <<"executive", "profitability">>,
                           <<"executive", "trends">>, <<"executive", "finance">>, <<"docs">>}
  <2>1. Items("Executive") =
          ToSet(<<<<"executive">>, <<"executive", "profitability">>,
                             <<"executive", "trends">>, <<"executive", "finance">>, <<"docs">>>>)
    BY <1>4, Zenon DEF Items
  <2>2. ToSet(<<<<"executive">>, <<"executive", "profitability">>,
                             <<"executive", "trends">>, <<"executive", "finance">>, <<"docs">>>>)
          = {<<"executive">>, <<"executive", "profitability">>,
                             <<"executive", "trends">>, <<"executive", "finance">>, <<"docs">>}
    BY <1>2
  <2>. QED BY <2>1, <2>2, Zenon
<1>. QED BY <1>5, <1>6, <1>7

LEMMA ItemsOpen ==
  ASSUME NEW role \in Roles
  PROVE  /\ Items(role) \subseteq ROUTES \ {LOGIN} /\ Items(role) \subseteq permitted[role]
         /\ landingPathForRole(role) \in Items(role)
         /\ \A item \in Items(role) : item[1] \in {"finance", "executive"} => <<item[1]>> \in Items(role)
<1>1. Items(role) \subseteq ROUTES
  BY ItemsAre DEF Roles, ROUTES
<1>2. LOGIN \notin Items(role)
  BY ItemsAre DEF Roles, LOGIN
<1>3. Items(role) \subseteq permitted[role]
  BY Zenon DEF permitted
<1>4. landingPathForRole(role) \in Items(role)
  BY ItemsAre DEF landingPathForRole, navItems, Roles
<1>5. ASSUME NEW item \in Items(role), item[1] \in {"finance", "executive"}
      PROVE  <<item[1]>> \in Items(role)
  BY <1>5, ItemsAre DEF Roles
<1>. QED BY <1>1, <1>2, <1>3, <1>4, <1>5

(* Whatever the sidebar highlights is open to the role.                     *)
LEMMA HighlightedOpens ==
  ASSUME NEW role \in Roles, NEW p \in ROUTES, Highlighted(role, p) # {}
  PROVE  isPathPermitted(role, p)
  BY ItemsOpen DEF Highlighted, isPathPermitted

LEMMA PrefixOfRoute ==
  ASSUME NEW base \in ROUTES \ {LOGIN}, NEW p \in ROUTES
  PROVE  /\ pathMatchesPrefix(p, base) <=> Len(base) <= Len(p) /\ \A i \in 1..Len(base) : base[i] = p[i]
         /\ pathMatchesPrefix(p, base) => p # LOGIN /\ p[1] = base[1]
         /\ Len(base) = 1 /\ p # LOGIN /\ p[1] = base[1] => pathMatchesPrefix(p, base)
         /\ pathMatchesPrefix(p, base) /\ Len(base) = Len(p) => base = p
<1>1. base \in Seq(Words) /\ p \in Seq(Words) /\ Len(base) \in {1, 2}
      /\ Len(p) \in {0, 1, 2} /\ (p # LOGIN <=> Len(p) # 0)
  BY RoutesAre
<1>2. pathMatchesPrefix(p, base) <=> IsPrefix(base, p)
  BY DEF pathMatchesPrefix
<1>3. pathMatchesPrefix(p, base) <=> Len(base) <= Len(p) /\ \A i \in 1..Len(base) : base[i] = p[i]
  BY <1>1, <1>2, PrefixIs
<1>4. pathMatchesPrefix(p, base) => p # LOGIN /\ p[1] = base[1]
  BY <1>1, <1>3
<1>5. Len(base) = 1 /\ p # LOGIN /\ p[1] = base[1] => pathMatchesPrefix(p, base)
  BY <1>1, <1>3
<1>6. ASSUME pathMatchesPrefix(p, base), Len(base) = Len(p) PROVE base = p
  BY <1>1, <1>3, <1>6, SeqEqual
<1>. QED BY <1>3, <1>4, <1>5, <1>6

LEMMA ItemsHighlighted ==
  ASSUME NEW role \in Roles, NEW item \in Items(role)
  PROVE  Highlighted(role, item) # {}
<1>1. item \in ROUTES \ {LOGIN}
  BY ItemsOpen
<1>2. Len(item) \in Nat
  BY <1>1, RoutesAre
<1>3. pathMatchesPrefix(item, item)
  BY <1>1, <1>2, PrefixOfRoute
<1>. QED BY <1>3 DEF Highlighted

(* A tab of a page that is highlighted is highlighted too.                  *)
LEMMA TabsHighlighted ==
  ASSUME NEW role \in Roles, NEW p \in ROUTES, NEW q \in ROUTES,
         Highlighted(role, p) # {}, p[1] \in {"finance", "executive"}, q # LOGIN, q[1] = p[1]
  PROVE  Highlighted(role, q) # {}
<1>1. PICK item \in Items(role) : pathMatchesPrefix(p, item)
  BY DEF Highlighted
<1>2. item \in ROUTES \ {LOGIN} /\ item[1] = p[1]
  BY <1>1, ItemsOpen, PrefixOfRoute
<1>3. PICK base : base = <<p[1]>>
  OBVIOUS
<1>4. base \in Items(role) /\ base \in ROUTES \ {LOGIN} /\ Len(base) = 1 /\ base[1] = p[1]
  BY <1>2, <1>3, ItemsOpen
<1>5. pathMatchesPrefix(q, base)
  BY <1>4, PrefixOfRoute
<1>. QED BY <1>4, <1>5 DEF Highlighted

(* The item that is shown as active is the page itself if it is an item.    *)
LEMMA ActiveItem ==
  ASSUME NEW role \in Roles, NEW p \in ROUTES, Highlighted(role, p) # {}
  PROVE  /\ activeNavPath(role, p) \in Items(role)
         /\ p \in Items(role) => activeNavPath(role, p) = p
<1>. DEFINE H == Highlighted(role, p)
            Longest(item) == \A other \in H : Len(other) <= Len(item)
<1>1. \A item \in H : /\ item \in ROUTES \ {LOGIN} /\ item \in Items(role)
                      /\ Len(item) \in {1, 2} /\ Len(item) <= Len(p)
                      /\ Len(item) = Len(p) => item = p
  BY ItemsOpen, PrefixOfRoute, RoutesAre DEF Highlighted
<1>2. \E item \in H : Longest(item)
  <2>. HIDE DEF H
  <2>0. \A item \in H : item \in Seq(Words) /\ (Len(item) = 1 \/ Len(item) = 2)
    BY <1>1, RoutesAre
  <2>1. CASE \E item \in H : Len(item) = 2
    <3>1. PICK long \in H : Len(long) = 2
      BY <2>1
    <3>2. ASSUME NEW other \in H PROVE Len(other) <= Len(long)
      <4>1. other \in Seq(Words) /\ long \in Seq(Words) /\ (Len(other) = 1 \/ Len(other) = 2)
        BY <2>0
      <4>2. Len(long) = 2
        BY <3>1
      <4>3. 1 <= 2 /\ 2 <= 2
        OBVIOUS
      <4>. QED BY <4>1, <4>2, <4>3, Zenon
    <3>. QED BY <3>1, <3>2
  <2>2. CASE \A item \in H : Len(item) # 2
    <3>1. \A item \in H : item \in Seq(Words) /\ Len(item) = 1
      BY <2>0, <2>2
    <3>2. PICK short \in H : TRUE
      BY DEF H
    <3>3. ASSUME NEW other \in H PROVE Len(other) <= Len(short)
      <4>1. Len(other) = 1 /\ Len(short) = 1
        BY <3>1
      <4>2. other \in Seq(Words) /\ short \in Seq(Words)
        BY <3>1
      <4>. QED BY <4>1, <4>2
    <3>. QED BY <3>3
  <2>. QED BY <2>1, <2>2
<1>3. PICK active : active = CHOOSE item \in H : Longest(item)
  OBVIOUS
<1>4. active \in H /\ Longest(active)
  BY <1>2, <1>3, Zenon
<1>5. activeNavPath(role, p) = active
  BY <1>3, Zenon DEF activeNavPath
<1>6. ASSUME p \in Items(role) PROVE active = p
  <2>1. Len(p) \in Nat /\ p \in ROUTES \ {LOGIN}
    BY <1>6, ItemsOpen, RoutesAre
  <2>2. p \in H
    <3>1. pathMatchesPrefix(p, p)
      BY <2>1, PrefixOfRoute
    <3>. QED BY <1>6, <3>1 DEF Highlighted
  <2>3. Len(active) = Len(p)
    BY <1>1, <1>4, <2>1, <2>2
  <2>. QED BY <1>1, <1>4, <2>3
<1>. QED BY <1>1, <1>4, <1>5, <1>6

LEMMA TabPaths ==
  /\ \A t \in FinanceTabs : LET p == pathForTab(t, <<"finance">>, "processing")
                            IN  p \in ROUTES /\ p # LOGIN /\ p[1] = "finance"
  /\ \A t \in ExecutiveTabs : LET p == pathForTab(t, <<"executive">>, "dashboard")
                              IN  p \in ROUTES /\ p # LOGIN /\ p[1] = "executive"
<1>1. ASSUME NEW t \in FinanceTabs
      PROVE  LET p == pathForTab(t, <<"finance">>, "processing")
             IN  p \in ROUTES /\ p # LOGIN /\ p[1] = "finance"
  <2>1. PICK p : p = pathForTab(t, <<"finance">>, "processing")
    OBVIOUS
  <2>2. p \in ROUTES
    BY <2>1, ItemsAreRoutes
  <2>3. p = <<"finance">> \/ p = <<"finance", t>>
    <3>1. t \in {"finance", t} /\ "finance" \in {"finance", t}
      OBVIOUS
    <3>2. Append(<<"finance">>, t) = <<"finance", t>>
      BY <3>1, Pairs
    <3>. QED BY <2>1, <3>2 DEF pathForTab
  <2>4. p # LOGIN /\ p[1] = "finance"
    BY <2>3 DEF LOGIN
  <2>. QED BY <2>1, <2>2, <2>4
<1>2. ASSUME NEW t \in ExecutiveTabs
      PROVE  LET p == pathForTab(t, <<"executive">>, "dashboard")
             IN  p \in ROUTES /\ p # LOGIN /\ p[1] = "executive"
  <2>1. PICK p : p = pathForTab(t, <<"executive">>, "dashboard")
    OBVIOUS
  <2>2. p \in ROUTES
    BY <2>1, ItemsAreRoutes
  <2>3. p = <<"executive">> \/ p = <<"executive", t>>
    <3>1. t \in {"executive", t} /\ "executive" \in {"executive", t}
      OBVIOUS
    <3>2. Append(<<"executive">>, t) = <<"executive", t>>
      BY <3>1, Pairs
    <3>. QED BY <2>1, <3>2 DEF pathForTab
  <2>4. p # LOGIN /\ p[1] = "executive"
    BY <2>3 DEF LOGIN
  <2>. QED BY <2>1, <2>2, <2>4
<1>. QED BY <1>1, <1>2

(* Where the program has taken the user: to a page that the sidebar         *)
(* highlights, unless the redirect still has to follow a change of the      *)
(* role.  While a session is asked for, or ended, prevRoleRef is its role.  *)
Guided ==
  /\ probing = "loading" => ~signedOut
  /\ (probing # "no" \/ signedOut) /\ session # "none" /\ path # LOGIN => prevRole = session
  /\ ~typed /\ path # LOGIN =>
       /\ session # "none"
       /\ Highlighted(session, path) # {} \/ (redirect /\ prevRole \notin {"none", session})

LEMMA GuidedStart == ASSUME ShellInit PROVE Guided
  BY DEF ShellInit, Guided

(* A page that is shown, or forbidden, is not LOGIN, and is of a session.   *)
LEMMA SurfaceIs ==
  ASSUME ShellTyped
  PROVE  /\ Surface \notin {"skeleton", "login"} =>
              /\ probing \in {"no", "due"} /\ ~signedOut /\ session \in Roles /\ path # LOGIN
         /\ \A base \in {"finance", "executive"} : Surface = base => path[1] = base
         /\ Surface = "forbidden" => ~isPathPermitted(session, path)
         /\ Surface = "login" => signedOut \/ session = "none"
<1>1. path # LOGIN => path[1] \in Words
  BY RoutesAre DEF ShellTyped, ShellTypeOK
<1>2. session \in Roles \cup {"none"} /\ probing \in {"no", "due", "loading"}
  BY DEF ShellTyped, ShellTypeOK
<1>3. "forbidden" \notin Words /\ "login" \notin Words /\ "skeleton" \notin Words
  BY DEF Words
<1>. HIDE DEF Words
<1>. QED BY <1>1, <1>2, <1>3 DEF Surface

LEMMA GuidedStep ==
  ASSUME ShellTyped, Guided, [ShellNext]_shellVars
  PROVE  Guided'
<1>1. /\ session \in Roles \cup {"none"} /\ probing \in {"no", "due", "loading"}
      /\ path \in ROUTES /\ prevRole \in Roles \cup {"none"}
      /\ signedOut \in BOOLEAN /\ redirect \in BOOLEAN /\ typed \in BOOLEAN
  BY DEF ShellTyped, ShellTypeOK
<1>2. /\ probing = "loading" => ~signedOut
      /\ (probing # "no" \/ signedOut) /\ session # "none" /\ path # LOGIN => prevRole = session
      /\ ~typed /\ path # LOGIN =>
           /\ session # "none"
           /\ Highlighted(session, path) # {} \/ (redirect /\ prevRole \notin {"none", session})
  BY DEF Guided
<1>3. \A role \in Roles : /\ landingPathForRole(role) \in Items(role)
                          /\ \A item \in Items(role) : /\ item # LOGIN /\ item \in ROUTES
                                                       /\ Highlighted(role, item) # {}
  BY ItemsOpen, ItemsHighlighted
<1>4. CASE StartProbe
  BY <1>1, <1>2, <1>4 DEF StartProbe, Guided
<1>5. ASSUME NEW role \in Roles \cup {"none"}, AnswerMe(role) PROVE Guided'
  <2>1. /\ path' = path /\ typed' = typed /\ prevRole' = prevRole /\ redirect' /\ probing' = "no"
        /\ ~signedOut /\ probing = "loading"
    BY <1>2, <1>5 DEF AnswerMe
  <2>2. CASE role = "none"
    <3>1. session' = session /\ signedOut'
      BY <1>5, <2>2 DEF AnswerMe
    <3>. QED BY <1>2, <2>1, <3>1 DEF Guided
  <2>3. CASE role # "none"
    <3>1. session' = role /\ ~signedOut'
      BY <1>5, <2>1, <2>3 DEF AnswerMe
    <3>. QED BY <1>1, <1>2, <2>1, <2>3, <3>1 DEF Guided
  <2>. QED BY <2>2, <2>3
<1>6. CASE Redirect
  <2>1. session' = session /\ probing' = probing /\ signedOut' = signedOut
    BY <1>6 DEF Redirect
  <2>2. CASE probing = "loading" \/ signedOut \/ session = "none"
    <3>1. path' = path /\ prevRole' = prevRole /\ typed' = typed
      BY <1>6, <2>2 DEF Redirect
    <3>. QED BY <1>2, <2>1, <2>2, <3>1 DEF Guided
  <2>3. CASE ~ (probing = "loading" \/ signedOut \/ session = "none")
    <3>1. session \in Roles /\ prevRole' = session
      BY <1>1, <1>6, <2>3 DEF Redirect
    <3>2. CASE path = LOGIN \/ prevRole \notin {"none", session}
      <4>1. path' = landingPathForRole(session)
        BY <1>6, <2>3, <3>2 DEF Redirect, navigate
      <4>2. path' \in Items(session) /\ Highlighted(session, path') # {}
        BY <1>3, <3>1, <4>1
      <4>. QED BY <1>2, <2>1, <2>3, <3>1, <4>2 DEF Guided
    <3>3. CASE ~ (path = LOGIN \/ prevRole \notin {"none", session})
      <4>1. path' = path /\ typed' = typed
        BY <1>6, <2>3, <3>3 DEF Redirect
      <4>. QED BY <1>2, <2>1, <2>3, <3>1, <3>3, <4>1 DEF Guided
    <3>. QED BY <3>2, <3>3
  <2>. QED BY <2>2, <2>3
<1>7. ASSUME Surface \notin {"skeleton", "login"}, UNCHANGED <<session, probing, signedOut, prevRole>>,
             path' # LOGIN, typed' \/ Highlighted(session, path') # {}
                             \/ (redirect' /\ prevRole \notin {"none", session})
      PROVE  Guided'
  <2>1. ~signedOut /\ session \in Roles /\ path # LOGIN /\ probing # "loading"
    BY <1>7, SurfaceIs
  <2>2. session' = session /\ probing' = probing /\ signedOut' = signedOut /\ prevRole' = prevRole
    BY <1>7
  <2>3. prevRole = session \/ probing = "no"
    BY <1>2, <2>1 DEF Roles
  <2>4. PICK q, r : q = path' /\ r = redirect'
    OBVIOUS
  <2>5. session # "none"
    BY <2>1 DEF Roles
  <2>6. ~typed' => Highlighted(session, q) # {} \/ (r /\ prevRole \notin {"none", session})
    BY <1>7, <2>4
  <2>7. (probing' # "no" \/ signedOut') /\ session' # "none" /\ path' # LOGIN => prevRole' = session'
    BY <2>1, <2>2, <2>3
  <2>8. probing' = "loading" => ~signedOut'
    BY <2>1, <2>2
  <2>9. Highlighted(session, q) # {} <=> Highlighted(session', path') # {}
    BY <2>2, <2>4
  <2>. QED BY <2>2, <2>4, <2>5, <2>6, <2>7, <2>8, <2>9 DEF Guided
<1>8. ASSUME NEW p \in ROUTES, FollowItem(p) PROVE Guided'
  <2>1. Surface \notin {"skeleton", "login"} /\ p \in Items(session) /\ path' = p
    BY <1>8 DEF FollowItem, navigate
  <2>2. session \in Roles
    BY <2>1, SurfaceIs
  <2>3. p # LOGIN /\ Highlighted(session, p) # {}
    BY <1>3, <2>1, <2>2
  <2>. QED BY <1>7, <1>8, <2>1, <2>3 DEF FollowItem
<1>9. ASSUME NEW p \in ROUTES, GoBack(p) PROVE Guided'
  <2>1. ~signedOut /\ session \in Roles /\ path # LOGIN /\ probing # "loading"
    BY <1>9, SurfaceIs DEF GoBack
  <2>. QED BY <1>2, <1>9, <2>1 DEF GoBack, Guided, navigate
<1>10. ASSUME NEW t, SelectPathTab(t) PROVE Guided'
  <2>1. PICK base \in {<<"finance">>, <<"executive">>} :
          /\ Surface = base[1]
          /\ t \in IF base = <<"finance">> THEN FinanceTabs ELSE ExecutiveTabs
          /\ navigate(pathForTab(t, base, IF base = <<"finance">> THEN "processing" ELSE "dashboard"))
    BY <1>10 DEF SelectPathTab
  <2>2. PICK q : q = path'
    OBVIOUS
  <2>3. q \in ROUTES /\ q # LOGIN /\ q[1] = base[1]
    <3>1. CASE base = <<"finance">>
      <4>1. t \in FinanceTabs /\ q = pathForTab(t, <<"finance">>, "processing")
        BY <2>1, <2>2, <3>1 DEF navigate
      <4>. QED BY <3>1, <4>1, TabPaths
    <3>2. CASE base = <<"executive">>
      <4>1. t \in ExecutiveTabs /\ q = pathForTab(t, <<"executive">>, "dashboard")
        <5>1. <<"executive">> # <<"finance">>
          OBVIOUS
        <5>. QED BY <2>1, <2>2, <3>2, <5>1 DEF navigate
      <4>. QED BY <3>2, <4>1, TabPaths
    <3>. QED BY <3>1, <3>2
  <2>4. base[1] \in {"finance", "executive"}
    OBVIOUS
  <2>5. /\ Surface \notin {"skeleton", "login"} /\ path[1] = base[1]
        /\ session \in Roles /\ path # LOGIN
    BY <2>1, <2>4, SurfaceIs
  <2>6. Highlighted(session, path) # {} => Highlighted(session, q) # {}
    BY <1>1, <2>3, <2>4, <2>5, TabsHighlighted
  <2>7. /\ UNCHANGED <<session, probing, signedOut, prevRole, typed>> /\ redirect'
    BY <1>10 DEF SelectPathTab
  <2>. QED BY <1>2, <1>7, <2>2, <2>3, <2>5, <2>6, <2>7
<1>11. ASSUME NEW t, SelectTab(t) PROVE Guided'
  BY <1>2, <1>11 DEF SelectTab, Guided
<1>12. CASE GoHome
  <2>1. Surface \notin {"skeleton", "login"} /\ path' = landingPathForRole(session)
    BY <1>12 DEF GoHome, navigate
  <2>2. session \in Roles
    BY <2>1, SurfaceIs
  <2>3. path' # LOGIN /\ Highlighted(session, path') # {}
    BY <1>3, <2>1, <2>2
  <2>. QED BY <1>7, <1>12, <2>1, <2>3 DEF GoHome
<1>13. CASE SignIn
  <2>1. signedOut \/ session = "none"
    BY <1>13, SurfaceIs DEF SignIn
  <2>. QED BY <1>2, <1>13, <2>1 DEF SignIn, Guided
<1>14. CASE handleLogout
  <2>1. path' = LOGIN /\ probing' = "due"
    BY <1>14 DEF handleLogout, navigate
  <2>. QED BY <2>1 DEF Guided
<1>15. CASE UNCHANGED shellVars
  BY <1>2, <1>15 DEF shellVars, Guided
<1>. QED BY <1>4, <1>5, <1>6, <1>8, <1>9, <1>10, <1>11, <1>12, <1>13, <1>14, <1>15 DEF ShellNext

(* What is on the pages.                                                    *)
LEMMA PagesAreFilled ==
  ASSUME NEW role, NEW t
  PROVE  /\ ProducerPortal(t) # {}
         /\ t \in FinanceTabs => FinancePage(role, t) # {}
         /\ t \in {"placements", "approvals", "team", "default"} => ManagerHome(t) # {}
         /\ t \in {"placements", "acknowledgment", "draw", "default"} => HRHome(t) # {}
<1>1. ProducerPortal(t) # {}
  BY DEF ProducerPortal
<1>2. ASSUME t \in FinanceTabs PROVE FinancePage(role, t) # {}
  BY <1>2 DEF FinancePage, FinanceTabs
<1>3. ASSUME t \in {"placements", "approvals", "team", "default"} PROVE ManagerHome(t) # {}
  BY <1>3 DEF ManagerHome
<1>4. ASSUME t \in {"placements", "acknowledgment", "draw", "default"} PROVE HRHome(t) # {}
  BY <1>4 DEF HRHome
<1>. QED BY <1>1, <1>2, <1>3, <1>4

LEMMA ExecutiveIsFilled ==
  ASSUME NEW role, NEW t \in ExecutiveTabs, NEW inner \in FinanceTabs \cup {"default"}
  PROVE  ExecutiveDashboard(role, t, inner) # {}
<1>1. CASE t = "finance"
  <2>1. PICK i : i = IF inner = "default" THEN "processing" ELSE inner
    OBVIOUS
  <2>2. i \in FinanceTabs
    BY <2>1 DEF FinanceTabs
  <2>3. FinancePage(role, i) # {}
    BY <2>2, PagesAreFilled
  <2>4. ExecutiveDashboard(role, t, inner) = FinancePage(role, i)
    BY <1>1, <2>1 DEF ExecutiveDashboard
  <2>. QED BY <2>3, <2>4
<1>2. CASE t # "finance"
  BY <1>2 DEF ExecutiveDashboard, ExecutiveTabs
<1>. QED BY <1>1, <1>2

(* The tab that a path of /finance or /executive stands for.                *)
LEMMA TabOfPath ==
  ASSUME NEW p \in ROUTES \ {LOGIN}
  PROVE  /\ p[1] = "finance" => tabFromPath(p, <<"finance">>, "processing") \in FinanceTabs
         /\ p[1] = "executive" =>
              /\ tabFromPath(p, <<"executive">>, "dashboard") \in ExecutiveTabs
              /\ tabFromPath(p, <<"executive">>, "dashboard") = "finance" => p = <<"executive", "finance">>
         /\ p[1] \in {"portal", "finance", "manager", "executive", "hr", "partner", "docs"}
         /\ p[1] = "docs" => p = <<"docs">>
<1>1. \A a, b : /\ Len(<<a>>) = 1 /\ <<a>>[1] = a
                /\ Len(<<a, b>>) = 2 /\ <<a, b>>[1] = a /\ <<a, b>>[2] = b
  OBVIOUS
<1>2. p[1] \in {"portal", "finance", "manager", "executive", "hr", "partner", "docs"}
  BY DEF ROUTES, LOGIN
<1>3. p[1] = "docs" => p = <<"docs">>
  BY DEF ROUTES, LOGIN
<1>4. ASSUME p[1] = "finance" PROVE tabFromPath(p, <<"finance">>, "processing") \in FinanceTabs
  <2>1. p = <<"finance">> \/ (Len(p) = 2 /\ p[2] \in FinanceTabs)
    BY <1>4 DEF ROUTES, LOGIN, FinanceTabs
  <2>2. "processing" \in FinanceTabs
    BY DEF FinanceTabs
  <2>. QED BY <1>1, <2>1, <2>2 DEF tabFromPath
<1>5. ASSUME p[1] = "executive"
      PROVE  /\ tabFromPath(p, <<"executive">>, "dashboard") \in ExecutiveTabs
             /\ tabFromPath(p, <<"executive">>, "dashboard") = "finance" => p = <<"executive", "finance">>
  <2>1. p = <<"executive">> \/ (Len(p) = 2 /\ p[2] \in ExecutiveTabs)
    BY <1>5 DEF ROUTES, LOGIN, ExecutiveTabs
  <2>2. "dashboard" \in ExecutiveTabs /\ "dashboard" # "finance"
    BY DEF ExecutiveTabs
  <2>3. Len(p) = 2 /\ p[2] = "finance" => p = <<"executive", "finance">>
    BY <1>5 DEF ROUTES, LOGIN
  <2>. QED BY <1>1, <2>1, <2>2, <2>3 DEF tabFromPath
<1>. QED BY <1>2, <1>3, <1>4, <1>5

LEMMA MountedIsFilled ==
  ASSUME ShellTyped, OnPage, path # <<"docs">>
  PROVE  Mounted # {}
<1>1. /\ path \in ROUTES \ {LOGIN} /\ Surface = path[1]
      /\ tab \in LocalTabs \cup {"default"}
  BY SurfaceIs DEF ShellTyped, ShellTypeOK, OnPage, Surface
<1>2. PICK p, t, s : p = path /\ t = tab /\ s = Surface
  OBVIOUS
<1>3. /\ s = p[1] /\ p \in ROUTES \ {LOGIN}
      /\ s \in {"portal", "finance", "manager", "executive", "hr", "partner"}
  BY <1>1, <1>2, TabOfPath
<1>4. CASE s = "portal"
  BY <1>2, <1>4, PagesAreFilled DEF Mounted
<1>5. CASE s = "finance"
  BY <1>2, <1>3, <1>5, PagesAreFilled, TabOfPath DEF Mounted
<1>6. CASE s = "manager"
  <2>1. t \in {"placements", "approvals", "team", "default"}
    BY <1>1, <1>2, <1>6 DEF LocalTabs
  <2>. QED BY <1>2, <1>6, <2>1, PagesAreFilled DEF Mounted
<1>7. CASE s = "executive"
  <2>1. t \in FinanceTabs \cup {"default"}
    BY <1>1, <1>2, <1>7 DEF LocalTabs
  <2>2. tabFromPath(p, <<"executive">>, "dashboard") \in ExecutiveTabs
    BY <1>3, <1>7, TabOfPath
  <2>. QED BY <1>2, <1>7, <2>1, <2>2, ExecutiveIsFilled DEF Mounted
<1>8. CASE s = "hr"
  <2>1. t \in {"placements", "acknowledgment", "draw", "default"}
    BY <1>1, <1>2, <1>8 DEF LocalTabs
  <2>. QED BY <1>2, <1>8, <2>1, PagesAreFilled DEF Mounted
<1>9. CASE s = "partner"
  BY <1>2, <1>9 DEF Mounted
<1>. QED BY <1>3, <1>4, <1>5, <1>6, <1>7, <1>8, <1>9

LEMMA GuidedPages ==
  ASSUME ShellTyped, Guided
  PROVE  SidebarOpensPage /\ HighlightTells
<1>1. ASSUME ~redirect, ~typed, path # LOGIN, Surface \notin {"skeleton", "login"}
      PROVE  /\ session \in Roles /\ path \in ROUTES /\ Highlighted(session, path) # {}
             /\ isPathPermitted(session, path)
  <2>1. session \in Roles /\ path \in ROUTES
    BY <1>1, SurfaceIs DEF ShellTyped, ShellTypeOK
  <2>2. Highlighted(session, path) # {}
    BY <1>1 DEF Guided
  <2>. QED BY <2>1, <2>2, HighlightedOpens
<1>2. ~redirect /\ ~typed => Surface # "forbidden"
  BY <1>1, SurfaceIs
<1>3. SidebarOpensPage
  BY <1>2, MountedIsFilled DEF SidebarOpensPage, Opened
<1>4. ASSUME Opened
      PROVE  LET item == activeNavPath(session, path)
             IN item \in Items(session) /\ (path \in Items(session) => item = path)
  <2>1. Surface \notin {"skeleton", "login"} /\ path # LOGIN /\ ~redirect /\ ~typed
    BY <1>4, SurfaceIs DEF Opened, OnPage
  <2>. QED BY <1>1, <2>1, ActiveItem
<1>. QED BY <1>3, <1>4 DEF HighlightTells

-----------------------------------------------------------------------------
(* What those pages ask for is served: for every role, the matrix has a line *)
(* that lets the request through, there is a route, and the test in the      *)
(* handler does not turn it down.                                            *)

(* What the matrix, the routes and the handlers answer.                     *)
LEMMA PrefixesHold ==
  ASSUME NEW S, NEW t \in Seq(S)
  PROVE  /\ IsPrefix(<<>>, t)
         /\ Len(t) >= 1 => IsPrefix(<<t[1]>>, t)
         /\ Len(t) >= 2 => IsPrefix(<<t[1], t[2]>>, t)
         /\ \A a, b \in S : IsPrefix(<<a, b>>, t) => Len(t) >= 2 /\ t[1] = a /\ t[2] = b
<1>1. Len(t) \in Nat /\ \A i \in 1..Len(t) : t[i] \in S
  OBVIOUS
<1>2. \A s \in Seq(S) : IsPrefix(s, t) <=> Len(s) <= Len(t) /\ \A i \in 1..Len(s) : s[i] = t[i]
  BY PrefixIs
<1>3. IsPrefix(<<>>, t)
  <2>1. PICK s : s = <<>>
    OBVIOUS
  <2>2. s \in Seq(S) /\ Len(s) = 0 /\ \A i \in 1..0 : FALSE
    BY <2>1
  <2>3. Len(s) <= Len(t) /\ \A i \in 1..Len(s) : s[i] = t[i]
    BY <1>1, <2>2
  <2>4. IsPrefix(s, t)
    BY <1>2, <2>2, <2>3
  <2>. QED BY <2>1, <2>4
<1>4. ASSUME Len(t) >= 1 PROVE IsPrefix(<<t[1]>>, t)
  <2>1. PICK s : s = <<t[1]>>
    OBVIOUS
  <2>2. s \in Seq(S) /\ Len(s) = 1 /\ s[1] = t[1]
    BY <1>1, <1>4, <2>1
  <2>3. IsPrefix(s, t)
    BY <1>1, <1>2, <1>4, <2>2
  <2>. QED BY <2>1, <2>3
<1>5. \A a, b \in S : <<a, b>> \in Seq(S) /\ Len(<<a, b>>) = 2 /\ <<a, b>>[1] = a /\ <<a, b>>[2] = b
  OBVIOUS
<1>6. ASSUME Len(t) >= 2 PROVE IsPrefix(<<t[1], t[2]>>, t)
  <2>1. PICK s : s = <<t[1], t[2]>>
    OBVIOUS
  <2>2. s \in Seq(S) /\ Len(s) = 2 /\ s[1] = t[1] /\ s[2] = t[2]
    BY <1>1, <1>6, <2>1
  <2>3. IsPrefix(s, t)
    BY <1>1, <1>2, <1>6, <2>2
  <2>. QED BY <2>1, <2>3
<1>7. ASSUME NEW a \in S, NEW b \in S, IsPrefix(<<a, b>>, t)
      PROVE  Len(t) >= 2 /\ t[1] = a /\ t[2] = b
  <2>1. PICK s : s = <<a, b>>
    OBVIOUS
  <2>2. s \in Seq(S) /\ Len(s) = 2 /\ s[1] = a /\ s[2] = b
    BY <1>5, <2>1
  <2>3. IsPrefix(s, t)
    BY <1>7, <2>1
  <2>4. Len(t) >= 2 /\ \A i \in 1..2 : s[i] = t[i]
    BY <1>2, <2>2, <2>3
  <2>. QED BY <2>2, <2>4
<1>8. \A a, b \in S : IsPrefix(<<a, b>>, t) => Len(t) >= 2 /\ t[1] = a /\ t[2] = b
  BY <1>7, Zenon
<1>. QED BY <1>3, <1>4, <1>6, <1>8, Zenon

LEMMA Permitted ==
  ASSUME NEW role \in Roles, NEW m, NEW S, NEW t \in Seq(S),
         \/ Ask("*", <<>>) \in ROLE_PERMISSIONS[role] \/ Ask(m, <<>>) \in ROLE_PERMISSIONS[role]
         \/ Len(t) >= 1 /\ Ask(m, <<t[1]>>) \in ROLE_PERMISSIONS[role]
         \/ Len(t) >= 2 /\ Ask(m, <<t[1], t[2]>>) \in ROLE_PERMISSIONS[role]
  PROVE  isPermitted(role, Ask(m, t))
<1>1. \A n, s : Ask(n, s).method = n /\ Ask(n, s).path = s
  BY DEF Ask
<1>2. ASSUME NEW n \in {"*", m}, NEW s, Ask(n, s) \in ROLE_PERMISSIONS[role], IsPrefix(s, t)
      PROVE  isPermitted(role, Ask(m, t))
  <2>1. PICK p, r : p = Ask(n, s) /\ r = Ask(m, t)
    OBVIOUS
  <2>2. p.method \in {"*", r.method} /\ IsPrefix(p.path, r.path)
    BY <1>1, <1>2, <2>1, Zenon
  <2>3. p \in ROLE_PERMISSIONS[role]
    BY <1>2, <2>1, Zenon
  <2>. QED BY <2>1, <2>2, <2>3, Zenon DEF isPermitted
<1>3. IsPrefix(<<>>, t) /\ (Len(t) >= 1 => IsPrefix(<<t[1]>>, t))
      /\ (Len(t) >= 2 => IsPrefix(<<t[1], t[2]>>, t))
  BY PrefixesHold, Zenon
<1>. QED BY <1>2, <1>3, Zenon

LEMMA Concatenated ==
  ASSUME NEW S, NEW a \in S, NEW b \in S, NEW c \in S, NEW d \in S
  PROVE  <<a, b>> \o <<c>> = <<a, b, c>> /\ <<a, b>> \o <<c, d>> = <<a, b, c, d>>
<1>1. /\ <<a, b>> \in Seq(S) /\ Len(<<a, b>>) = 2
      /\ <<c>> \in Seq(S) /\ Len(<<c>>) = 1 /\ <<c>>[1] = c
      /\ <<c, d>> \in Seq(S) /\ Len(<<c, d>>) = 2 /\ <<c, d>>[1] = c /\ <<c, d>>[2] = d
  OBVIOUS
<1>2. <<a, b>> \o <<c>> = <<a, b, c>>
  <2>1. PICK r : r = <<a, b>> \o <<c>>
    OBVIOUS
  <2>2. r \in Seq(S) /\ Len(r) = 3 /\ r[1] = a /\ r[2] = b /\ r[3] = c
    BY <1>1, <2>1, ConcatProperties
  <2>3. <<a, b, c>> \in Seq(S) /\ Len(<<a, b, c>>) = 3 /\ \A i \in 1..3 : r[i] = <<a, b, c>>[i]
    BY <2>2
  <2>. QED BY <2>1, <2>2, <2>3, SeqEqual
<1>3. <<a, b>> \o <<c, d>> = <<a, b, c, d>>
  <2>1. PICK r : r = <<a, b>> \o <<c, d>>
    OBVIOUS
  <2>2. r \in Seq(S) /\ Len(r) = 4 /\ r[1] = a /\ r[2] = b /\ r[3] = c /\ r[4] = d
    BY <1>1, <2>1, ConcatProperties
  <2>3. <<a, b, c, d>> \in Seq(S) /\ Len(<<a, b, c, d>>) = 4
        /\ \A i \in 1..4 : r[i] = <<a, b, c, d>>[i]
    BY <2>2
  <2>. QED BY <2>1, <2>2, <2>3, SeqEqual
<1>. QED BY <1>2, <1>3

LEMMA PlacementPaths ==
  \A a, b : /\ OfPlacement(<<a>>) = <<"placements", "_", a>>
            /\ OfPlacement(<<a, b>>) = <<"placements", "_", a, b>>
<1>1. ASSUME NEW a, NEW b
      PROVE  OfPlacement(<<a>>) = <<"placements", "_", a>> /\ OfPlacement(<<a, b>>) = <<"placements", "_", a, b>>
  <2>1. PICK S : S = {"placements", "_", a, b}
    OBVIOUS
  <2>2. "placements" \in S /\ "_" \in S /\ a \in S /\ b \in S
    BY <2>1
  <2>. QED BY <2>2, Concatenated DEF OfPlacement
<1>. QED BY <1>1

(* The requests that only FinanceAdmin may make, by their paths.            *)
LEMMA FinanceOnlyIs ==
  ASSUME NEW m, NEW t, Ask(m, t) \in FinanceOnly
  PROVE  \/ m = "GET" /\ t \in {<<"placements", "_", "adjustments">>, <<"reconciliation">>}
         \/ m = "PATCH" /\ t = <<"placements", "_">>
         \/ m = "POST" /\ t[1] \in {"agents", "placements", "reconciliation", "exceptions"}
<1>1. /\ OfPlacement(<<"adjustments">>) = <<"placements", "_", "adjustments">>
      /\ OfPlacement(<<"guarantee", "trigger">>) = <<"placements", "_", "guarantee", "trigger">>
  BY PlacementPaths
<1>2. \A n, s : Ask(n, s) = Ask(m, t) => n = m /\ s = t
  BY DEF Ask
<1>3. CASE m = "GET" \/ m = "PATCH"
  <2>1. \A p : Ask(m, t) # Ask("POST", p)
    BY <1>2, <1>3
  <2>2. \/ Ask(m, t) = Ask("GET", <<"placements", "_", "adjustments">>)
        \/ Ask(m, t) = Ask("GET", <<"reconciliation">>)
        \/ Ask(m, t) = Ask("PATCH", <<"placements", "_">>)
    BY <1>1, <2>1 DEF FinanceOnly, GET, POST, PATCH
  <2>. QED BY <1>2, <2>2
<1>4. CASE m # "GET" /\ m # "PATCH"
  <2>1. \A p : Ask(m, t) # Ask("GET", p) /\ Ask(m, t) # Ask("PATCH", p)
    BY <1>2, <1>4
  <2>2. \/ Ask(m, t) = Ask("POST", <<"agents", "credentials">>)
        \/ Ask(m, t) = Ask("POST", <<"placements">>)
        \/ Ask(m, t) = Ask("POST", <<"placements", "import">>)
        \/ Ask(m, t) = Ask("POST", OfPlacement(<<"adjustments">>))
        \/ Ask(m, t) = Ask("POST", OfPlacement(<<"guarantee", "trigger">>))
        \/ Ask(m, t) = Ask("POST", <<"reconciliation", "_", "acknowledge">>)
        \/ \E step \in {"approve", "reject"} : Ask(m, t) = Ask("POST", <<"exceptions", "_", step>>)
    BY <2>1, Zenon DEF FinanceOnly, GET, POST, PATCH
  <2>3. \A a, b, c, d : /\ <<a>>[1] = a /\ <<a, b>>[1] = a /\ <<a, b, c>>[1] = a
                        /\ <<a, b, c, d>>[1] = a
    OBVIOUS
  <2>4. \A p : Ask(m, t) = Ask("POST", p) => m = "POST" /\ t = p
    BY <1>2
  <2>. DEFINE First == {"agents", "placements", "reconciliation", "exceptions"}
  <2>5. \A step : <<"exceptions", "_", step>>[1] \in First
    OBVIOUS
  <2>6. /\ <<"agents", "credentials">>[1] \in First /\ <<"placements">>[1] \in First
        /\ <<"placements", "import">>[1] \in First
        /\ <<"reconciliation", "_", "acknowledge">>[1] \in First
    OBVIOUS
  <2>7. OfPlacement(<<"adjustments">>)[1] \in First /\ OfPlacement(<<"guarantee", "trigger">>)[1] \in First
    <3>1. /\ <<"placements", "_", "adjustments">>[1] \in First
          /\ <<"placements", "_", "guarantee", "trigger">>[1] \in First
      OBVIOUS
    <3>. QED BY <1>1, <3>1, Zenon
  <2>. HIDE DEF First
  <2>8. ASSUME NEW p, Ask(m, t) = Ask("POST", p), p[1] \in First PROVE m = "POST" /\ t[1] \in First
    BY <2>4, <2>8
  <2>9. m = "POST" /\ t[1] \in First
    <3>1. CASE \E step \in {"approve", "reject"} : Ask(m, t) = Ask("POST", <<"exceptions", "_", step>>)
      BY <2>5, <2>8, <3>1, Zenon
    <3>2. CASE ~ \E step \in {"approve", "reject"} : Ask(m, t) = Ask("POST", <<"exceptions", "_", step>>)
      BY <2>2, <2>6, <2>7, <2>8, <3>2, Zenon
    <3>. QED BY <3>1, <3>2
  <2>. QED BY <2>9 DEF First
<1>. QED BY <1>3, <1>4

(* The tests of role in the handlers, by the segments of the path.          *)
LEMMA HandlerAllows ==
  ASSUME NEW role \in Roles, NEW m, NEW S, NEW t \in Seq(S), NEW n, n = Len(t), {"me", "team"} \subseteq S,
         Ask(m, t) \in FinanceOnly => role = "FinanceAdmin",
         t[1] = "placements" => n <= 2 /\ (n = 2 => role \in PLACEMENT_LEDGER_ROLES),
         t[1] = "partner" => role \in {"ExternalPartner", "FinanceAdmin"},
         t[1] \in {"commission-runs", "analytics"} => role \in {"FinanceAdmin", "Executive"},
         t[1] = "me" /\ n >= 2 /\ t[2] = "team" => role \in requireManagerOrAdmin,
         t[1] = "disputes" => role \in {"FinanceAdmin", "Executive", "Manager"},
         t[1] = "producers" => role = "HR",
         t[1] = "plans" /\ n = 5 => role = "Producer",
         t[1] = "me" /\ n = 2 /\ t[2] = "clawback-exposure" => role = "Producer",
         t[1] = "me" /\ n = 2 /\ t[2] = "payouts" => role # "ExternalPartner"
  PROVE  role \in HandlerRoles(Ask(m, t))
<1>1. PICK r : r = Ask(m, t)
  OBVIOUS
<1>2. r.path = t /\ \A k, s : r = Ask(k, s) => s = t
  BY <1>1 DEF Ask
<1>3. \A a, b, c, d, e :
        /\ <<a>>[1] = a /\ Len(<<a>>) = 1
        /\ <<a, b>>[1] = a /\ <<a, b>>[2] = b /\ Len(<<a, b>>) = 2
        /\ <<a, b, c>>[1] = a /\ Len(<<a, b, c>>) = 3
        /\ <<a, b, c, d>>[1] = a /\ Len(<<a, b, c, d>>) = 4
        /\ <<a, b, c, d, e>>[1] = a /\ Len(<<a, b, c, d, e>>) = 5
  OBVIOUS
<1>4. IsPrefix(<<"me", "team">>, t) => role \in requireManagerOrAdmin
  BY PrefixesHold
<1>5. ASSUME t = <<"placements", "ledger">> PROVE role \in PLACEMENT_LEDGER_ROLES
  BY <1>3, <1>5
<1>6. ASSUME t = <<"partner", "placements">> PROVE role \in {"ExternalPartner", "FinanceAdmin"}
  BY <1>3, <1>6
<1>7. ASSUME t = <<"commission-runs">> PROVE role \in {"FinanceAdmin", "Executive"}
  BY <1>3, <1>7
<1>8. ASSUME t = <<"analytics", "executive">> PROVE role \in {"FinanceAdmin", "Executive"}
  BY <1>3, <1>8
<1>9. ASSUME t = <<"disputes", "_", "resolve">> PROVE role \in {"FinanceAdmin", "Executive", "Manager"}
  BY <1>3, <1>9
<1>10. ASSUME t = <<"producers">> PROVE role = "HR"
  BY <1>3, <1>10
<1>17. ASSUME t = <<"producers", "_", "draw-balance">> PROVE role = "HR"
  BY <1>3, <1>17
<1>11. ASSUME t = <<"plans", "_", "versions", "_", "acknowledge">> PROVE role = "Producer"
  BY <1>3, <1>11
<1>12. ASSUME t = <<"me", "clawback-exposure">> PROVE role = "Producer"
  BY <1>3, <1>12
<1>13. ASSUME t = <<"me", "payouts">> PROVE role # "ExternalPartner"
  BY <1>3, <1>13
<1>14. t # OfPlacement(<<"clawback">>) /\ \A step : t # OfPlacement(<<"attribution", step>>)
  <2>1. /\ OfPlacement(<<"clawback">>) = <<"placements", "_", "clawback">>
        /\ \A step : OfPlacement(<<"attribution", step>>) = <<"placements", "_", "attribution", step>>
    BY PlacementPaths
  <2>2. ASSUME t = <<"placements", "_", "clawback">> PROVE FALSE
    <3>1. n = 3 /\ t[1] = "placements"
      BY <1>3, <2>2
    <3>. QED BY <3>1
  <2>3. ASSUME NEW step, t = <<"placements", "_", "attribution", step>> PROVE FALSE
    <3>1. n = 4 /\ t[1] = "placements"
      BY <1>3, <2>3
    <3>. QED BY <3>1
  <2>. QED BY <2>1, <2>2, <2>3, Zenon
<1>15. ASSUME NEW s, r = GET(s) PROVE t = s
  BY <1>2, <1>15 DEF GET
<1>. DEFINE ledger == r = GET(<<"placements", "ledger">>)
            partner == r = GET(<<"partner", "placements">>)
            overview == r \in {GET(<<"commission-runs">>), GET(<<"analytics", "executive">>)}
            team == IsPrefix(<<"me", "team">>, r.path)
            resolve == r.path = <<"disputes", "_", "resolve">>
            producers == r.path = <<"producers">>
            draw == r.path = <<"producers", "_", "draw-balance">>
            acknowledge == r.path = <<"plans", "_", "versions", "_", "acknowledge">>
            clawback == r.path = OfPlacement(<<"clawback">>)
            exposure == r.path = <<"me", "clawback-exposure">>
            payouts == r.path = <<"me", "payouts">>
            split == r.path \in {OfPlacement(<<"attribution", step>>) : step \in {"approve", "reject"}}
<1>18. HandlerRoles(r) =
         CASE r \in FinanceOnly -> {"FinanceAdmin"}
           [] ledger -> PLACEMENT_LEDGER_ROLES
           [] partner -> {"ExternalPartner", "FinanceAdmin"}
           [] overview -> {"FinanceAdmin", "Executive"}
           [] team -> requireManagerOrAdmin
           [] resolve -> {"FinanceAdmin", "Executive", "Manager"}
           [] producers -> {"HR"}
           [] draw -> {"HR", "Producer"}
           [] acknowledge -> {"Producer"}
           [] clawback -> {"FinanceAdmin", "Manager"}
           [] exposure -> {"Producer"}
           [] payouts -> Roles \ {"ExternalPartner"}
           [] split -> {"Manager"}
           [] OTHER -> Roles
  BY Zenon DEF HandlerRoles
<1>19. /\ r \in FinanceOnly => role = "FinanceAdmin"
       /\ ledger => role \in PLACEMENT_LEDGER_ROLES
       /\ partner => role \in {"ExternalPartner", "FinanceAdmin"}
       /\ overview => role \in {"FinanceAdmin", "Executive"}
  BY <1>1, <1>5, <1>6, <1>7, <1>8, <1>15, Zenon
<1>20. /\ team => role \in requireManagerOrAdmin
       /\ resolve => role \in {"FinanceAdmin", "Executive", "Manager"}
       /\ producers \/ draw => role = "HR"
       /\ acknowledge \/ exposure => role = "Producer"
       /\ payouts => role # "ExternalPartner"
       /\ ~clawback /\ ~split
  BY <1>2, <1>4, <1>9, <1>10, <1>11, <1>12, <1>13, <1>14, <1>17, Zenon
<1>. HIDE DEF ledger, partner, overview, team, resolve, producers, draw, acknowledge, clawback,
              exposure, payouts, split
<1>21. role \in HandlerRoles(r)
  BY <1>18, <1>19, <1>20
<1>. QED BY <1>1, <1>21

(* Both gates and the handler let a role through.                           *)
Served(role, r) == isPermitted(role, r) /\ r \in Routes /\ role \in HandlerRoles(r)

LEMMA ReplyServed ==
  ASSUME NEW role, NEW r, Served(role, r), NEW sent, sent \/ r.method = "GET"
  PROVE  Reply(role, sent, r) = "served"
<1>1. isPermitted(role, r) /\ r \in Routes /\ role \in HandlerRoles(r)
  BY DEF Served
<1>2. verifyCsrf(sent, r)
  BY DEF verifyCsrf
<1>. QED BY <1>1, <1>2 DEF Reply

(* A request that the matrix lets through by the first segments of its path *)
(* a, or a and b, and that the tests in the handlers do not turn down.      *)
Allows(role, m, a, b, n) ==
  /\ a \in {"agents", "placements", "reconciliation", "exceptions"} =>
       role = "FinanceAdmin" \/ (m = "GET" /\ a = "placements" /\ n <= 2)
  /\ a = "placements" => n <= 2 /\ (n = 2 => role \in PLACEMENT_LEDGER_ROLES)
  /\ a = "partner" => role \in {"ExternalPartner", "FinanceAdmin"}
  /\ a \in {"commission-runs", "analytics"} => role \in {"FinanceAdmin", "Executive"}
  /\ a = "me" /\ n >= 2 /\ b = "team" => role \in requireManagerOrAdmin
  /\ a = "disputes" => role \in {"FinanceAdmin", "Executive", "Manager"}
  /\ a = "producers" => role = "HR"
  /\ a = "plans" /\ n = 5 => role = "Producer"
  /\ a = "me" /\ n = 2 /\ b = "clawback-exposure" => role = "Producer"
  /\ a = "me" /\ n = 2 /\ b = "payouts" => role # "ExternalPartner"

LEMMA ServedWhen ==
  ASSUME NEW role \in Roles, NEW m, NEW S, NEW t \in Seq(S), NEW a, NEW b, NEW n \in Nat,
         n = Len(t), n >= 1, t[1] = a, n >= 2 => t[2] = b,
         Ask(m, t) \in Routes, Allows(role, m, a, b, n),
         \/ Ask("*", <<>>) \in ROLE_PERMISSIONS[role] \/ Ask(m, <<>>) \in ROLE_PERMISSIONS[role]
         \/ Ask(m, <<a>>) \in ROLE_PERMISSIONS[role]
         \/ n >= 2 /\ Ask(m, <<a, b>>) \in ROLE_PERMISSIONS[role]
  PROVE  Served(role, Ask(m, t))
<1>1. isPermitted(role, Ask(m, t))
  BY Permitted
<1>2. ASSUME Ask(m, t) \in FinanceOnly, role # "FinanceAdmin" PROVE FALSE
  <2>1. m = "GET" /\ t \in {<<"placements", "_", "adjustments">>, <<"reconciliation">>}
    <3>1. CASE m = "PATCH" /\ t = <<"placements", "_">>
      <4>1. a = "placements"
        BY <3>1
      <4>. QED BY <1>2, <3>1, <4>1 DEF Allows
    <3>2. CASE m = "POST" /\ t[1] \in {"agents", "placements", "reconciliation", "exceptions"}
      BY <1>2, <3>2 DEF Allows
    <3>. QED BY <1>2, <3>1, <3>2, FinanceOnlyIs, Zenon
  <2>2. t # <<"reconciliation">>
    <3>1. ASSUME t = <<"reconciliation">> PROVE FALSE
      BY <1>2, <3>1 DEF Allows
    <3>. QED BY <3>1
  <2>3. t # <<"placements", "_", "adjustments">>
    <3>1. ASSUME t = <<"placements", "_", "adjustments">> PROVE FALSE
      <4>1. n = 3 /\ a = "placements"
        BY <3>1
      <4>. QED BY <1>2, <4>1 DEF Allows
    <3>. QED BY <3>1
  <2>. QED BY <2>1, <2>2, <2>3
<1>3. PICK V : V = S \cup {"me", "team"}
  OBVIOUS
<1>4. t \in Seq(V) /\ {"me", "team"} \subseteq V
  BY <1>3
<1>5. /\ t[1] = "placements" => n <= 2 /\ (n = 2 => role \in PLACEMENT_LEDGER_ROLES)
      /\ t[1] = "partner" => role \in {"ExternalPartner", "FinanceAdmin"}
      /\ t[1] \in {"commission-runs", "analytics"} => role \in {"FinanceAdmin", "Executive"}
      /\ t[1] = "me" /\ n >= 2 /\ t[2] = "team" => role \in requireManagerOrAdmin
      /\ t[1] = "disputes" => role \in {"FinanceAdmin", "Executive", "Manager"}
      /\ t[1] = "producers" => role = "HR"
      /\ t[1] = "plans" /\ n = 5 => role = "Producer"
      /\ t[1] = "me" /\ n = 2 /\ t[2] = "clawback-exposure" => role = "Producer"
      /\ t[1] = "me" /\ n = 2 /\ t[2] = "payouts" => role # "ExternalPartner"
  BY DEF Allows
<1>6. role \in HandlerRoles(Ask(m, t))
  BY <1>2, <1>4, <1>5, HandlerAllows
<1>. QED BY <1>1, <1>6 DEF Served

(* The same for paths of two, three and five segments, and of one.          *)
LEMMA ServedAt ==
  ASSUME NEW role \in Roles, NEW m, NEW a, NEW b, NEW c, NEW d, NEW e,
         Ask(m, <<>>) \in ROLE_PERMISSIONS[role] \/ Ask("*", <<>>) \in ROLE_PERMISSIONS[role]
           \/ Ask(m, <<a>>) \in ROLE_PERMISSIONS[role] \/ Ask(m, <<a, b>>) \in ROLE_PERMISSIONS[role]
  PROVE  /\ Ask(m, <<a, b>>) \in Routes /\ Allows(role, m, a, b, 2) => Served(role, Ask(m, <<a, b>>))
         /\ Ask(m, <<a, b, c>>) \in Routes /\ Allows(role, m, a, b, 3) => Served(role, Ask(m, <<a, b, c>>))
         /\ Ask(m, <<a, b, c, d, e>>) \in Routes /\ Allows(role, m, a, b, 5) =>
              Served(role, Ask(m, <<a, b, c, d, e>>))
<1>1. PICK S : S = {a, b, c, d, e}
  OBVIOUS
<1>2. 1 \in Nat /\ 2 \in Nat /\ 3 \in Nat /\ 5 \in Nat
  OBVIOUS
<1>3. ASSUME NEW t, NEW n \in Nat, t \in Seq(S), Len(t) = n, n >= 2, t[1] = a, t[2] = b,
             Ask(m, t) \in Routes, Allows(role, m, a, b, n)
      PROVE  Served(role, Ask(m, t))
  BY <1>3, ServedWhen
<1>4. /\ <<a, b>> \in Seq(S) /\ Len(<<a, b>>) = 2 /\ <<a, b>>[1] = a /\ <<a, b>>[2] = b
      /\ <<a, b, c>> \in Seq(S) /\ Len(<<a, b, c>>) = 3 /\ <<a, b, c>>[1] = a /\ <<a, b, c>>[2] = b
  BY <1>1
<1>5. /\ <<a, b, c, d, e>> \in Seq(S) /\ Len(<<a, b, c, d, e>>) = 5
      /\ <<a, b, c, d, e>>[1] = a /\ <<a, b, c, d, e>>[2] = b
  BY <1>1
<1>6. ASSUME Ask(m, <<a, b>>) \in Routes, Allows(role, m, a, b, 2)
      PROVE  Served(role, Ask(m, <<a, b>>))
  <2>1. PICK t : t = <<a, b>>
    OBVIOUS
  <2>2. t \in Seq(S) /\ Len(t) = 2 /\ t[1] = a /\ t[2] = b /\ 2 >= 2
    BY <1>4, <2>1
  <2>3. Served(role, Ask(m, t))
    BY <1>2, <1>3, <1>6, <2>1, <2>2, Zenon
  <2>. QED BY <2>1, <2>3
<1>7. ASSUME Ask(m, <<a, b, c>>) \in Routes, Allows(role, m, a, b, 3)
      PROVE  Served(role, Ask(m, <<a, b, c>>))
  <2>1. PICK t : t = <<a, b, c>>
    OBVIOUS
  <2>2. t \in Seq(S) /\ Len(t) = 3 /\ t[1] = a /\ t[2] = b /\ 3 >= 2
    BY <1>4, <2>1
  <2>3. Served(role, Ask(m, t))
    BY <1>2, <1>3, <1>7, <2>1, <2>2, Zenon
  <2>. QED BY <2>1, <2>3
<1>8. ASSUME Ask(m, <<a, b, c, d, e>>) \in Routes, Allows(role, m, a, b, 5)
      PROVE  Served(role, Ask(m, <<a, b, c, d, e>>))
  <2>1. PICK t : t = <<a, b, c, d, e>>
    OBVIOUS
  <2>2. t \in Seq(S) /\ Len(t) = 5 /\ t[1] = a /\ t[2] = b /\ 5 >= 2
    BY <1>5, <2>1
  <2>3. Served(role, Ask(m, t))
    BY <1>2, <1>3, <1>8, <2>1, <2>2, Zenon
  <2>. QED BY <2>1, <2>3
<1>. QED BY <1>6, <1>7, <1>8

LEMMA ServedAtFirst ==
  ASSUME NEW role \in Roles, NEW m, NEW a, Ask(m, <<a>>) \in Routes, Allows(role, m, a, a, 1),
         Ask(m, <<>>) \in ROLE_PERMISSIONS[role] \/ Ask("*", <<>>) \in ROLE_PERMISSIONS[role]
           \/ Ask(m, <<a>>) \in ROLE_PERMISSIONS[role]
  PROVE  Served(role, Ask(m, <<a>>))
<1>1. PICK t, S : t = <<a>> /\ S = {a}
  OBVIOUS
<1>2. t \in Seq(S) /\ Len(t) = 1 /\ t[1] = a /\ 1 \in Nat
  BY <1>1
<1>3. Ask(m, t) \in Routes /\ Allows(role, m, a, a, 1)
  BY <1>1
<1>4. Served(role, Ask(m, t))
  <2>1. 1 >= 1 /\ ~ (1 >= 2)
    OBVIOUS
  <2>. QED BY <1>2, <1>3, <2>1, ServedWhen, Zenon
<1>. QED BY <1>1, <1>4

(* The lines of the matrix and the routes that the pages count on.          *)
LEMMA MatrixHas ==
  /\ Ask("*", <<>>) \in ROLE_PERMISSIONS["FinanceAdmin"]
  /\ Ask("GET", <<>>) \in ROLE_PERMISSIONS["Executive"]
  /\ \A p \in {<<"me">>, <<"plans">>, <<"producer", "simulations">>} :
       Ask("GET", p) \in ROLE_PERMISSIONS["Producer"]
  /\ \A p \in {<<"me", "disputes">>, <<"plans">>, <<"producer", "simulations">>} :
       Ask("POST", p) \in ROLE_PERMISSIONS["Producer"]
  /\ \A p \in {<<"placements">>, <<"me">>} : Ask("GET", p) \in ROLE_PERMISSIONS["Manager"]
  /\ \A p \in {<<"placements">>, <<"plans">>, <<"producers">>} : Ask("GET", p) \in ROLE_PERMISSIONS["HR"]
  /\ Ask("GET", <<"partner", "placements">>) \in ROLE_PERMISSIONS["ExternalPartner"]
<1>1. /\ ROLE_PERMISSIONS["FinanceAdmin"] = {Ask("*", <<>>)}
      /\ ROLE_PERMISSIONS["Producer"] = ProducerPermissions \cup Everyone
      /\ ROLE_PERMISSIONS["Manager"] = ManagerPermissions \cup Everyone
      /\ ROLE_PERMISSIONS["Executive"] = ExecutivePermissions \cup {POST(<<"auth", "logout">>)}
      /\ ROLE_PERMISSIONS["HR"] = HRPermissions \cup Everyone
      /\ ROLE_PERMISSIONS["ExternalPartner"] = PartnerPermissions \cup Everyone
  BY DEF ROLE_PERMISSIONS, Roles
<1>2. Ask("GET", <<>>) \in ExecutivePermissions
  BY Zenon DEF ExecutivePermissions, GET
<1>3. /\ \A p \in {<<"me">>, <<"plans">>, <<"producer", "simulations">>} : Ask("GET", p) \in ProducerPermissions
      /\ \A p \in {<<"me", "disputes">>, <<"plans">>, <<"producer", "simulations">>} :
           Ask("POST", p) \in ProducerPermissions
  <2>1. Ask("GET", <<"me">>) \in ProducerPermissions /\ Ask("POST", <<"me", "disputes">>) \in ProducerPermissions
    BY DEF ProducerPermissions, GET, POST
  <2>2. Ask("GET", <<"plans">>) \in ProducerPermissions /\ Ask("POST", <<"plans">>) \in ProducerPermissions
    BY DEF ProducerPermissions, GET, POST
  <2>3. /\ Ask("GET", <<"producer", "simulations">>) \in ProducerPermissions
        /\ Ask("POST", <<"producer", "simulations">>) \in ProducerPermissions
    BY DEF ProducerPermissions, GET, POST
  <2>. QED BY <2>1, <2>2, <2>3, Zenon
<1>4. \A p \in {<<"placements">>, <<"me">>} : Ask("GET", p) \in ManagerPermissions
  BY DEF ManagerPermissions, GET
<1>5. \A p \in {<<"placements">>, <<"plans">>, <<"producers">>} : Ask("GET", p) \in HRPermissions
  BY DEF HRPermissions, GET
<1>6. Ask("GET", <<"partner", "placements">>) \in PartnerPermissions
  BY Zenon DEF PartnerPermissions, GET
<1>. QED BY <1>1, <1>2, <1>3, <1>4, <1>5, <1>6, Zenon

LEMMA RoutesHave ==
  /\ \A what \in {"commission-records", "payouts", "tier-progress"} : Ask("GET", <<"me", what>>) \in Routes
  /\ \A what \in {"placements", "commission-summary", "pending-approvals", "disputes"} :
       Ask("GET", <<"me", "team", what>>) \in Routes
  /\ \A what \in {"incomplete", "ledger"} : Ask("GET", <<"placements", what>>) \in Routes
  /\ \A what \in {"placements", "commission-runs", "plans", "reconciliation", "disputes", "producers"} :
       Ask("GET", <<what>>) \in Routes
  /\ \A p \in {<<"plans", "_", "assignments">>, <<"producer", "simulations">>, <<"analytics", "executive">>,
               <<"partner", "placements">>, <<"producers", "_", "draw-balance">>} : Ask("GET", p) \in Routes
  /\ \A p \in {<<"plans", "_", "versions", "_", "acknowledge">>, <<"me", "disputes">>} : Ask("POST", p) \in Routes
  /\ \A kind \in {"actual", "hypothetical"} : Ask("POST", <<"producer", "simulations", kind>>) \in Routes
<1>1. RunRoutes \subseteq Routes /\ SplitAndPlanRoutes \subseteq Routes
      /\ LedgerRoutes \subseteq Routes /\ PersonalRoutes \subseteq Routes
  BY Zenon DEF Routes
<1>2. \A what \in {"commission-records", "payouts", "tier-progress"} : Ask("GET", <<"me", what>>) \in PersonalRoutes
  <2>1. /\ Ask("GET", <<"me", "commission-records">>) \in PersonalRoutes
        /\ Ask("GET", <<"me", "payouts">>) \in PersonalRoutes
        /\ Ask("GET", <<"me", "tier-progress">>) \in PersonalRoutes
    BY DEF PersonalRoutes, GET, POST
  <2>. QED BY <2>1, Zenon
<1>3. \A what \in {"placements", "commission-summary", "pending-approvals", "disputes"} :
       Ask("GET", <<"me", "team", what>>) \in PersonalRoutes
  <2>1. /\ Ask("GET", <<"me", "team", "placements">>) \in PersonalRoutes
        /\ Ask("GET", <<"me", "team", "commission-summary">>) \in PersonalRoutes
        /\ Ask("GET", <<"me", "team", "pending-approvals">>) \in PersonalRoutes
        /\ Ask("GET", <<"me", "team", "disputes">>) \in PersonalRoutes
    BY DEF PersonalRoutes, GET, POST
  <2>. QED BY <2>1, Zenon
<1>4. \A what \in {"incomplete", "ledger"} : Ask("GET", <<"placements", what>>) \in RunRoutes
  BY Zenon DEF RunRoutes, GET
<1>5. \A what \in {"placements", "commission-runs"} : Ask("GET", <<what>>) \in RunRoutes
  BY Zenon DEF RunRoutes, GET
<1>6. Ask("GET", <<"plans">>) \in SplitAndPlanRoutes
  BY DEF SplitAndPlanRoutes, GET, POST
<1>7. Ask("GET", <<"plans", "_", "assignments">>) \in SplitAndPlanRoutes
  BY DEF SplitAndPlanRoutes, GET, POST
<1>8. Ask("GET", <<"reconciliation">>) \in LedgerRoutes
  BY DEF LedgerRoutes, GET, POST
<1>9. Ask("GET", <<"disputes">>) \in PersonalRoutes
  BY DEF PersonalRoutes, GET, POST
<1>10. Ask("GET", <<"producers">>) \in PersonalRoutes
  BY DEF PersonalRoutes, GET, POST
<1>11. Ask("GET", <<"producer", "simulations">>) \in PersonalRoutes
  BY DEF PersonalRoutes, GET, POST
<1>12. Ask("GET", <<"analytics", "executive">>) \in PersonalRoutes
  BY DEF PersonalRoutes, GET, POST
<1>13. Ask("GET", <<"producers", "_", "draw-balance">>) \in PersonalRoutes
  BY DEF PersonalRoutes, GET, POST
<1>14. Ask("GET", <<"partner", "placements">>) \in RunRoutes
  BY Zenon DEF RunRoutes, GET
<1>15. Ask("POST", <<"plans", "_", "versions", "_", "acknowledge">>) \in SplitAndPlanRoutes
  BY DEF SplitAndPlanRoutes, GET, POST
<1>16. Ask("POST", <<"me", "disputes">>) \in PersonalRoutes
  BY DEF PersonalRoutes, GET, POST
<1>17. \A kind \in {"actual", "hypothetical"} :
         Ask("POST", <<"producer", "simulations", kind>>) \in PersonalRoutes
  <2>1. /\ Ask("POST", <<"producer", "simulations", "actual">>) \in PersonalRoutes
        /\ Ask("POST", <<"producer", "simulations", "hypothetical">>) \in PersonalRoutes
    BY DEF PersonalRoutes, GET, POST
  <2>. QED BY <2>1, Zenon
<1>. QED BY <1>1, <1>2, <1>3, <1>4, <1>5, <1>6, <1>7, <1>8, <1>9, <1>10, <1>11, <1>12, <1>13, <1>14,
            <1>15, <1>16, <1>17, Zenon

(* What the pages of each role ask for, and are served.                     *)
LEMMA ProducerIsServed ==
  \A q \in {Ask("GET", <<"me", "commission-records">>),
            Ask("GET", <<"me", "payouts">>),
            Ask("GET", <<"me", "tier-progress">>),
            Ask("GET", <<"plans">>),
            Ask("GET", <<"plans", "_", "assignments">>),
            Ask("GET", <<"producer", "simulations">>),
            Ask("POST", <<"plans", "_", "versions", "_", "acknowledge">>),
            Ask("POST", <<"me", "disputes">>),
            Ask("POST", <<"producer", "simulations", "actual">>),
            Ask("POST", <<"producer", "simulations", "hypothetical">>)} :
    Served("Producer", q)
<1>0. "Producer" \in Roles
  BY DEF Roles
<1>1. Served("Producer", Ask("GET", <<"me", "commission-records">>))
  <2>1. Ask("GET", <<"me", "commission-records">>) \in Routes
    BY RoutesHave, Zenon
  <2>2. Allows("Producer", "GET", "me", "commission-records", 2)
    BY DEF Allows, PLACEMENT_LEDGER_ROLES, requireManagerOrAdmin
  <2>. QED BY <1>0, <2>1, <2>2, MatrixHas, ServedAt, Zenon
<1>2. Served("Producer", Ask("GET", <<"me", "payouts">>))
  <2>1. Ask("GET", <<"me", "payouts">>) \in Routes
    BY RoutesHave, Zenon
  <2>2. Allows("Producer", "GET", "me", "payouts", 2)
    BY DEF Allows, PLACEMENT_LEDGER_ROLES, requireManagerOrAdmin
  <2>. QED BY <1>0, <2>1, <2>2, MatrixHas, ServedAt, Zenon
<1>3. Served("Producer", Ask("GET", <<"me", "tier-progress">>))
  <2>1. Ask("GET", <<"me", "tier-progress">>) \in Routes
    BY RoutesHave, Zenon
  <2>2. Allows("Producer", "GET", "me", "tier-progress", 2)
    BY DEF Allows, PLACEMENT_LEDGER_ROLES, requireManagerOrAdmin
  <2>. QED BY <1>0, <2>1, <2>2, MatrixHas, ServedAt, Zenon
<1>4. Served("Producer", Ask("GET", <<"plans">>))
  <2>1. Ask("GET", <<"plans">>) \in Routes
    BY RoutesHave, Zenon
  <2>2. Allows("Producer", "GET", "plans", "plans", 1)
    BY DEF Allows, PLACEMENT_LEDGER_ROLES, requireManagerOrAdmin
  <2>. QED BY <1>0, <2>1, <2>2, MatrixHas, ServedAtFirst, Zenon
<1>5. Served("Producer", Ask("GET", <<"plans", "_", "assignments">>))
  <2>1. Ask("GET", <<"plans", "_", "assignments">>) \in Routes
    BY RoutesHave, Zenon
  <2>2. Allows("Producer", "GET", "plans", "_", 3)
    BY DEF Allows, PLACEMENT_LEDGER_ROLES, requireManagerOrAdmin
  <2>. QED BY <1>0, <2>1, <2>2, MatrixHas, ServedAt, Zenon
<1>6. Served("Producer", Ask("GET", <<"producer", "simulations">>))
  <2>1. Ask("GET", <<"producer", "simulations">>) \in Routes
    BY RoutesHave, Zenon
  <2>2. Allows("Producer", "GET", "producer", "simulations", 2)
    BY DEF Allows, PLACEMENT_LEDGER_ROLES, requireManagerOrAdmin
  <2>. QED BY <1>0, <2>1, <2>2, MatrixHas, ServedAt, Zenon
<1>7. Served("Producer", Ask("POST", <<"plans", "_", "versions", "_", "acknowledge">>))
  <2>1. Ask("POST", <<"plans", "_", "versions", "_", "acknowledge">>) \in Routes
    BY RoutesHave, Zenon
  <2>2. Allows("Producer", "POST", "plans", "_", 5)
    BY DEF Allows, PLACEMENT_LEDGER_ROLES, requireManagerOrAdmin
  <2>. QED BY <1>0, <2>1, <2>2, MatrixHas, ServedAt, Zenon
<1>8. Served("Producer", Ask("POST", <<"me", "disputes">>))
  <2>1. Ask("POST", <<"me", "disputes">>) \in Routes
    BY RoutesHave, Zenon
  <2>2. Allows("Producer", "POST", "me", "disputes", 2)
    BY DEF Allows, PLACEMENT_LEDGER_ROLES, requireManagerOrAdmin
  <2>. QED BY <1>0, <2>1, <2>2, MatrixHas, ServedAt, Zenon
<1>9. Served("Producer", Ask("POST", <<"producer", "simulations", "actual">>))
  <2>1. Ask("POST", <<"producer", "simulations", "actual">>) \in Routes
    BY RoutesHave, Zenon
  <2>2. Allows("Producer", "POST", "producer", "simulations", 3)
    BY DEF Allows, PLACEMENT_LEDGER_ROLES, requireManagerOrAdmin
  <2>. QED BY <1>0, <2>1, <2>2, MatrixHas, ServedAt, Zenon
<1>10. Served("Producer", Ask("POST", <<"producer", "simulations", "hypothetical">>))
  <2>1. Ask("POST", <<"producer", "simulations", "hypothetical">>) \in Routes
    BY RoutesHave, Zenon
  <2>2. Allows("Producer", "POST", "producer", "simulations", 3)
    BY DEF Allows, PLACEMENT_LEDGER_ROLES, requireManagerOrAdmin
  <2>. QED BY <1>0, <2>1, <2>2, MatrixHas, ServedAt, Zenon
<1>. QED BY <1>1, <1>2, <1>3, <1>4, <1>5, <1>6, <1>7, <1>8, <1>9, <1>10, Zenon

LEMMA FinanceIsServed ==
  \A q \in {Ask("GET", <<"placements">>),
            Ask("GET", <<"commission-runs">>),
            Ask("GET", <<"reconciliation">>),
            Ask("GET", <<"placements", "incomplete">>),
            Ask("GET", <<"placements", "ledger">>)} :
    Served("FinanceAdmin", q)
<1>0. "FinanceAdmin" \in Roles
  BY DEF Roles
<1>1. Served("FinanceAdmin", Ask("GET", <<"placements">>))
  <2>1. Ask("GET", <<"placements">>) \in Routes
    BY RoutesHave, Zenon
  <2>2. Allows("FinanceAdmin", "GET", "placements", "placements", 1)
    BY DEF Allows, PLACEMENT_LEDGER_ROLES, requireManagerOrAdmin
  <2>. QED BY <1>0, <2>1, <2>2, MatrixHas, ServedAtFirst, Zenon
<1>2. Served("FinanceAdmin", Ask("GET", <<"commission-runs">>))
  <2>1. Ask("GET", <<"commission-runs">>) \in Routes
    BY RoutesHave, Zenon
  <2>2. Allows("FinanceAdmin", "GET", "commission-runs", "commission-runs", 1)
    BY DEF Allows, PLACEMENT_LEDGER_ROLES, requireManagerOrAdmin
  <2>. QED BY <1>0, <2>1, <2>2, MatrixHas, ServedAtFirst, Zenon
<1>3. Served("FinanceAdmin", Ask("GET", <<"reconciliation">>))
  <2>1. Ask("GET", <<"reconciliation">>) \in Routes
    BY RoutesHave, Zenon
  <2>2. Allows("FinanceAdmin", "GET", "reconciliation", "reconciliation", 1)
    BY DEF Allows, PLACEMENT_LEDGER_ROLES, requireManagerOrAdmin
  <2>. QED BY <1>0, <2>1, <2>2, MatrixHas, ServedAtFirst, Zenon
<1>4. Served("FinanceAdmin", Ask("GET", <<"placements", "incomplete">>))
  <2>1. Ask("GET", <<"placements", "incomplete">>) \in Routes
    BY RoutesHave, Zenon
  <2>2. Allows("FinanceAdmin", "GET", "placements", "incomplete", 2)
    BY DEF Allows, PLACEMENT_LEDGER_ROLES, requireManagerOrAdmin
  <2>. QED BY <1>0, <2>1, <2>2, MatrixHas, ServedAt, Zenon
<1>5. Served("FinanceAdmin", Ask("GET", <<"placements", "ledger">>))
  <2>1. Ask("GET", <<"placements", "ledger">>) \in Routes
    BY RoutesHave, Zenon
  <2>2. Allows("FinanceAdmin", "GET", "placements", "ledger", 2)
    BY DEF Allows, PLACEMENT_LEDGER_ROLES, requireManagerOrAdmin
  <2>. QED BY <1>0, <2>1, <2>2, MatrixHas, ServedAt, Zenon
<1>. QED BY <1>1, <1>2, <1>3, <1>4, <1>5, Zenon

LEMMA ManagerIsServed ==
  \A q \in {Ask("GET", <<"placements", "ledger">>),
            Ask("GET", <<"me", "team", "placements">>),
            Ask("GET", <<"me", "team", "commission-summary">>),
            Ask("GET", <<"me", "team", "pending-approvals">>),
            Ask("GET", <<"me", "team", "disputes">>)} :
    Served("Manager", q)
<1>0. "Manager" \in Roles
  BY DEF Roles
<1>1. Served("Manager", Ask("GET", <<"placements", "ledger">>))
  <2>1. Ask("GET", <<"placements", "ledger">>) \in Routes
    BY RoutesHave, Zenon
  <2>2. Allows("Manager", "GET", "placements", "ledger", 2)
    BY DEF Allows, PLACEMENT_LEDGER_ROLES, requireManagerOrAdmin
  <2>. QED BY <1>0, <2>1, <2>2, MatrixHas, ServedAt, Zenon
<1>2. Served("Manager", Ask("GET", <<"me", "team", "placements">>))
  <2>1. Ask("GET", <<"me", "team", "placements">>) \in Routes
    BY RoutesHave, Zenon
  <2>2. Allows("Manager", "GET", "me", "team", 3)
    BY DEF Allows, PLACEMENT_LEDGER_ROLES, requireManagerOrAdmin
  <2>. QED BY <1>0, <2>1, <2>2, MatrixHas, ServedAt, Zenon
<1>3. Served("Manager", Ask("GET", <<"me", "team", "commission-summary">>))
  <2>1. Ask("GET", <<"me", "team", "commission-summary">>) \in Routes
    BY RoutesHave, Zenon
  <2>2. Allows("Manager", "GET", "me", "team", 3)
    BY DEF Allows, PLACEMENT_LEDGER_ROLES, requireManagerOrAdmin
  <2>. QED BY <1>0, <2>1, <2>2, MatrixHas, ServedAt, Zenon
<1>4. Served("Manager", Ask("GET", <<"me", "team", "pending-approvals">>))
  <2>1. Ask("GET", <<"me", "team", "pending-approvals">>) \in Routes
    BY RoutesHave, Zenon
  <2>2. Allows("Manager", "GET", "me", "team", 3)
    BY DEF Allows, PLACEMENT_LEDGER_ROLES, requireManagerOrAdmin
  <2>. QED BY <1>0, <2>1, <2>2, MatrixHas, ServedAt, Zenon
<1>5. Served("Manager", Ask("GET", <<"me", "team", "disputes">>))
  <2>1. Ask("GET", <<"me", "team", "disputes">>) \in Routes
    BY RoutesHave, Zenon
  <2>2. Allows("Manager", "GET", "me", "team", 3)
    BY DEF Allows, PLACEMENT_LEDGER_ROLES, requireManagerOrAdmin
  <2>. QED BY <1>0, <2>1, <2>2, MatrixHas, ServedAt, Zenon
<1>. QED BY <1>1, <1>2, <1>3, <1>4, <1>5, Zenon

LEMMA ExecutiveIsServed ==
  \A q \in {Ask("GET", <<"analytics", "executive">>),
            Ask("GET", <<"disputes">>)} :
    Served("Executive", q)
<1>0. "Executive" \in Roles
  BY DEF Roles
<1>1. Served("Executive", Ask("GET", <<"analytics", "executive">>))
  <2>1. Ask("GET", <<"analytics", "executive">>) \in Routes
    BY RoutesHave, Zenon
  <2>2. Allows("Executive", "GET", "analytics", "executive", 2)
    BY DEF Allows, PLACEMENT_LEDGER_ROLES, requireManagerOrAdmin
  <2>. QED BY <1>0, <2>1, <2>2, MatrixHas, ServedAt, Zenon
<1>2. Served("Executive", Ask("GET", <<"disputes">>))
  <2>1. Ask("GET", <<"disputes">>) \in Routes
    BY RoutesHave, Zenon
  <2>2. Allows("Executive", "GET", "disputes", "disputes", 1)
    BY DEF Allows, PLACEMENT_LEDGER_ROLES, requireManagerOrAdmin
  <2>. QED BY <1>0, <2>1, <2>2, MatrixHas, ServedAtFirst, Zenon
<1>. QED BY <1>1, <1>2, Zenon

LEMMA HRIsServed ==
  \A q \in {Ask("GET", <<"placements", "ledger">>),
            Ask("GET", <<"plans">>),
            Ask("GET", <<"plans", "_", "assignments">>),
            Ask("GET", <<"producers">>),
            Ask("GET", <<"producers", "_", "draw-balance">>)} :
    Served("HR", q)
<1>0. "HR" \in Roles
  BY DEF Roles
<1>1. Served("HR", Ask("GET", <<"placements", "ledger">>))
  <2>1. Ask("GET", <<"placements", "ledger">>) \in Routes
    BY RoutesHave, Zenon
  <2>2. Allows("HR", "GET", "placements", "ledger", 2)
    BY DEF Allows, PLACEMENT_LEDGER_ROLES, requireManagerOrAdmin
  <2>. QED BY <1>0, <2>1, <2>2, MatrixHas, ServedAt, Zenon
<1>2. Served("HR", Ask("GET", <<"plans">>))
  <2>1. Ask("GET", <<"plans">>) \in Routes
    BY RoutesHave, Zenon
  <2>2. Allows("HR", "GET", "plans", "plans", 1)
    BY DEF Allows, PLACEMENT_LEDGER_ROLES, requireManagerOrAdmin
  <2>. QED BY <1>0, <2>1, <2>2, MatrixHas, ServedAtFirst, Zenon
<1>3. Served("HR", Ask("GET", <<"plans", "_", "assignments">>))
  <2>1. Ask("GET", <<"plans", "_", "assignments">>) \in Routes
    BY RoutesHave, Zenon
  <2>2. Allows("HR", "GET", "plans", "_", 3)
    BY DEF Allows, PLACEMENT_LEDGER_ROLES, requireManagerOrAdmin
  <2>. QED BY <1>0, <2>1, <2>2, MatrixHas, ServedAt, Zenon
<1>4. Served("HR", Ask("GET", <<"producers">>))
  <2>1. Ask("GET", <<"producers">>) \in Routes
    BY RoutesHave, Zenon
  <2>2. Allows("HR", "GET", "producers", "producers", 1)
    BY DEF Allows, PLACEMENT_LEDGER_ROLES, requireManagerOrAdmin
  <2>. QED BY <1>0, <2>1, <2>2, MatrixHas, ServedAtFirst, Zenon
<1>5. Served("HR", Ask("GET", <<"producers", "_", "draw-balance">>))
  <2>1. Ask("GET", <<"producers", "_", "draw-balance">>) \in Routes
    BY RoutesHave, Zenon
  <2>2. Allows("HR", "GET", "producers", "_", 3)
    BY DEF Allows, PLACEMENT_LEDGER_ROLES, requireManagerOrAdmin
  <2>. QED BY <1>0, <2>1, <2>2, MatrixHas, ServedAt, Zenon
<1>. QED BY <1>1, <1>2, <1>3, <1>4, <1>5, Zenon

LEMMA PartnerIsServed ==
  \A q \in {Ask("GET", <<"partner", "placements">>)} :
    Served("ExternalPartner", q)
<1>0. "ExternalPartner" \in Roles
  BY DEF Roles
<1>1. Served("ExternalPartner", Ask("GET", <<"partner", "placements">>))
  <2>1. Ask("GET", <<"partner", "placements">>) \in Routes
    BY RoutesHave, Zenon
  <2>2. Allows("ExternalPartner", "GET", "partner", "placements", 2)
    BY DEF Allows, PLACEMENT_LEDGER_ROLES, requireManagerOrAdmin
  <2>. QED BY <1>0, <2>1, <2>2, MatrixHas, ServedAt, Zenon
<1>. QED BY <1>1, Zenon

LEMMA PageOfRole ==
  ASSUME NEW role \in Roles, NEW p \in ROUTES, Highlighted(role, p) # {}
  PROVE  \/ p[1] = "docs"
         \/ role = "Producer" /\ p[1] = "portal"
         \/ role = "FinanceAdmin" /\ p[1] = "finance"
         \/ role = "Manager" /\ p[1] = "manager"
         \/ role = "Executive" /\ p[1] = "executive"
         \/ role = "HR" /\ p[1] = "hr"
         \/ role = "ExternalPartner" /\ p[1] = "partner"
<1>1. PICK item \in Items(role) : pathMatchesPrefix(p, item)
  BY DEF Highlighted
<1>2. item \in ROUTES \ {LOGIN}
  BY ItemsOpen
<1>3. p[1] = item[1]
  BY <1>1, <1>2, PrefixOfRoute
<1>4. \/ item[1] = "docs"
      \/ role = "Producer" /\ item[1] = "portal"
      \/ role = "FinanceAdmin" /\ item[1] = "finance"
      \/ role = "Manager" /\ item[1] = "manager"
      \/ role = "Executive" /\ item[1] = "executive"
      \/ role = "HR" /\ item[1] = "hr"
      \/ role = "ExternalPartner" /\ item[1] = "partner"
  BY ItemsAre DEF Roles
<1>. QED BY <1>3, <1>4

(* All that a component loads, or loads and offers, is served.              *)
Serves(role, c) == \A q \in c.loads : Served(role, q) /\ q.method = "GET"
ServesAll(role, c) == Serves(role, c) /\ \A q \in c.offers : Served(role, q)

LEMMA Methods == \A m, p : Ask(m, p).method = m
  BY DEF Ask

LEMMA ProducerComponents ==
  ASSUME NEW c \in {CreditedPlacements,
                    PayoutStatement,
                    TierProgress,
                    ProducerPlanAcknowledgment,
                    DisputeForm,
                    DealSimulator}
  PROVE  ServesAll("Producer", c)
<1>1. ServesAll("Producer", CreditedPlacements)
  <2>1. /\ CreditedPlacements.loads = {Ask("GET", <<"me", "commission-records">>)}
        /\ CreditedPlacements.offers = {}
    BY DEF CreditedPlacements, Component, GET, POST
  <2>. QED BY <2>1, ProducerIsServed, Methods, Zenon DEF Serves, ServesAll
<1>2. ServesAll("Producer", PayoutStatement)
  <2>1. /\ PayoutStatement.loads = {Ask("GET", <<"me", "payouts">>)}
        /\ PayoutStatement.offers = {}
    BY DEF PayoutStatement, Component, GET, POST
  <2>. QED BY <2>1, ProducerIsServed, Methods, Zenon DEF Serves, ServesAll
<1>3. ServesAll("Producer", TierProgress)
  <2>1. /\ TierProgress.loads = {Ask("GET", <<"me", "tier-progress">>)}
        /\ TierProgress.offers = {}
    BY DEF TierProgress, Component, GET, POST
  <2>. QED BY <2>1, ProducerIsServed, Methods, Zenon DEF Serves, ServesAll
<1>4. ServesAll("Producer", ProducerPlanAcknowledgment)
  <2>1. /\ ProducerPlanAcknowledgment.loads = {Ask("GET", <<"plans">>),
             Ask("GET", <<"plans", "_", "assignments">>)}
        /\ ProducerPlanAcknowledgment.offers = {Ask("POST", <<"plans", "_", "versions", "_", "acknowledge">>)}
    BY DEF ProducerPlanAcknowledgment, Component, GET, POST
  <2>. QED BY <2>1, ProducerIsServed, Methods, Zenon DEF Serves, ServesAll
<1>5. ServesAll("Producer", DisputeForm)
  <2>1. /\ DisputeForm.loads = {}
        /\ DisputeForm.offers = {Ask("POST", <<"me", "disputes">>)}
    BY DEF DisputeForm, Component, GET, POST
  <2>. QED BY <2>1, ProducerIsServed, Methods, Zenon DEF Serves, ServesAll
<1>6. ServesAll("Producer", DealSimulator)
  <2>1. /\ DealSimulator.loads = {Ask("GET", <<"producer", "simulations">>)}
        /\ DealSimulator.offers = {Ask("POST", <<"producer", "simulations", "actual">>),
             Ask("POST", <<"producer", "simulations", "hypothetical">>)}
    BY DEF DealSimulator, Component, GET, POST
  <2>. QED BY <2>1, ProducerIsServed, Methods, Zenon DEF Serves, ServesAll
<1>. QED BY <1>1, <1>2, <1>3, <1>4, <1>5, <1>6, Zenon

LEMMA FinanceComponents ==
  ASSUME NEW c \in {DataGapQueue,
                    CommissionRunReview,
                    InvoiceCollection,
                    PlacementLedger("FinanceAdmin"),
                    AdjustmentLedger,
                    PayrollExport,
                    ReconciliationReport}
  PROVE  Serves("FinanceAdmin", c)
<1>1. Serves("FinanceAdmin", DataGapQueue)
  <2>1. DataGapQueue.loads = {Ask("GET", <<"placements", "incomplete">>)}
    BY DEF DataGapQueue, Component, GET, POST
  <2>. QED BY <2>1, FinanceIsServed, Methods, Zenon DEF Serves
<1>2. Serves("FinanceAdmin", CommissionRunReview)
  <2>1. CommissionRunReview.loads = {}
    BY DEF CommissionRunReview, Component, GET, POST
  <2>. QED BY <2>1, FinanceIsServed, Methods, Zenon DEF Serves
<1>3. Serves("FinanceAdmin", InvoiceCollection)
  <2>1. InvoiceCollection.loads = {Ask("GET", <<"placements">>)}
    BY DEF InvoiceCollection, Component, GET, POST, PlacementList
  <2>. QED BY <2>1, FinanceIsServed, Methods, Zenon DEF Serves
<1>4. Serves("FinanceAdmin", PlacementLedger("FinanceAdmin"))
  <2>1. PlacementLedger("FinanceAdmin").loads = {Ask("GET", <<"placements", "ledger">>)}
    BY DEF PlacementLedger, Component, GET, POST
  <2>. QED BY <2>1, FinanceIsServed, Methods, Zenon DEF Serves
<1>5. Serves("FinanceAdmin", AdjustmentLedger)
  <2>1. AdjustmentLedger.loads = {Ask("GET", <<"placements">>)}
    BY DEF AdjustmentLedger, Component, GET, POST, PlacementList
  <2>. QED BY <2>1, FinanceIsServed, Methods, Zenon DEF Serves
<1>6. Serves("FinanceAdmin", PayrollExport)
  <2>1. PayrollExport.loads = {Ask("GET", <<"commission-runs">>)}
    BY DEF PayrollExport, Component, GET, POST
  <2>. QED BY <2>1, FinanceIsServed, Methods, Zenon DEF Serves
<1>7. Serves("FinanceAdmin", ReconciliationReport)
  <2>1. ReconciliationReport.loads = {Ask("GET", <<"reconciliation">>)}
    BY DEF ReconciliationReport, Component, GET, POST
  <2>. QED BY <2>1, FinanceIsServed, Methods, Zenon DEF Serves
<1>. QED BY <1>1, <1>2, <1>3, <1>4, <1>5, <1>6, <1>7, Zenon

LEMMA ManagerComponents ==
  ASSUME NEW c \in {PlacementLedger("Manager"),
                    SplitApproval,
                    SplitEscalation,
                    TeamCommissionView,
                    AttributionTimeline}
  PROVE  Serves("Manager", c)
<1>1. Serves("Manager", PlacementLedger("Manager"))
  <2>1. PlacementLedger("Manager").loads = {Ask("GET", <<"placements", "ledger">>)}
    BY DEF PlacementLedger, Component, GET, POST
  <2>. QED BY <2>1, ManagerIsServed, Methods, Zenon DEF Serves
<1>2. Serves("Manager", SplitApproval)
  <2>1. SplitApproval.loads = {Ask("GET", <<"me", "team", "pending-approvals">>)}
    BY DEF SplitApproval, Component, GET, POST
  <2>. QED BY <2>1, ManagerIsServed, Methods, Zenon DEF Serves
<1>3. Serves("Manager", SplitEscalation)
  <2>1. SplitEscalation.loads = {Ask("GET", <<"me", "team", "disputes">>)}
    BY DEF SplitEscalation, Component, GET, POST
  <2>. QED BY <2>1, ManagerIsServed, Methods, Zenon DEF Serves
<1>4. Serves("Manager", TeamCommissionView)
  <2>1. TeamCommissionView.loads = {Ask("GET", <<"me", "team", "commission-summary">>),
             Ask("GET", <<"me", "team", "placements">>),
             Ask("GET", <<"me", "team", "disputes">>)}
    BY DEF TeamCommissionView, Component, GET, POST
  <2>. QED BY <2>1, ManagerIsServed, Methods, Zenon DEF Serves
<1>5. Serves("Manager", AttributionTimeline)
  <2>1. AttributionTimeline.loads = {Ask("GET", <<"me", "team", "placements">>)}
    BY DEF AttributionTimeline, Component, GET, POST
  <2>. QED BY <2>1, ManagerIsServed, Methods, Zenon DEF Serves
<1>. QED BY <1>1, <1>2, <1>3, <1>4, <1>5, Zenon

LEMMA ExecutiveComponents ==
  ASSUME NEW c \in {ExecFinancialPosition,
                    ExecProfitability,
                    ExecTrends,
                    ExecDisputeApproval}
  PROVE  Serves("Executive", c)
<1>1. Serves("Executive", ExecFinancialPosition)
  <2>1. ExecFinancialPosition.loads = {Ask("GET", <<"analytics", "executive">>)}
    BY DEF ExecFinancialPosition, Component, GET, POST, Analytics
  <2>. QED BY <2>1, ExecutiveIsServed, Methods, Zenon DEF Serves
<1>2. Serves("Executive", ExecProfitability)
  <2>1. ExecProfitability.loads = {Ask("GET", <<"analytics", "executive">>)}
    BY DEF ExecProfitability, Component, GET, POST, Analytics
  <2>. QED BY <2>1, ExecutiveIsServed, Methods, Zenon DEF Serves
<1>3. Serves("Executive", ExecTrends)
  <2>1. ExecTrends.loads = {Ask("GET", <<"analytics", "executive">>)}
    BY DEF ExecTrends, Component, GET, POST, Analytics
  <2>. QED BY <2>1, ExecutiveIsServed, Methods, Zenon DEF Serves
<1>4. Serves("Executive", ExecDisputeApproval)
  <2>1. ExecDisputeApproval.loads = {Ask("GET", <<"disputes">>)}
    BY DEF ExecDisputeApproval, Component, GET, POST
  <2>. QED BY <2>1, ExecutiveIsServed, Methods, Zenon DEF Serves
<1>. QED BY <1>1, <1>2, <1>3, <1>4, Zenon

LEMMA HRComponents ==
  ASSUME NEW c \in {PlacementLedger("HR"),
                    PlanAcknowledgment,
                    DrawBalanceView}
  PROVE  ServesAll("HR", c)
<1>1. ServesAll("HR", PlacementLedger("HR"))
  <2>1. /\ PlacementLedger("HR").loads = {Ask("GET", <<"placements", "ledger">>)}
        /\ PlacementLedger("HR").offers = {}
    BY DEF PlacementLedger, Component, GET, POST
  <2>. QED BY <2>1, HRIsServed, Methods, Zenon DEF Serves, ServesAll
<1>2. ServesAll("HR", PlanAcknowledgment)
  <2>1. /\ PlanAcknowledgment.loads = {Ask("GET", <<"plans">>),
             Ask("GET", <<"plans", "_", "assignments">>)}
        /\ PlanAcknowledgment.offers = {}
    BY DEF PlanAcknowledgment, Component, GET, POST
  <2>. QED BY <2>1, HRIsServed, Methods, Zenon DEF Serves, ServesAll
<1>3. ServesAll("HR", DrawBalanceView)
  <2>1. /\ DrawBalanceView.loads = {Ask("GET", <<"producers">>)}
        /\ DrawBalanceView.offers = {Ask("GET", <<"producers", "_", "draw-balance">>)}
    BY DEF DrawBalanceView, Component, GET, POST
  <2>. QED BY <2>1, HRIsServed, Methods, Zenon DEF Serves, ServesAll
<1>. QED BY <1>1, <1>2, <1>3, Zenon

LEMMA PartnerComponents ==
  ASSUME NEW c \in {PartnerPayoutView}
  PROVE  ServesAll("ExternalPartner", c)
<1>1. ServesAll("ExternalPartner", PartnerPayoutView)
  <2>1. /\ PartnerPayoutView.loads = {Ask("GET", <<"partner", "placements">>)}
        /\ PartnerPayoutView.offers = {}
    BY DEF PartnerPayoutView, Component, GET, POST
  <2>. QED BY <2>1, PartnerIsServed, Methods, Zenon DEF Serves, ServesAll
<1>. QED BY <1>1, Zenon

LEMMA PagesAreServed ==
  ASSUME ShellTyped, Guided
  PROVE  LoadsServed /\ SelfServiceServed
<1>1. SUFFICES ASSUME Opened
               PROVE  /\ path # <<"executive", "finance">> => \A c \in Mounted : Serves(session, c)
                      /\ session \in {"Producer", "HR", "ExternalPartner"} =>
                           \A c \in Mounted : ServesAll(session, c)
  BY ReplyServed DEF LoadsServed, SelfServiceServed, Serves, ServesAll
<1>2. PICK role, p, t, s : role = session /\ p = path /\ t = tab /\ s = Surface
  OBVIOUS
<1>3. /\ role \in Roles /\ p \in ROUTES \ {LOGIN} /\ Highlighted(role, p) # {}
  BY <1>1, <1>2, SurfaceIs DEF Opened, OnPage, ShellTyped, ShellTypeOK, Guided
<1>4. s = p[1] /\ t \in LocalTabs \cup {"default"}
  BY <1>1, <1>2, SurfaceIs DEF Opened, OnPage, Surface, ShellTyped, ShellTypeOK
<1>5. \/ s = "docs"
      \/ role = "Producer" /\ s = "portal"
      \/ role = "FinanceAdmin" /\ s = "finance"
      \/ role = "Manager" /\ s = "manager"
      \/ role = "Executive" /\ s = "executive"
      \/ role = "HR" /\ s = "hr"
      \/ role = "ExternalPartner" /\ s = "partner"
  BY <1>3, <1>4, PageOfRole
<1>6. CASE s = "docs"
  BY <1>2, <1>6 DEF Mounted
<1>7. CASE role = "Producer" /\ s = "portal"
  <2>1. t \in {"dashboard", "placements", "tools", "default"}
    BY <1>2, <1>4, <1>7 DEF LocalTabs
  <2>2. Mounted \subseteq {CreditedPlacements, PayoutStatement, TierProgress, ProducerPlanAcknowledgment,
                           DisputeForm, DealSimulator}
    BY <1>2, <1>7, <2>1 DEF Mounted, ProducerPortal
  <2>3. \A c \in Mounted : ServesAll("Producer", c)
    BY <2>2, ProducerComponents
  <2>. QED BY <1>2, <1>7, <2>3 DEF Serves, ServesAll
<1>8. CASE role = "FinanceAdmin" /\ s = "finance"
  <2>1. Mounted = FinancePage("FinanceAdmin", tabFromPath(p, <<"finance">>, "processing"))
    BY <1>2, <1>8 DEF Mounted
  <2>2. \A u : FinancePage("FinanceAdmin", u) \subseteq
                 {DataGapQueue, CommissionRunReview, InvoiceCollection, PlacementLedger("FinanceAdmin"),
                  AdjustmentLedger, PayrollExport, ReconciliationReport}
    BY DEF FinancePage
  <2>3. \A c \in Mounted : Serves("FinanceAdmin", c)
    BY <2>1, <2>2, FinanceComponents
  <2>. QED BY <1>2, <1>8, <2>3
<1>9. CASE role = "Manager" /\ s = "manager"
  <2>1. t \in {"placements", "approvals", "team", "default"}
    BY <1>2, <1>4, <1>9 DEF LocalTabs
  <2>2. Mounted \subseteq {PlacementLedger("Manager"), SplitApproval, SplitEscalation, TeamCommissionView,
                           AttributionTimeline}
    BY <1>2, <1>9, <2>1 DEF Mounted, ManagerHome
  <2>3. \A c \in Mounted : Serves("Manager", c)
    BY <2>2, ManagerComponents
  <2>. QED BY <1>2, <1>9, <2>3
<1>10. CASE role = "Executive" /\ s = "executive"
  <2>1. ASSUME path # <<"executive", "finance">> PROVE \A c \in Mounted : Serves("Executive", c)
    <3>1. PICK u : u = tabFromPath(p, <<"executive">>, "dashboard")
      OBVIOUS
    <3>2. u \in ExecutiveTabs /\ u # "finance"
      BY <1>2, <1>3, <1>4, <1>10, <2>1, <3>1, TabOfPath
    <3>3. Mounted = ExecutiveDashboard("Executive", u, t)
      BY <1>2, <1>10, <3>1 DEF Mounted
    <3>4. Mounted \subseteq {ExecFinancialPosition, ExecProfitability, ExecTrends, ExecDisputeApproval}
      BY <3>2, <3>3 DEF ExecutiveDashboard, ExecutiveTabs
    <3>. QED BY <3>4, ExecutiveComponents
  <2>. QED BY <1>2, <1>10, <2>1
<1>11. CASE role = "HR" /\ s = "hr"
  <2>1. t \in {"placements", "acknowledgment", "draw", "default"}
    BY <1>2, <1>4, <1>11 DEF LocalTabs
  <2>2. Mounted \subseteq {PlacementLedger("HR"), PlanAcknowledgment, DrawBalanceView}
    BY <1>2, <1>11, <2>1 DEF Mounted, HRHome
  <2>3. \A c \in Mounted : ServesAll("HR", c)
    BY <2>2, HRComponents
  <2>. QED BY <1>2, <1>11, <2>3 DEF Serves, ServesAll
<1>12. CASE role = "ExternalPartner" /\ s = "partner"
  <2>1. Mounted = {PartnerPayoutView}
    BY <1>2, <1>12 DEF Mounted
  <2>. QED BY <1>2, <1>12, <2>1, PartnerComponents DEF Serves, ServesAll
<1>. QED BY <1>5, <1>6, <1>7, <1>8, <1>9, <1>10, <1>11, <1>12

-----------------------------------------------------------------------------
(* The parts together.                                                      *)

WebInv == /\ SessionsInv /\ ProbeInv /\ SignInInv /\ ReviewInv /\ SelectInv
          /\ TrendsInv /\ RolloutInv /\ LimiterInv
          /\ SessionsTyped /\ ScreenTyped /\ ShellTyped /\ RolloutTyped /\ Guided

LEMMA WebStart == ASSUME Init PROVE WebInv
<1>1. SessionsInv
  BY SessionsStart DEF Init
<1>2. ProbeInv /\ SignInInv
  BY ProbeStart, SignInStart DEF Init
<1>3. ReviewInv /\ RolloutInv
  BY ReviewStart, RolloutStart DEF Init
<1>4. SelectInv /\ LimiterInv
  BY SelectStart, LimiterStart DEF Init
<1>5. TrendsInv
  BY TrendsStart DEF Init
<1>6. SessionsTyped /\ ScreenTyped /\ ShellTyped /\ RolloutTyped
  BY SessionsTypedStart, ScreenTypedStart, ShellTypedStart, RolloutTypedStart DEF Init
<1>7. Guided
  BY GuidedStart DEF Init
<1>8. QED
  BY <1>1, <1>2, <1>3, <1>4, <1>5, <1>6, <1>7 DEF WebInv

(* A step of the composition is a step of one part, and of no other.        *)
LEMMA PartsStep ==
  ASSUME [Next]_vars
  PROVE  /\ [SessionsNext]_sessionVars /\ [ProbeNext]_probeVars /\ [SignInNext]_signInVars
         /\ [ScreenNext]_screenVars /\ [SelectNext]_selectVars /\ [RolloutNext]_rolloutVars
         /\ [LimiterNext]_limiterVars /\ [ShellNext]_shellVars
<1> USE DEF vars
<1>1. CASE Next
  BY <1>1 DEF Next
<1>2. CASE UNCHANGED vars
  BY <1>2
<1>3. QED
  BY <1>1, <1>2

LEMMA WebStep == ASSUME WebInv, [Next]_vars PROVE WebInv'
<1>1. SessionsInv'
  <2>1. CASE SessionsNext
    BY <2>1, SessionsStep DEF WebInv
  <2>2. CASE UNCHANGED sessionVars
    BY <2>2, SessionsStutter DEF WebInv
  <2>3. QED
    BY <2>1, <2>2, PartsStep
<1>2. ProbeInv' /\ SignInInv'
  BY PartsStep, ProbeStep, SignInStep DEF WebInv
<1>3. ReviewInv' /\ SelectInv'
  BY PartsStep, ReviewStep, SelectStep DEF WebInv
<1>4. RolloutInv' /\ LimiterInv'
  BY PartsStep, RolloutStep, LimiterStep DEF WebInv
<1>5. TrendsInv'
  BY PartsStep, TrendsStep DEF WebInv
<1>6. SessionsTyped' /\ ScreenTyped'
  BY PartsStep, SessionsTypedStep, ScreenTypedStep DEF WebInv
<1>7. ShellTyped' /\ RolloutTyped'
  BY PartsStep, ShellTypedStep, RolloutTypedStep DEF WebInv
<1>8. Guided'
  BY PartsStep, GuidedStep DEF WebInv
<1>9. QED
  BY <1>1, <1>2, <1>3, <1>4, <1>5, <1>6, <1>7, <1>8 DEF WebInv

LEMMA WebInvariance == Spec => []WebInv
<1>1. Init => WebInv
  BY WebStart
<1>2. WebInv /\ [Next]_vars => WebInv'
  BY WebStep
<1>3. QED
  BY <1>1, <1>2, PTL DEF Spec

(* Every part keeps its types, and with them what the types say beyond: the *)
(* button "Finalizing" is busy as long as the call is out (handleFinalize), *)
(* a page that is shown has its own tab (App.tsx), nothing but a token that *)
(* was signed is presented or revoked (revokeToken), and a deployment has   *)
(* each image in one revision only (kubectl set image, rollout undo).       *)
THEOREM WebTyped == Spec => []TypeOK
<1>1. WebInv => SessionsTypeOK /\ LimiterTypeOK /\ ScreenTypeOK
  BY SessionsAreTyped DEF WebInv, LimiterInv, ScreenTyped
<1>2. WebInv => ProbeTypeOK /\ SignInTypeOK /\ ShellTypeOK
  BY DEF WebInv, ProbeInv, SignInInv, ShellTyped
<1>3. WebInv => SelectTypeOK /\ RolloutTypeOK
  BY TrendsInvIsSound, RolloutIsTyped DEF WebInv
<1>4. WebInv => TypeOK
  BY <1>1, <1>2, <1>3 DEF TypeOK
<1>5. QED
  BY <1>4, WebInvariance, PTL

(* The screens never tell what is not so, in whatever order the answers     *)
(* arrive: the review page, the probe of the session, the buttons of the    *)
(* login page, the pages of a selection, and the trends, whose months are   *)
(* asked for one by one and put together again whole.                       *)
THEOREM ScreensTellTruth == Spec => []ScreensTell
<1>1. WebInv => ScreensTell
  BY TrendsInvIsSound DEF WebInv, ProbeInv, SignInInv, ReviewInv, SelectInv, ScreensTell
<1>2. QED
  BY <1>1, WebInvariance, PTL

(* Who goes by the sidebar, the tabs and the redirect, as whatever role      *)
(* after whatever other, gets a page of their own with something on it,      *)
(* never Forbidden, and the requests it makes by itself are answered by both *)
(* gates of the server (navItemsForRole, prevRoleRef, ROLE_PERMISSIONS).     *)
THEOREM PagesWork == Spec => []PagesServed
<1>1. WebInv => PagesServed
  BY GuidedPages, PagesAreServed DEF WebInv, PagesServed
<1>2. QED
  BY <1>1, WebInvariance, PTL

(* However deployments fail, are killed and overlap: no server or worker    *)
(* runs before its migrations, workers follow a server that has served, and *)
(* a run that ends by itself leaves no tunnel and no kubeconfig behind.     *)
THEOREM RolloutsAreSound == Spec => []RolloutSound
<1>1. WebInv => RolloutSound
  BY RolloutIsSound DEF WebInv
<1>2. QED
  BY <1>1, WebInvariance, PTL

(* A deployment that gives up leaves the cluster at a boundary: what has    *)
(* passed its gate is new, and all the rest is as it was.                   *)
THEOREM FailuresLeaveBoundary == Spec => FailureAtBoundary
<1> DEFINE Boundary ==
      \A d \in Deployers :
        /\ Deploying(d) /\ job'[d].pc = "failed"
        /\ job[d].alone /\ ~job'[d].lost
        /\ job[d].image # job[d].app
        /\ \A w \in 1..job[d].types : job[d].image # job[d].workers[w]
        => /\ Current(app') = IF ServerPassed(d) THEN job[d].image ELSE job[d].app
           /\ \A w \in 1..Types :
                Current(workers'[w]) =
                  IF w \in WorkersPassed(d) THEN job[d].image ELSE job[d].workers[w]
<1>1. WebInv /\ [Next]_vars => [Boundary]_rolloutVars
  BY PartsStep, FailingStep DEF WebInv
<1>2. QED
  BY <1>1, WebInvariance, PTL DEF Spec, FailureAtBoundary

(* However requests, clean-ups and the clock fall together, no stretch of   *)
(* one window length holds more requests of a client than the limit, and a  *)
(* client that stays away as long as the answer 429 told it is let in.      *)
THEOREM LimiterIsSound == Spec => []LimiterSound
<1>1. WebInv => LimiterSound
  BY LimiterInvIsSound DEF WebInv
<1>2. QED
  BY <1>1, WebInvariance, PTL

(* Who signed in stays signed in until the session ends, and nobody else is *)
(* (verifyJwt, handleLogout, handlePasskeyLoginComplete).                   *)
THEOREM SessionsAreSound == Spec => []SessionsSound
<1>1. WebInv => SessionsSound
  BY SessionsInvIsSound DEF WebInv, SessionsSound
<1>2. QED
  BY <1>1, WebInvariance, PTL
=============================================================================
