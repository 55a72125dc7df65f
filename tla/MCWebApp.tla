-------------------------------- MODULE MCWebApp --------------------------------
(* Small instances of the parts of the web application. *)
EXTENDS WebApp, TLC

CONSTANTS k1, k2, k3, u1, u2, c1, c2, pk1, pk2, t1, t2, q1, q2, r1, r2, s1, s2, s3, v1, v2, v3

(* Three months of two days. *)
MCMonthOf == [d \in Days |-> (d + 1) \div 2]

NoPasskeys == [k \in Passkeys |-> None]
NoTokens == [t \in Tokens |-> None]
Held == [user |-> u1, count |-> 1, by |-> None]
Signed == [user |-> u1, key |-> k1, live |-> TRUE, by |-> None]
TwoTokens == [NoTokens EXCEPT ![t1] = Signed, ![t2] = [Signed EXCEPT !.key = k2]]

SessionScene(keys, passkeys0, tokens, operations) ==
  [env |-> keys, users |-> {u1}, passkeys |-> passkeys0, tokens |-> tokens,
   operations |-> operations]

MCSessionScenes ==
  {SessionScene([current |-> k1, old |-> None], NoPasskeys, NoTokens, {"register"}),
   SessionScene([current |-> k1, old |-> None], [NoPasskeys EXCEPT ![pk1] = Held],
                NoTokens, {"register", "signIn"}),
   SessionScene([current |-> k1, old |-> None], NoPasskeys,
                [NoTokens EXCEPT ![t1] = Signed], {"deploy", "request", "logout"}),
   SessionScene([current |-> k1, old |-> k2], NoPasskeys, TwoTokens, {"request", "logout"}),
   SessionScene([current |-> k1, old |-> k2], NoPasskeys, TwoTokens, {"deploy", "request"}),
   SessionScene([current |-> None, old |-> None], NoPasskeys, NoTokens,
                {"demo"})}
=============================================================================
