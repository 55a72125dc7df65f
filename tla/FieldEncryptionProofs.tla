------------------------ MODULE FieldEncryptionProofs ------------------------
(***************************************************************************)
(* Theorems about FieldEncryption, Placements, BillingPhases, PortalReads, *)
(* Reports and EditorPages, for any number of processes, modules, columns, *)
(* values and calls, of placements, phases, contributors, invoices,        *)
(* records, readers and requests, of rows, clicks and slots; and about the *)
(* specification that puts them together for the run.                      *)
(*                                                                         *)
(* In development every key there is, in a cache, under way in a call or   *)
(* under a stored value, is the one derived from the name of the field.    *)
(* And an entry of a cache is dated from when its key was asked for.       *)
(***************************************************************************)
EXTENDS MCBillingPhases, Sums

(* A call, in development *)
DevSeal(s) ==
  /\ s.result \in {"none", "value"}
  /\ s.pc = "insert" => s.dek = <<"derived", s.field>>
  /\ s.pc \in {"adapter", "dek", "derive"} /\ ~s.writes =>
       s.buf \in Stored /\ s.buf.dek = <<"derived", s.field>>

Derived ==
  kms = "dev" =>
    /\ \A e \in Encryptors, f \in Fields :
         dekCache[e][f] # Unset => dekCache[e][f].dek = <<"derived", f>>
    /\ \A c \in Cells : cell[c] # Unset => cell[c].dek = <<"derived", cell[c].field>>
    /\ \A q \in Seals : DevSeal(seal[q])

Dated ==
  /\ \A e \in Encryptors, f \in Fields :
       dekCache[e][f] # Unset =>
         /\ dekCache[e][f].asked <= tick
         /\ dekCache[e][f].expiresAt = dekCache[e][f].asked + Ttl
  /\ \A q \in Seals : seal[q].age < Ttl /\ seal[q].asked <= tick

(* A call that uses an encryptor or a key has one. *)
HasWhatItUses(s) ==
  /\ s.pc \in {"dek", "derive", "insert", "opened"} => s.enc \in Encryptors
  /\ s.pc = "insert" => s.dek \in Deks

Equipped == \A q \in Seals : HasWhatItUses(seal[q])

Inv == EncryptionTypeOK /\ Equipped /\ Dated /\ Derived

-----------------------------------------------------------------------------
LEMMA NoSealType ==
  /\ NoSeal \in Seal /\ DevSeal(NoSeal)
  /\ NoSeal.pc = "idle" /\ NoSeal.age = 0 /\ NoSeal.asked = 0 /\ NoSeal.result = "none"
<1>1. (CHOOSE s \in Processes \X DbModules : TRUE) \in Processes \X DbModules
  <2>1. PICK p \in Processes, m \in DbModules : TRUE
    BY ModulesAssumption
  <2>2. <<p, m>> \in Processes \X DbModules
    BY <2>1
  <2>3. QED
    BY <2>2, Zenon
<1>2. (CHOOSE f \in Fields : TRUE) \in Fields
  BY ModulesAssumption
<1>3. QED
  BY <1>1, <1>2 DEF NoSeal, Seal, DevSeal

(* What a call makes of a key. *)
LEMMA WithDekType ==
  ASSUME NEW s \in Seal, NEW dek \in Deks, NEW age \in Nat
  PROVE  /\ WithDek(s, dek, age) \in Seal
         /\ WithDek(s, dek, age).pc \in {"insert", "opened"}
         /\ WithDek(s, dek, age).enc = s.enc
         /\ WithDek(s, dek, age).age = age
         /\ WithDek(s, dek, age).asked = s.asked
         /\ WithDek(s, dek, age).pc = "insert" => WithDek(s, dek, age).dek = dek
<1>1. CASE s.writes
  BY <1>1 DEF WithDek, Seal
<1>2. CASE ~s.writes
  <2>1. PICK result \in {"value", "zero", "error"} :
          WithDek(s, dek, age) =
            [s EXCEPT !.pc = "opened", !.dek = dek, !.age = age, !.result = result]
    BY <1>2 DEF WithDek, Thrown
  <2>2. QED
    BY <2>1 DEF Seal
<1>3. QED
  BY <1>1, <1>2

LEMMA WithDekDerived ==
  ASSUME NEW s \in Seal, DevSeal(s), s.pc \in {"dek", "derive"},
         NEW age \in Nat
  PROVE  DevSeal(WithDek(s, <<"derived", s.field>>, age))
<1>1. CASE s.writes
  <2>1. WithDek(s, <<"derived", s.field>>, age) =
          [s EXCEPT !.pc = "insert", !.dek = <<"derived", s.field>>, !.age = age]
    BY <1>1 DEF WithDek
  <2>2. [s EXCEPT !.pc = "insert", !.dek = <<"derived", s.field>>, !.age = age].result = s.result
        /\ [s EXCEPT !.pc = "insert", !.dek = <<"derived", s.field>>, !.age = age].dek =
             <<"derived", s.field>>
        /\ [s EXCEPT !.pc = "insert", !.dek = <<"derived", s.field>>, !.age = age].field = s.field
        /\ [s EXCEPT !.pc = "insert", !.dek = <<"derived", s.field>>, !.age = age].pc = "insert"
    BY DEF Seal
  <2>3. QED
    BY <2>1, <2>2 DEF DevSeal
<1>2. CASE ~s.writes
  <2>1. s.buf.dek = <<"derived", s.field>>
    BY <1>2 DEF DevSeal
  <2>2. WithDek(s, <<"derived", s.field>>, age).result = "value"
    BY <1>2, <2>1 DEF WithDek, Seal
  <2>3. WithDek(s, <<"derived", s.field>>, age).pc = "opened"
    BY <1>2 DEF WithDek, Seal
  <2>4. QED
    BY <2>2, <2>3 DEF DevSeal
<1>3. QED
  BY <1>1, <1>2

LEMMA InvInit == EncryptionInit => Inv
BY NoSealType, TtlAssumption
DEF EncryptionInit, Inv, EncryptionTypeOK, Equipped, HasWhatItUses, Dated, Derived, Empty

(* A step of one call, which leaves the caches and the values alone.        *)
LEMMA OneCall ==
  ASSUME Inv, NEW q \in Seals, NEW s \in Seal,
         seal' = [seal EXCEPT ![q] = s],
         UNCHANGED <<kms, singleton, dekCache, cell, tick, drawn>>,
         HasWhatItUses(s), s.age < Ttl /\ s.asked <= tick, kms = "dev" => DevSeal(s)
  PROVE  Inv'
BY DEF Inv, EncryptionTypeOK, Equipped, HasWhatItUses, Dated, Derived, DevSeal

-----------------------------------------------------------------------------
(* Asking for an encryptor *)
LEMMA AskedCall ==
  ASSUME Inv, NEW q \in Seals, NEW s \in Processes \X DbModules, NEW request \in Seal,
         request.pc = "idle", request.age = 0, request.asked = 0,
         kms = "dev" =>
           /\ request.result = "none"
           /\ ~request.writes =>
                request.buf \in Stored /\ request.buf.dek = <<"derived", request.field>>,
         getEncryptor(q, s, request)
  PROVE  Inv'
<1> DEFINE pc == IF singleton[s] = Unset THEN "adapter" ELSE "dek"
           next == [request EXCEPT !.pc = pc, !.in = s, !.enc = singleton[s]]
<1>1. singleton[s] \in Encryptors \cup {Unset} /\ tick \in Nat
  BY DEF Inv, EncryptionTypeOK
<1>2. /\ next \in Seal /\ next.pc = pc /\ next.enc = singleton[s]
      /\ next.age = 0 /\ next.asked = 0 /\ next.result = request.result
      /\ next.writes = request.writes /\ next.buf = request.buf /\ next.field = request.field
  BY <1>1 DEF Seal
<1>3. pc \in {"adapter", "dek"} /\ (pc = "dek" => singleton[s] \in Encryptors)
  BY <1>1
<1>4. kms = "dev" => DevSeal(next)
  BY <1>2, <1>3 DEF DevSeal
<1>5. /\ seal' = [seal EXCEPT ![q] = next]
      /\ UNCHANGED <<kms, singleton, dekCache, cell, tick, drawn>>
  BY DEF getEncryptor
<1> HIDE DEF next, pc
<1>6. next.age < Ttl /\ next.asked <= tick
  BY <1>1, <1>2, TtlAssumption
<1>7. HasWhatItUses(next)
  BY <1>2, <1>3 DEF HasWhatItUses
<1>8. QED
  BY <1>2, <1>4, <1>5, <1>6, <1>7, OneCall

LEMMA EncryptStep ==
  ASSUME Inv, NEW q \in Seals, NEW s \in Processes \X DbModules, NEW f \in Fields,
         NEW c \in Cells, AskEncrypt(q, s, f, c)
  PROVE  Inv'
<1> DEFINE request == [NoSeal EXCEPT !.field = f, !.cell = c, !.writes = TRUE]
<1>1. /\ request \in Seal /\ request.pc = "idle" /\ request.age = 0 /\ request.asked = 0
      /\ request.result = "none" /\ request.writes
  BY NoSealType DEF Seal
<1>2. getEncryptor(q, s, request)
  BY DEF AskEncrypt
<1> HIDE DEF request
<1>3. QED
  BY <1>1, <1>2, AskedCall

LEMMA DecryptStep ==
  ASSUME Inv, NEW q \in Seals, NEW s \in Processes \X DbModules, NEW c \in Cells,
         AskDecrypt(q, s, c)
  PROVE  Inv'
<1> DEFINE request == [NoSeal EXCEPT !.field = cell[c].field, !.cell = c, !.buf = cell[c]]
<1>1. cell[c] \in Stored /\ cell[c].field \in Fields
  BY DEF Inv, EncryptionTypeOK, AskDecrypt, Stored
<1>2. /\ request \in Seal /\ request.pc = "idle" /\ request.age = 0 /\ request.asked = 0
      /\ request.result = "none" /\ request.buf = cell[c] /\ request.field = cell[c].field
  BY <1>1, NoSealType DEF Seal
<1>3. kms = "dev" => cell[c].dek = <<"derived", cell[c].field>>
  BY DEF Inv, Derived, AskDecrypt
<1>4. getEncryptor(q, s, request)
  BY DEF AskDecrypt
<1> HIDE DEF request
<1>5. QED
  BY <1>1, <1>2, <1>3, <1>4, AskedCall

(* A new encryptor has an empty cache. *)
LEMMA EncryptorStep ==
  ASSUME Inv, NEW q \in Seals, NewEncryptor(q)
  PROVE  Inv'
<1>1. PICK e \in Encryptors :
        /\ singleton' = [singleton EXCEPT ![seal[q].in] = e]
        /\ dekCache' = [dekCache EXCEPT ![e] = Empty]
        /\ seal' = [seal EXCEPT ![q].pc = "dek", ![q].enc = e]
  <2>1. PICK e \in Encryptors \ InUse : e = CHOOSE x \in Encryptors \ InUse : TRUE
    BY Zenon DEF NewEncryptor
  <2>2. QED
    BY <2>1 DEF NewEncryptor
<1>2. seal[q] \in Seal /\ seal[q].pc = "adapter" /\ UNCHANGED <<kms, cell, tick, drawn>>
  BY DEF Inv, EncryptionTypeOK, NewEncryptor, Sealing
<1> DEFINE next == [seal[q] EXCEPT !.pc = "dek", !.enc = e]
<1>3. /\ next \in Seal /\ next.pc = "dek" /\ next.enc = e /\ next.age = seal[q].age
      /\ next.asked = seal[q].asked /\ next.result = seal[q].result
      /\ next.writes = seal[q].writes /\ next.buf = seal[q].buf /\ next.field = seal[q].field
  BY <1>2 DEF Seal
<1>4. seal' = [seal EXCEPT ![q] = next]
  BY <1>1 DEF Inv, EncryptionTypeOK
<1> HIDE DEF next
<1>5. kms = "dev" => DevSeal(next)
  BY <1>2, <1>3 DEF Inv, Derived, DevSeal
<1>6. EncryptionTypeOK' /\ Equipped'
  <2>1. Empty \in [Fields -> Entry \cup {Unset}] /\ seal[q].in \in Processes \X DbModules
    BY <1>2 DEF Empty, Seal
  <2>2. dekCache' \in [Encryptors -> [Fields -> Entry \cup {Unset}]]
    BY <1>1, <2>1 DEF Inv, EncryptionTypeOK
  <2>3. singleton' \in [Processes \X DbModules -> Encryptors \cup {Unset}]
    BY <1>1, <2>1 DEF Inv, EncryptionTypeOK
  <2>4. QED
    BY <1>2, <1>3, <1>4, <2>2, <2>3 DEF Inv, EncryptionTypeOK, Equipped, HasWhatItUses
<1>7. \A d \in Encryptors, f \in Fields :
        dekCache'[d][f] # Unset => dekCache'[d][f] = dekCache[d][f] /\ dekCache[d][f] # Unset
  <2>1. \A d \in Encryptors : dekCache'[d] = IF d = e THEN Empty ELSE dekCache[d]
    BY <1>1 DEF Inv, EncryptionTypeOK
  <2>2. \A f \in Fields : Empty[f] = Unset
    BY DEF Empty
  <2>3. QED
    BY <2>1, <2>2
<1>8. Dated'
  BY <1>2, <1>3, <1>4, <1>7 DEF Inv, EncryptionTypeOK, Dated
<1>9. Derived'
  BY <1>2, <1>4, <1>5, <1>7 DEF Inv, EncryptionTypeOK, Derived
<1>10. QED
  BY <1>6, <1>8, <1>9 DEF Inv

(* A key from the cache, if its entry is still fresh *)
LEMMA GetDekStep ==
  ASSUME Inv, NEW q \in Seals, getDek(q)
  PROVE  Inv'
<1> DEFINE s == seal[q]
           entry == dekCache[s.enc][s.field]
<1>1. /\ s \in Seal /\ s.pc = "dek" /\ s.enc \in Encryptors /\ s.field \in Fields
      /\ s.age < Ttl /\ s.asked <= tick /\ (kms = "dev" => DevSeal(s)) /\ tick \in Nat
  <2>1. s \in Seal /\ s.pc = "dek" /\ tick \in Nat
    BY DEF Inv, EncryptionTypeOK, getDek, Sealing
  <2>2. s.enc \in Encryptors /\ s.field \in Fields
    BY <2>1 DEF Inv, Equipped, HasWhatItUses, Seal
  <2>3. s.age < Ttl /\ s.asked <= tick
    BY DEF Inv, Dated
  <2>4. kms = "dev" => DevSeal(s)
    BY DEF Inv, Derived
  <2>5. QED
    BY <2>1, <2>2, <2>3, <2>4
<1>2. UNCHANGED <<kms, singleton, dekCache, cell, tick, drawn>>
  BY DEF getDek
<1>3. CASE Fresh(entry)
  <2>1. /\ entry \in Entry /\ entry.asked <= tick
        /\ entry.expiresAt = entry.asked + Ttl /\ tick < entry.expiresAt
        /\ (kms = "dev" => entry.dek = <<"derived", s.field>>)
    BY <1>1, <1>3 DEF Inv, EncryptionTypeOK, Dated, Derived, Fresh
  <2>2. entry.dek \in Deks /\ entry.asked \in Nat
    BY <2>1 DEF Entry
  <2>3. tick - entry.asked \in Nat /\ tick - entry.asked < Ttl
    BY <1>1, <2>1, <2>2, TtlAssumption
  <2> DEFINE next == WithDek(s, entry.dek, tick - entry.asked)
  <2>4. seal' = [seal EXCEPT ![q] = next]
    BY <1>3 DEF getDek, Inv, EncryptionTypeOK
  <2> HIDE DEF entry, s
  <2>5. /\ next \in Seal /\ next.pc \in {"insert", "opened"} /\ next.enc = s.enc
        /\ next.age = tick - entry.asked /\ next.asked = s.asked
        /\ (next.pc = "insert" => next.dek = entry.dek)
    BY <1>1, <2>2, <2>3, WithDekType
  <2>6. kms = "dev" => DevSeal(next)
    BY <1>1, <2>1, <2>3, WithDekDerived
  <2> HIDE DEF next
  <2>7. next.age < Ttl /\ next.asked <= tick
    BY <1>1, <2>3, <2>5
  <2>8. HasWhatItUses(next)
    BY <1>1, <2>2, <2>5 DEF HasWhatItUses
  <2>9. QED
    BY <1>2, <2>4, <2>5, <2>6, <2>7, <2>8, OneCall
<1>4. CASE ~Fresh(entry)
  <2> DEFINE next == [s EXCEPT !.pc = "derive", !.asked = tick]
  <2>1. seal' = [seal EXCEPT ![q] = next]
    BY <1>4 DEF getDek, Inv, EncryptionTypeOK
  <2>2. /\ next \in Seal /\ next.pc = "derive" /\ next.enc = s.enc /\ next.age = s.age
        /\ next.asked = tick /\ next.result = s.result /\ next.writes = s.writes
        /\ next.buf = s.buf /\ next.field = s.field
    BY <1>1 DEF Seal
  <2> HIDE DEF next, entry, s
  <2>3. kms = "dev" => DevSeal(next)
    BY <1>1, <2>2 DEF DevSeal
  <2>4. next.age < Ttl /\ next.asked <= tick
    BY <1>1, <2>2
  <2>5. HasWhatItUses(next)
    BY <1>1, <2>2 DEF HasWhatItUses
  <2>6. QED
    BY <1>2, <2>1, <2>2, <2>3, <2>4, <2>5, OneCall
<1>5. QED
  BY <1>3, <1>4

(* The key the adapter answers with: in development the one of the field.   *)
LEMMA DeriveStep ==
  ASSUME Inv, NEW q \in Seals, KeyDerived(q)
  PROVE  Inv'
<1> DEFINE s == seal[q]
<1>1. /\ s \in Seal /\ s.pc = "derive" /\ tick \in Nat /\ drawn \in 0..MaxDrawn
      /\ UNCHANGED <<kms, singleton, cell, tick>>
  BY DEF Inv, EncryptionTypeOK, KeyDerived, Sealing
<1>2. s.enc \in Encryptors /\ s.field \in Fields /\ s.asked \in Nat
  BY <1>1 DEF Inv, Equipped, HasWhatItUses, Seal
<1>3. s.asked <= tick
  BY DEF Inv, Dated
<1>4. kms = "dev" => DevSeal(s)
  BY DEF Inv, Derived
<1>5. PICK dek \in deriveKey(s.field) :
        /\ dekCache' = [dekCache EXCEPT ![s.enc][s.field] =
                          [dek |-> dek, expiresAt |-> s.asked + Ttl, asked |-> s.asked]]
        /\ seal' = [seal EXCEPT ![q] = WithDek([s EXCEPT !.asked = 0], dek, 0)]
        /\ drawn' = IF dek[1] = "random" THEN drawn + 1 ELSE drawn
  BY DEF KeyDerived, ExpiresAt, Inv, EncryptionTypeOK
<1>6. dek \in Deks /\ (kms = "dev" => dek = <<"derived", s.field>>) /\ drawn' \in 0..MaxDrawn
  <2>1. CASE kms = "dev"
    BY <1>1, <1>2, <1>5, <2>1 DEF deriveKey, Deks
  <2>2. CASE kms # "dev"
    <3>1. dek = <<"random", drawn + 1>> /\ dek \in Deks
      BY <1>5, <2>2 DEF deriveKey
    <3>2. drawn + 1 \in 1..MaxDrawn
      BY <3>1 DEF Deks
    <3>3. QED
      BY <1>1, <1>5, <2>2, <3>1, <3>2
  <2>3. QED
    BY <2>1, <2>2
<1> DEFINE asks == [s EXCEPT !.asked = 0]
           next == WithDek(asks, dek, 0)
           entry == [dek |-> dek, expiresAt |-> s.asked + Ttl, asked |-> s.asked]
<1>7. /\ asks \in Seal /\ asks.pc = "derive" /\ asks.enc = s.enc /\ asks.asked = 0
      /\ asks.field = s.field /\ asks.result = s.result /\ asks.writes = s.writes
      /\ asks.buf = s.buf
  BY <1>1 DEF Seal
<1>8. kms = "dev" => DevSeal(asks)
  BY <1>4, <1>7 DEF DevSeal
<1> HIDE DEF asks
<1>9. /\ next \in Seal /\ next.pc \in {"insert", "opened"} /\ next.enc = s.enc
      /\ next.age = 0 /\ next.asked = 0 /\ (next.pc = "insert" => next.dek = dek)
  BY <1>6, <1>7, WithDekType
<1>10. kms = "dev" => DevSeal(next)
  BY <1>6, <1>7, <1>8, WithDekDerived
<1>11. entry \in Entry /\ entry.asked = s.asked /\ entry.expiresAt = s.asked + Ttl
       /\ entry.dek = dek
  BY <1>2, <1>6, TtlAssumption DEF Entry
<1>12. /\ dekCache' = [dekCache EXCEPT ![s.enc][s.field] = entry]
       /\ seal' = [seal EXCEPT ![q] = next]
  BY <1>5 DEF asks
<1> HIDE DEF next, entry, s
<1>13. \A e \in Encryptors, f \in Fields :
         dekCache'[e][f] = IF e = s.enc /\ f = s.field THEN entry ELSE dekCache[e][f]
  BY <1>2, <1>12 DEF Inv, EncryptionTypeOK
<1>14. EncryptionTypeOK'
  <2>1. dekCache' \in [Encryptors -> [Fields -> Entry \cup {Unset}]]
    BY <1>2, <1>11, <1>12 DEF Inv, EncryptionTypeOK
  <2>2. QED
    BY <1>1, <1>6, <1>9, <1>12, <2>1 DEF Inv, EncryptionTypeOK
<1>15. Equipped'
  BY <1>2, <1>6, <1>9, <1>12 DEF Inv, EncryptionTypeOK, Equipped, HasWhatItUses
<1>16. Dated'
  BY <1>1, <1>3, <1>9, <1>11, <1>12, <1>13, TtlAssumption DEF Inv, EncryptionTypeOK, Dated
<1>17. Derived'
  BY <1>1, <1>6, <1>10, <1>11, <1>12, <1>13 DEF Inv, EncryptionTypeOK, Derived
<1>18. QED
  BY <1>14, <1>15, <1>16, <1>17 DEF Inv

(* The value is stored under the key the call has. *)
LEMMA InsertStep ==
  ASSUME Inv, NEW q \in Seals, Insert(q) \/ createDrawBalance(q)
  PROVE  Inv'
<1> DEFINE s == seal[q]
           value == [field |-> s.field, dek |-> s.dek]
           opens == [s EXCEPT !.pc = "dek", !.buf = value, !.writes = FALSE,
                              !.dek = Unset, !.age = 0]
           next == IF s.in[2] \in Tolerant THEN NoSeal ELSE opens
<1>1. /\ s \in Seal /\ s.pc = "insert" /\ tick \in Nat
      /\ UNCHANGED <<kms, singleton, dekCache, tick, drawn>>
  BY DEF Inv, EncryptionTypeOK, Insert, createDrawBalance, Store, Sealing
<1>2. /\ s.enc \in Encryptors /\ s.dek \in Deks /\ s.asked <= tick /\ (kms = "dev" => DevSeal(s))
  BY <1>1 DEF Inv, Equipped, HasWhatItUses, Dated, Derived
<1>3. value \in Stored /\ value.field = s.field /\ value.dek = s.dek
  BY <1>1, <1>2 DEF Stored, Seal
<1>4. /\ opens \in Seal /\ opens.pc = "dek" /\ opens.enc = s.enc /\ opens.age = 0
      /\ opens.asked = s.asked /\ opens.buf = value /\ opens.field = s.field
      /\ opens.result = s.result
  BY <1>1, <1>3 DEF Seal
<1>5. cell' = [cell EXCEPT ![s.cell] = value] /\ seal' = [seal EXCEPT ![q] = next]
  BY DEF Insert, createDrawBalance, Store, Inv, EncryptionTypeOK, Seal
<1>6. kms = "dev" => DevSeal(opens) /\ value.dek = <<"derived", value.field>>
  BY <1>1, <1>2, <1>3, <1>4 DEF DevSeal
<1> HIDE DEF value, opens, s
<1>7. /\ next \in Seal /\ next.age = 0 /\ next.asked <= tick
      /\ HasWhatItUses(next)
      /\ kms = "dev" => DevSeal(next)
  BY <1>1, <1>2, <1>4, <1>6, NoSealType DEF HasWhatItUses
<1> HIDE DEF next
<1>8. EncryptionTypeOK'
  BY <1>1, <1>3, <1>5, <1>7 DEF Inv, EncryptionTypeOK, s
<1>9. Equipped' /\ Dated'
  BY <1>1, <1>5, <1>7, TtlAssumption DEF Inv, EncryptionTypeOK, Equipped, HasWhatItUses, Dated
<1>10. Derived'
  BY <1>1, <1>5, <1>6, <1>7 DEF Inv, EncryptionTypeOK, Derived
<1>11. QED
  BY <1>8, <1>9, <1>10 DEF Inv

(* A call that ends or whose process restarts. *)
LEMMA ReplyStep ==
  ASSUME Inv, NEW q \in Seals, Reply(q)
  PROVE  Inv'
<1>1. NoSeal.age < Ttl /\ NoSeal.asked <= tick /\ HasWhatItUses(NoSeal)
  BY NoSealType, TtlAssumption DEF HasWhatItUses, Inv, EncryptionTypeOK
<1>2. QED
  BY <1>1, NoSealType, OneCall DEF Reply

LEMMA RestartStep ==
  ASSUME Inv, NEW p \in Processes, Restart(p)
  PROVE  Inv'
<1>1. \A q \in Seals : seal'[q] = seal[q] \/ seal'[q] = NoSeal
  BY DEF Restart
<1>2. NoSeal.age < Ttl /\ NoSeal.asked <= tick /\ HasWhatItUses(NoSeal)
  BY NoSealType, TtlAssumption DEF HasWhatItUses, Inv, EncryptionTypeOK
<1>3. \A e \in Encryptors, f \in Fields :
        dekCache'[e][f] # Unset => dekCache'[e][f] = dekCache[e][f]
  BY DEF Restart, Empty
<1>4. UNCHANGED <<kms, cell, tick, drawn>>
  BY DEF Restart
<1>5. EncryptionTypeOK'
  <2>1. dekCache' \in [Encryptors -> [Fields -> Entry \cup {Unset}]]
    BY DEF Restart, Empty, Inv, EncryptionTypeOK
  <2>2. singleton' \in [Processes \X DbModules -> Encryptors \cup {Unset}]
    BY DEF Restart, Inv, EncryptionTypeOK
  <2>3. seal' \in [Seals -> Seal]
    BY NoSealType DEF Restart, Inv, EncryptionTypeOK
  <2>4. QED
    BY <1>4, <2>1, <2>2, <2>3 DEF Inv, EncryptionTypeOK
<1>6. Equipped' /\ Dated'
  BY <1>1, <1>2, <1>3, <1>4 DEF Inv, Equipped, Dated
<1>7. Derived'
  BY <1>1, <1>3, <1>4, NoSealType DEF Inv, Derived
<1>8. QED
  BY <1>5, <1>6, <1>7 DEF Inv

LEMMA TickStep == ASSUME Inv, Tick PROVE Inv'
<1>1. EncryptionTypeOK' /\ Equipped' /\ Derived'
  BY DEF Tick, Inv, EncryptionTypeOK, Equipped, Derived
<1>2. Dated'
  BY DEF Tick, Inv, EncryptionTypeOK, Entry, Seal, Dated
<1>3. QED
  BY <1>1, <1>2 DEF Inv

LEMMA EncryptionStep == Inv /\ [EncryptionNext]_encryptionVars => Inv'
<1>1. SUFFICES ASSUME Inv, [EncryptionNext]_encryptionVars PROVE Inv'
  OBVIOUS
<1>2. CASE UNCHANGED encryptionVars
  BY <1>1, <1>2 DEF encryptionVars, Inv, EncryptionTypeOK, Equipped, Dated, Derived
<1>3. QED
  BY <1>1, <1>2, EncryptStep, DecryptStep, EncryptorStep, GetDekStep, DeriveStep, InsertStep,
     ReplyStep, RestartStep, TickStep DEF EncryptionNext

LEMMA Invariance == EncryptionSpec => []Inv
BY InvInit, EncryptionStep, PTL DEF EncryptionSpec

-----------------------------------------------------------------------------
(* In development and CI whatever was stored is opened, by whichever module *)
(* of whichever process, across restarts, cache misses and racing first     *)
(* calls (LocalDevKmsAdapter.deriveKey, getEncryptor).                      *)
THEOREM DevelopmentOpens == EncryptionSpec => []DevOpens
<1>1. Inv => DevOpens
  BY DEF Inv, Derived, DevSeal, DevOpens
<1>2. QED
  BY <1>1, Invariance, PTL

(* However late the adapter answers and however calls overlap, no call uses *)
(* a cached key that was asked for DEK_CACHE_TTL_MS ago (getDek).           *)
THEOREM CachedKeysAreFresh == EncryptionSpec => []DekAge
<1>1. Inv => DekAge
  BY DEF Inv, Dated, DekAge
<1>2. QED
  BY <1>1, Invariance, PTL

(* A key opens what was stored, and is not used beyond its time (getDek).   *)
THEOREM KeysAreSound == EncryptionSpec => []KeysSound
BY DevelopmentOpens, CachedKeysAreFresh, PTL DEF KeysSound

-----------------------------------------------------------------------------
(* Billing phases.  What a phase credits is referred to, and what is        *)
(* referred to is neither deleted nor moved.                                *)

SplitTypes ==
  /\ split \in [Contributors -> [place : Placements, pct : Splits] \cup {None, Deleted}]
  /\ referenced \subseteq Contributors

References == \A c \in referenced : Assigned(c)

CreditsHold ==
  \A credit \in credited : credit[2] \in referenced /\ split[credit[2]].place = credit[1][1]

LinksNoted == \A ph \in Phases : link[ph] \in Invoices => <<ph, link[ph]>> \in linked

(* What the handler of a request knows, by the statement it runs next.      *)
BillOK(b) ==
  /\ b.pc = "insertCredit" =>
       /\ b.phase \in Phases /\ b.contributor \in Contributors
       /\ split[b.contributor] # None
       /\ Assigned(b.contributor) => split[b.contributor].place = b.phase[1]
  /\ b.pc \in {"readInvoice", "insertRecords"} =>
       b.phase \in Phases /\ \A c \in b.payees : <<b.phase, c>> \in credited
  /\ b.pc \in {"nextPhase", "readInvoice", "insertRecords"} =>
       \A ph \in b.todo : b.links[ph] \in Invoices => <<ph, b.links[ph]>> \in linked
  /\ b.pc = "readInvoice" =>
       /\ b.phase \notin b.todo
       /\ b.links[b.phase] \in Invoices => <<b.phase, b.links[b.phase]>> \in linked
  /\ b.pc = "insertRecords" =>
       /\ b.phase \notin b.todo
       /\ b.collected => \E i \in paid : <<b.phase, i>> \in linked
  /\ b.pc \in {"selectPhases", "releasePhases"} => b.invoice \in paid
  /\ b.pc = "releasePhases" => \A ph \in b.todo : <<ph, b.invoice>> \in linked

PhasesInv ==
  /\ PhasesTypeOK /\ SplitTypes /\ References /\ CreditsHold /\ LinksNoted
  /\ \A q \in Bills : BillOK(bill[q])
  /\ PhaseCredited /\ ReleasedByLinked

LEMMA NoBillOK == NoBill \in Bill /\ BillOK(NoBill)
<1>1. NoLinks \in [Phases -> Invoices \cup {None, "absent"}]
  BY DEF NoLinks
<1>2. NoBill \in Bill /\ NoBill.pc = "idle"
  BY <1>1 DEF NoBill, Bill
<1>3. QED
  BY <1>2 DEF BillOK

LEMMA PhasesStart == Init => PhasesInv
<1>1. SUFFICES ASSUME NEW scene \in Scenes, PlacementsInit(scene), PhasesInit(scene)
               PROVE  PhasesInv
  BY DEF Init
<1>2. /\ scene.splits \in [Contributors -> [place : Placements, pct : Splits] \cup {None}]
      /\ scene.links \in [Phases -> Invoices \cup {None, "absent"}]
      /\ scene.credits \subseteq Phases \X Contributors
      /\ \A credit \in scene.credits : /\ scene.splits[credit[2]] # None
                                       /\ scene.splits[credit[2]].place = credit[1][1]
  BY ScenesAssumption, PhaseScenesAssumption
<1>3. /\ link = scene.links /\ credited = scene.credits /\ paid = {}
      /\ commission = [r \in Records |-> None] /\ bill = [q \in Bills |-> NoBill]
      /\ linked = {l \in Phases \X Invoices : scene.links[l[1]] = l[2]}
      /\ split = scene.splits /\ referenced = {credit[2] : credit \in scene.credits}
  BY <1>1 DEF PlacementsInit, PhasesInit
<1>4. PhasesTypeOK
  BY <1>2, <1>3, NoBillOK DEF PhasesTypeOK
<1>5. SplitTypes /\ References
  BY <1>2, <1>3, PhaseScenesAssumption DEF SplitTypes, References, Assigned
<1>6. CreditsHold
  BY <1>2, <1>3 DEF CreditsHold
<1>7. LinksNoted /\ PhaseCredited /\ ReleasedByLinked
  BY <1>3 DEF LinksNoted, PhaseCredited, ReleasedByLinked
<1>8. \A q \in Bills : BillOK(bill[q])
  BY <1>3, NoBillOK
<1>9. QED
  BY <1>4, <1>5, <1>6, <1>7, <1>8 DEF PhasesInv

(* Requests of Placements: what they leave of the splits.                   *)
SplitsHeld ==
  /\ SplitTypes'
  /\ referenced' = referenced
  /\ \A c \in Contributors :
       split[c] # None =>
         split'[c] = split[c] \/ (split'[c] = Deleted /\ c \notin referenced)

LEMMA PlacementsKeepSplits == ASSUME SplitTypes, [PlacementsNext]_placementVars PROVE SplitsHeld
<1>1. split \in [Contributors -> [place : Placements, pct : Splits] \cup {None, Deleted}]
  BY DEF SplitTypes
<1>2. ASSUME NEW c \in Contributors, NEW p \in Placements, NEW pct \in Splits,
             InsertSplit(c, p, pct), referenced' = referenced
      PROVE  SplitsHeld
  BY <1>1, <1>2 DEF InsertSplit, SplitsHeld, SplitTypes
<1>3. ASSUME NEW c, deleteContributor(c), referenced' = referenced PROVE SplitsHeld
  BY <1>1, <1>3 DEF deleteContributor, SplitsHeld, SplitTypes
<1>4. ASSUME split' = split, referenced' = referenced PROVE SplitsHeld
  BY <1>4 DEF SplitsHeld, SplitTypes
<1>5. ASSUME NEW c \in Contributors, AddContributor(c) PROVE SplitsHeld
  BY <1>2, <1>5 DEF AddContributor
<1>6. ASSUME NEW c \in Contributors, DeleteContributor(c) PROVE SplitsHeld
  BY <1>3, <1>6 DEF DeleteContributor
<1>7. ASSUME NEW q \in Requests, NEW c \in Contributors, FinalizeRequest(q, c) PROVE SplitsHeld
  BY <1>2, <1>7 DEF FinalizeRequest
<1>8. ASSUME NEW q \in Requests, UndoSplit(q) PROVE SplitsHeld
  BY <1>3, <1>8 DEF UndoSplit
<1>9. ASSUME NEW p \in Placements, CreatePlacement(p) PROVE SplitsHeld
  BY <1>4, <1>9 DEF CreatePlacement
<1>10. ASSUME NEW q \in Requests, Intake(q) \/ Attribution(q) \/ SumSplits(q) \/ Fail(q)
       PROVE  SplitsHeld
  BY <1>4, <1>10 DEF Intake, ImportRequest, ImportRow, EndImport, PatchRequest, UpdateRow,
     AuditFlag,
     Attribution, AttributionRequest, UpdateStatus, InsertEvent, SumSplits, Fail, tables
<1>11. CASE UNCHANGED placementVars
  BY <1>4, <1>11 DEF placementVars
<1>12. QED
  BY <1>5, <1>6, <1>7, <1>8, <1>9, <1>10, <1>11 DEF PlacementsNext, Finalize

LEMMA PlacementsSide == ASSUME PhasesInv, SplitsHeld, UNCHANGED phaseVars PROVE PhasesInv'
<1>1. UNCHANGED <<link, credited, paid, commission, bill, linked>>
  BY DEF phaseVars
<1>2. /\ referenced \subseteq Contributors /\ References /\ CreditsHold
      /\ \A c \in referenced : split[c] # None /\ split'[c] = split[c]
  BY DEF PhasesInv, SplitTypes, SplitsHeld, References, Assigned
<1>3. PhasesTypeOK' /\ SplitTypes'
  BY <1>1 DEF PhasesInv, PhasesTypeOK, SplitsHeld
<1>4. References'
  BY <1>2 DEF SplitsHeld, References, Assigned
<1>5. CreditsHold'
  BY <1>1, <1>2 DEF SplitsHeld, CreditsHold
<1>6. LinksNoted' /\ PhaseCredited' /\ ReleasedByLinked'
  BY <1>1 DEF PhasesInv, LinksNoted, PhaseCredited, ReleasedByLinked
<1>7. ASSUME NEW q \in Bills PROVE BillOK(bill[q])'
  <2>1. BillOK(bill[q]) /\ bill'[q] = bill[q]
    BY <1>1 DEF PhasesInv
  <2>2. ASSUME bill[q].pc = "insertCredit"
        PROVE  LET c == bill[q].contributor
               IN split'[c] # None /\ (split'[c] \notin {None, Deleted} => split'[c].place = bill[q].phase[1])
    <3>1. /\ bill[q].contributor \in Contributors /\ split[bill[q].contributor] # None
          /\ split[bill[q].contributor] # Deleted =>
               split[bill[q].contributor].place = bill[q].phase[1]
      BY <2>1, <2>2 DEF BillOK, Assigned
    <3>2. QED
      BY <3>1, NullAssumption DEF SplitsHeld
  <2>3. QED
    BY <1>1, <2>1, <2>2 DEF BillOK, Assigned
<1>8. QED
  BY <1>3, <1>4, <1>5, <1>6, <1>7 DEF PhasesInv

(* Requests of a phase: the tables a handler knows something of only grow.  *)
Grows ==
  /\ split' = split
  /\ credited \subseteq credited' /\ paid \subseteq paid' /\ linked \subseteq linked'

LEMMA BillGrows ==
  ASSUME NEW b, BillOK(b), Grows PROVE BillOK(b)'
BY DEF BillOK, Grows, Assigned

LEMMA BillServed ==
  ASSUME PhasesInv, Grows, NEW q \in Bills, NEW next \in Bill, BillOK(next)',
         bill' = [bill EXCEPT ![q] = next]
  PROVE  bill' \in [Bills -> Bill] /\ (\A d \in Bills : BillOK(bill[d]))'
<1>1. bill \in [Bills -> Bill] /\ \A d \in Bills : BillOK(bill[d])
  BY DEF PhasesInv, PhasesTypeOK
<1>2. bill' \in [Bills -> Bill]
  BY <1>1
<1>3. ASSUME NEW d \in Bills PROVE BillOK(bill[d])'
  <2>1. PICK b : b = bill'[d]
    OBVIOUS
  <2>2. b = next \/ b = bill[d]
    BY <1>1, <2>1
  <2>3. CASE b = next
    <3>1. BillOK(b)'
      BY <2>3
    <3>2. QED
      BY <2>1, <3>1 DEF BillOK
  <2>4. CASE b = bill[d]
    <3>1. BillOK(b)
      BY <1>1, <2>4
    <3>2. BillOK(b)'
      BY <3>1, BillGrows
    <3>3. QED
      BY <2>1, <3>2 DEF BillOK
  <2>5. QED
    BY <2>2, <2>3, <2>4
<1>4. QED
  BY <1>2, <1>3

(* A statement that only reads.                                             *)
LEMMA BillReads ==
  ASSUME PhasesInv, NEW q \in Bills, NEW next \in Bill, BillOK(next),
         bill' = [bill EXCEPT ![q] = next],
         UNCHANGED <<placementVars, phaseTables, linked>>
  PROVE  PhasesInv'
<1>1. UNCHANGED <<split, referenced, link, credited, paid, commission, linked>>
  BY DEF placementVars, phaseTables
<1>2. Grows
  BY <1>1 DEF Grows
<1>3. BillOK(next)'
  BY <1>2, BillGrows
<1>4. bill' \in [Bills -> Bill] /\ (\A d \in Bills : BillOK(bill[d]))'
  BY <1>2, <1>3, BillServed
<1>5. PhasesTypeOK' /\ SplitTypes'
  BY <1>1, <1>4 DEF PhasesInv, PhasesTypeOK, SplitTypes
<1>6. References' /\ CreditsHold'
  BY <1>1 DEF PhasesInv, References, CreditsHold, Assigned
<1>7. LinksNoted' /\ PhaseCredited' /\ ReleasedByLinked'
  BY <1>1 DEF PhasesInv, LinksNoted, PhaseCredited, ReleasedByLinked
<1>8. QED
  BY <1>4, <1>5, <1>6, <1>7 DEF PhasesInv

LEMMA LinkKept ==
  ASSUME PhasesInv, NEW ph \in Phases, NEW i \in Invoices \cup {None}, SetLink(ph, i)
  PROVE  PhasesInv'
<1>1. /\ link' = [link EXCEPT ![ph] = i]
      /\ linked' = IF i = None THEN linked ELSE linked \cup {<<ph, i>>}
      /\ UNCHANGED <<split, referenced, credited, paid, commission, bill>>
  BY DEF SetLink, placementVars
<1>2. PhasesTypeOK /\ LinksNoted /\ \A d \in Bills : BillOK(bill[d])
  BY DEF PhasesInv
<1>3. Grows
  BY <1>1 DEF Grows
<1>4. PhasesTypeOK'
  BY <1>1, <1>2 DEF PhasesTypeOK
<1>5. SplitTypes' /\ References' /\ CreditsHold'
  BY <1>1 DEF PhasesInv, SplitTypes, References, CreditsHold, Assigned
<1>6. LinksNoted'
  BY <1>1, <1>2, InvoicesAssumption DEF LinksNoted, PhasesTypeOK
<1>7. PhaseCredited' /\ ReleasedByLinked'
  <2>1. linked \subseteq linked'
    BY <1>3 DEF Grows
  <2>2. QED
    BY <1>1, <2>1 DEF PhasesInv, PhaseCredited, ReleasedByLinked
<1>8. ASSUME NEW d \in Bills PROVE BillOK(bill[d])'
  <2>1. PICK b : b = bill[d]
    OBVIOUS
  <2>2. BillOK(b)'
    BY <1>2, <1>3, <2>1, BillGrows
  <2>3. b = bill'[d]
    BY <1>1, <2>1
  <2>4. QED
    BY <2>2, <2>3 DEF BillOK
<1>9. QED
  BY <1>4, <1>5, <1>6, <1>7, <1>8 DEF PhasesInv

LEMMA CreditRequestKept ==
  ASSUME PhasesInv, NEW q \in Bills, NEW ph \in Phases, NEW c \in Contributors,
         CreditRequest(q, ph, c)
  PROVE  PhasesInv'
<1>1. PICK next : next = [NoBill EXCEPT !.pc = "insertCredit", !.phase = ph, !.contributor = c]
  OBVIOUS
<1>2. next \in Bill /\ next.pc = "insertCredit" /\ next.phase = ph /\ next.contributor = c
  BY <1>1, NoBillOK DEF Bill
<1>3. Assigned(c) /\ split[c].place = ph[1]
  BY DEF CreditRequest, ContributorsOf
<1>4. BillOK(next)
  BY <1>2, <1>3 DEF BillOK, Assigned
<1>5. bill' = [bill EXCEPT ![q] = next] /\ UNCHANGED <<placementVars, phaseTables, linked>>
  BY <1>1 DEF CreditRequest, Start
<1>6. QED
  BY <1>2, <1>4, <1>5, BillReads

LEMMA InsertCreditKept ==
  ASSUME PhasesInv, NEW q \in Bills, InsertCredit(q) PROVE PhasesInv'
<1>1. PICK c, ph : c = bill[q].contributor /\ ph = bill[q].phase
  OBVIOUS
<1>2. /\ bill[q].pc = "insertCredit" /\ BillOK(bill[q])
      /\ UNCHANGED <<split, link, paid, commission, linked>>
      /\ bill' = [bill EXCEPT ![q] = NoBill]
  BY DEF PhasesInv, InsertCredit, InStep, End
<1>3. ph \in Phases /\ c \in Contributors /\ (Assigned(c) => split[c].place = ph[1])
  BY <1>1, <1>2 DEF BillOK
<1>4. \/ Assigned(c) /\ credited' = credited \cup {<<ph, c>>} /\ referenced' = referenced \cup {c}
      \/ UNCHANGED <<credited, referenced>>
  BY <1>1 DEF InsertCredit
<1>5. Grows
  BY <1>2, <1>4 DEF Grows
<1>6. bill' \in [Bills -> Bill] /\ (\A d \in Bills : BillOK(bill[d]))'
  <2>1. NoBill \in Bill /\ BillOK(NoBill)'
    BY <1>5, NoBillOK, BillGrows
  <2>2. QED
    BY <1>2, <1>5, <2>1, BillServed
<1>7. PhasesTypeOK' /\ SplitTypes'
  BY <1>2, <1>3, <1>4, <1>6 DEF PhasesInv, PhasesTypeOK, SplitTypes
<1>8. References' /\ CreditsHold'
  BY <1>2, <1>3, <1>4 DEF PhasesInv, References, CreditsHold, Assigned
<1>9. LinksNoted' /\ PhaseCredited' /\ ReleasedByLinked'
  BY <1>2, <1>4 DEF PhasesInv, LinksNoted, PhaseCredited, ReleasedByLinked
<1>10. QED
  BY <1>6, <1>7, <1>8, <1>9 DEF PhasesInv

LEMMA CalculateKept ==
  ASSUME PhasesInv, NEW q \in Bills, NEW p \in Placements, CalculateRequest(q, p)
  PROVE  PhasesInv'
<1>1. PICK phases, links :
        /\ phases = {ph \in Phases : ph[1] = p /\ PhaseExists(ph)}
        /\ links = [ph \in Phases |-> IF ph \in phases THEN link[ph] ELSE "absent"]
  OBVIOUS
<1>2. PICK next : next = [NoBill EXCEPT !.pc = "nextPhase", !.todo = phases, !.links = links]
  OBVIOUS
<1>3. link \in [Phases -> Invoices \cup {None, "absent"}] /\ LinksNoted
  BY DEF PhasesInv, PhasesTypeOK
<1>4. phases \subseteq Phases /\ links \in [Phases -> Invoices \cup {None, "absent"}]
  BY <1>1, <1>3
<1>5. next \in Bill /\ next.pc = "nextPhase" /\ next.todo = phases /\ next.links = links
  BY <1>2, <1>4, NoBillOK DEF Bill
<1>6. \A ph \in phases : links[ph] \in Invoices => <<ph, links[ph]>> \in linked
  BY <1>1, <1>3, <1>4 DEF LinksNoted
<1>7. BillOK(next)
  BY <1>5, <1>6 DEF BillOK
<1>8. bill' = [bill EXCEPT ![q] = next] /\ UNCHANGED <<placementVars, phaseTables, linked>>
  BY <1>1, <1>2 DEF CalculateRequest, Start
<1>9. QED
  BY <1>5, <1>7, <1>8, BillReads

LEMMA EndKept ==
  ASSUME PhasesInv, NEW q \in Bills, End(q), UNCHANGED <<placementVars, phaseTables, linked>>
  PROVE  PhasesInv'
BY NoBillOK, BillReads DEF End

LEMMA ListKept ==
  ASSUME PhasesInv, NEW q \in Bills, ListPhaseContributors(q) PROVE PhasesInv'
<1>1. CASE End(q)
  BY <1>1, EndKept DEF ListPhaseContributors
<1>2. ASSUME NEW ph \in bill[q].todo,
             bill' = [bill EXCEPT ![q].todo = @ \ {ph}, ![q].phase = ph,
                                  ![q].payees = {c \in Contributors : <<ph, c>> \in credited},
                                  ![q].pc = "readInvoice"]
      PROVE  PhasesInv'
  <2>1. PICK b, payees : b = bill[q] /\ payees = {c \in Contributors : <<ph, c>> \in credited}
    OBVIOUS
  <2>2. b \in Bill /\ BillOK(b) /\ b.pc = "nextPhase" /\ ph \in b.todo
    BY <1>2, <2>1 DEF PhasesInv, PhasesTypeOK, ListPhaseContributors, InStep
  <2>3. PICK next : next = [b EXCEPT !.todo = @ \ {ph}, !.phase = ph, !.payees = payees,
                                     !.pc = "readInvoice"]
    OBVIOUS
  <2>4. /\ next \in Bill /\ next.pc = "readInvoice" /\ next.todo = b.todo \ {ph}
        /\ next.phase = ph /\ next.payees = payees /\ next.links = b.links
    BY <2>1, <2>2, <2>3 DEF Bill
  <2>5. ph \in Phases /\ \A d \in b.todo : b.links[d] \in Invoices => <<d, b.links[d]>> \in linked
    BY <2>2 DEF Bill, BillOK
  <2>6. BillOK(next)
    BY <2>1, <2>2, <2>4, <2>5 DEF BillOK
  <2>7. bill' = [bill EXCEPT ![q] = next]
    BY <1>2, <2>1, <2>3 DEF PhasesInv, PhasesTypeOK
  <2>8. QED
    BY <2>4, <2>6, <2>7, BillReads DEF ListPhaseContributors
<1>3. QED
  BY <1>1, <1>2 DEF ListPhaseContributors

LEMMA ReadKept ==
  ASSUME PhasesInv, NEW q \in Bills, ReadInvoice(q) PROVE PhasesInv'
<1>1. PICK b, collected : b = bill[q] /\ collected = (b.links[b.phase] \in paid)
  OBVIOUS
<1>2. b \in Bill /\ BillOK(b) /\ b.pc = "readInvoice" /\ paid \subseteq Invoices
  BY <1>1 DEF PhasesInv, PhasesTypeOK, ReadInvoice, InStep
<1>3. PICK links : links = [b.links EXCEPT ![b.phase] = "absent"]
  OBVIOUS
<1>4. /\ links \in [Phases -> Invoices \cup {None, "absent"}]
      /\ \A ph \in b.todo : links[ph] = b.links[ph]
  BY <1>2, <1>3 DEF Bill, BillOK
<1>5. PICK next : next = [b EXCEPT !.collected = collected, !.links = links,
!.pc = "insertRecords"]
  OBVIOUS
<1>6. collected \in BOOLEAN
  BY <1>1
<1>7. /\ next \in Bill /\ next.pc = "insertRecords" /\ next.todo = b.todo
      /\ next.phase = b.phase /\ next.payees = b.payees /\ next.links = links
  BY <1>2, <1>4, <1>5, <1>6 DEF Bill
<1>8. next.collected = collected
  BY <1>2, <1>5 DEF Bill
<1>9. next.collected => \E i \in paid : <<b.phase, i>> \in linked
  BY <1>1, <1>2, <1>8 DEF BillOK
<1>10. BillOK(next)
  BY <1>2, <1>4, <1>7, <1>9 DEF BillOK
<1>11. bill' = [bill EXCEPT ![q] = next]
  BY <1>1, <1>3, <1>5 DEF ReadInvoice, PhasesInv, PhasesTypeOK
<1>12. QED
  BY <1>7, <1>10, <1>11, BillReads DEF ReadInvoice

LEMMA InsertRecordKept ==
  ASSUME PhasesInv, NEW q \in Bills, NEW r \in Records, InsertRecord(q, r) PROVE PhasesInv'
<1>1. PICK b, c : /\ b = bill[q] /\ c \in b.payees
                  /\ commission' = [commission EXCEPT ![r] =
                       [phase |-> b.phase, contributor |-> c,
                        status |-> IF b.collected THEN "Accrued" ELSE "Held"]]
                  /\ referenced' = referenced \cup {c}
                  /\ bill' = [bill EXCEPT ![q].payees = @ \ {c}]
  BY DEF InsertRecord
<1>2. /\ b \in Bill /\ BillOK(b) /\ b.pc = "insertRecords"
      /\ UNCHANGED <<split, link, credited, paid, linked>>
  BY <1>1 DEF PhasesInv, PhasesTypeOK, InsertRecord, InStep
<1>3. /\ b.phase \in Phases /\ c \in Contributors /\ <<b.phase, c>> \in credited
      /\ b.collected => \E i \in paid : <<b.phase, i>> \in linked
  BY <1>1, <1>2 DEF BillOK, Bill
<1>4. PICK next : next = [b EXCEPT !.payees = @ \ {c}]
  OBVIOUS
<1>5. /\ next \in Bill /\ next.pc = b.pc /\ next.todo = b.todo /\ next.phase = b.phase
      /\ next.payees \subseteq b.payees /\ next.links = b.links
  BY <1>2, <1>4 DEF Bill
<1>6. next.collected <=> b.collected
  BY <1>2, <1>4 DEF Bill
<1>7. BillOK(next)
  BY <1>2, <1>5, <1>6 DEF BillOK
<1>8. bill' = [bill EXCEPT ![q] = next]
  BY <1>1, <1>4 DEF PhasesInv, PhasesTypeOK
<1>9. Grows
  BY <1>2 DEF Grows
<1>10. bill' \in [Bills -> Bill] /\ (\A d \in Bills : BillOK(bill[d]))'
  BY <1>5, <1>7, <1>8, <1>9, BillGrows, BillServed
<1>11. PICK new : new = [phase |-> b.phase, contributor |-> c,
                         status |-> IF b.collected THEN "Accrued" ELSE "Held"]
  OBVIOUS
<1>12. /\ new \in Record /\ new.phase = b.phase /\ new.contributor = c
       /\ new.status # "Held" => b.collected
  BY <1>3, <1>11 DEF Record
<1>13. commission' = [commission EXCEPT ![r] = new]
  BY <1>1, <1>11
<1>14. commission \in [Records -> Record \cup {None}]
  BY DEF PhasesInv, PhasesTypeOK
<1>15. PhasesTypeOK'
  BY <1>2, <1>10, <1>12, <1>13, <1>14 DEF PhasesInv, PhasesTypeOK
<1>16. c \in referenced
  BY <1>3 DEF PhasesInv, CreditsHold
<1>17. SplitTypes' /\ References' /\ CreditsHold' /\ LinksNoted'
  BY <1>1, <1>2, <1>16 DEF PhasesInv, SplitTypes, References, CreditsHold, LinksNoted, Assigned
<1>18. PhaseCredited'
  BY <1>2, <1>3, <1>12, <1>13, <1>14 DEF PhasesInv, PhaseCredited
<1>19. ReleasedByLinked'
  BY <1>2, <1>3, <1>12, <1>13, <1>14 DEF PhasesInv, ReleasedByLinked
<1>20. QED
  BY <1>10, <1>15, <1>17, <1>18, <1>19 DEF PhasesInv

LEMMA PhaseDoneKept ==
  ASSUME PhasesInv, NEW q \in Bills, PhaseDone(q) PROVE PhasesInv'
<1>1. PICK b : b = bill[q]
  OBVIOUS
<1>2. b \in Bill /\ BillOK(b) /\ b.pc = "insertRecords"
  BY <1>1 DEF PhasesInv, PhasesTypeOK, PhaseDone, InStep
<1>3. PICK next : next = [b EXCEPT !.pc = "nextPhase"]
  OBVIOUS
<1>4. /\ next \in Bill /\ next.pc = "nextPhase" /\ next.todo = b.todo /\ next.links = b.links
  BY <1>2, <1>3 DEF Bill
<1>5. BillOK(next)
  BY <1>2, <1>4 DEF BillOK
<1>6. bill' = [bill EXCEPT ![q] = next]
  BY <1>1, <1>3 DEF PhaseDone, Step, PhasesInv, PhasesTypeOK
<1>7. QED
  BY <1>4, <1>5, <1>6, BillReads DEF PhaseDone

LEMMA PayKept ==
  ASSUME PhasesInv, NEW q \in Bills, NEW i \in Invoices, PayInvoice(q, i) PROVE PhasesInv'
<1>1. PICK next : next = [NoBill EXCEPT !.pc = "selectPhases", !.invoice = i]
  OBVIOUS
<1>2. next \in Bill /\ next.pc = "selectPhases" /\ next.invoice = i
  BY <1>1, NoBillOK DEF Bill
<1>3. /\ bill' = [bill EXCEPT ![q] = next] /\ paid' = paid \cup {i}
      /\ UNCHANGED <<split, referenced, link, credited, commission, linked>>
  BY <1>1 DEF PayInvoice, Start, placementVars
<1>4. Grows
  BY <1>3 DEF Grows
<1>5. BillOK(next)'
  BY <1>2, <1>3 DEF BillOK
<1>6. bill' \in [Bills -> Bill] /\ (\A d \in Bills : BillOK(bill[d]))'
  BY <1>2, <1>3, <1>4, <1>5, BillServed
<1>7. PhasesTypeOK' /\ SplitTypes' /\ References' /\ CreditsHold' /\ LinksNoted'
  BY <1>3, <1>6
     DEF PhasesInv, PhasesTypeOK, SplitTypes, References, CreditsHold, LinksNoted, Assigned
<1>8. PhaseCredited' /\ ReleasedByLinked'
  BY <1>3 DEF PhasesInv, PhaseCredited, ReleasedByLinked
<1>9. QED
  BY <1>6, <1>7, <1>8 DEF PhasesInv

LEMMA SelectKept ==
  ASSUME PhasesInv, NEW q \in Bills, SelectPhases(q) PROVE PhasesInv'
<1>1. PICK b, todo : b = bill[q] /\ todo = {ph \in Phases : link[ph] = b.invoice}
  OBVIOUS
<1>2. b \in Bill /\ BillOK(b) /\ b.pc = "selectPhases"
  BY <1>1 DEF PhasesInv, PhasesTypeOK, SelectPhases, InStep
<1>3. PICK next : next = [b EXCEPT !.todo = todo, !.pc = "releasePhases"]
  OBVIOUS
<1>4. /\ next \in Bill /\ next.pc = "releasePhases" /\ next.todo = todo
      /\ next.invoice = b.invoice
  BY <1>1, <1>2, <1>3 DEF Bill
<1>5. b.invoice \in paid /\ b.invoice \in Invoices
  BY <1>2 DEF BillOK, PhasesInv, PhasesTypeOK
<1>6. \A ph \in todo : <<ph, b.invoice>> \in linked
  BY <1>1, <1>5 DEF PhasesInv, LinksNoted
<1>7. BillOK(next)
  BY <1>4, <1>5, <1>6 DEF BillOK
<1>8. bill' = [bill EXCEPT ![q] = next]
  BY <1>1, <1>3 DEF SelectPhases, PhasesInv, PhasesTypeOK
<1>9. QED
  BY <1>4, <1>7, <1>8, BillReads DEF SelectPhases

LEMMA ReleaseKept ==
  ASSUME PhasesInv, NEW q \in Bills, ReleasePhase(q) PROVE PhasesInv'
<1>1. CASE End(q) /\ UNCHANGED commission
  BY <1>1, EndKept DEF ReleasePhase, phaseTables
<1>2. ASSUME NEW ph \in bill[q].todo,
             commission' = [r \in Records |->
               IF commission[r] # None /\ commission[r].phase = ph
                                       /\ commission[r].status = "Held"
                 THEN [commission[r] EXCEPT !.status = "Payable"]
                 ELSE commission[r]],
             bill' = [bill EXCEPT ![q].todo = @ \ {ph}]
      PROVE  PhasesInv'
  <2>1. PICK b : b = bill[q]
    OBVIOUS
  <2>2. /\ b \in Bill /\ BillOK(b) /\ b.pc = "releasePhases" /\ ph \in b.todo
        /\ UNCHANGED <<split, referenced, link, credited, paid, linked>>
    BY <1>2, <2>1 DEF PhasesInv, PhasesTypeOK, ReleasePhase, InStep, placementVars
  <2>3. PICK next : next = [b EXCEPT !.todo = @ \ {ph}]
    OBVIOUS
  <2>4. /\ next \in Bill /\ next.pc = b.pc /\ next.todo = b.todo \ {ph}
        /\ next.invoice = b.invoice
    BY <2>2, <2>3 DEF Bill
  <2>5. BillOK(next)
    BY <2>2, <2>4 DEF BillOK
  <2>6. bill' = [bill EXCEPT ![q] = next]
    BY <1>2, <2>1, <2>3 DEF PhasesInv, PhasesTypeOK
  <2>7. Grows
    BY <2>2 DEF Grows
  <2>8. bill' \in [Bills -> Bill] /\ (\A d \in Bills : BillOK(bill[d]))'
    BY <2>4, <2>5, <2>6, <2>7, BillGrows, BillServed
  <2>9. b.invoice \in paid /\ <<ph, b.invoice>> \in linked
    BY <2>2 DEF BillOK
  <2>10. commission \in [Records -> Record \cup {None}]
    BY DEF PhasesInv, PhasesTypeOK
  <2>11. ASSUME NEW r \in Records
         PROVE  /\ commission'[r] \in Record \cup {None}
                /\ commission'[r] # None =>
                     /\ commission[r] # None
                     /\ commission'[r].phase = commission[r].phase
                     /\ commission'[r].contributor = commission[r].contributor
                     /\ \/ commission'[r].status = commission[r].status
                        \/ commission[r].phase = ph
    BY <1>2, <2>10 DEF Record
  <2>12. commission' \in [Records -> Record \cup {None}]
    BY <1>2, <2>11
  <2>13. PhasesTypeOK' /\ SplitTypes' /\ References' /\ CreditsHold' /\ LinksNoted'
    BY <2>2, <2>8, <2>12
       DEF PhasesInv, PhasesTypeOK, SplitTypes, References, CreditsHold, LinksNoted, Assigned
  <2>14. PhaseCredited'
    BY <2>2, <2>11 DEF PhasesInv, PhaseCredited
  <2>15. ReleasedByLinked'
    BY <2>2, <2>9, <2>11 DEF PhasesInv, ReleasedByLinked
  <2>16. QED
    BY <2>8, <2>13, <2>14, <2>15 DEF PhasesInv
<1>3. QED
  BY <1>1, <1>2 DEF ReleasePhase

LEMMA BreakOffKept ==
  ASSUME PhasesInv, NEW q \in Bills, BreakOff(q) PROVE PhasesInv'
BY EndKept DEF BreakOff

LEMMA PhasesStep == PhasesInv /\ [Next]_vars => PhasesInv'
<1>1. SUFFICES ASSUME PhasesInv, [Next]_vars PROVE PhasesInv'
  OBVIOUS
<1>2. ASSUME [PlacementsNext]_placementVars, UNCHANGED phaseVars PROVE PhasesInv'
  BY <1>1, <1>2, PlacementsKeepSplits, PlacementsSide DEF PhasesInv
<1>3. ASSUME NEW ph \in Phases, NEW i \in Invoices \cup {None},
             CreateBillingPhase(ph, i) \/ UpdateBillingPhase(ph, i)
      PROVE  PhasesInv'
  BY <1>1, <1>3, LinkKept DEF CreateBillingPhase, InsertPhase, UpdateBillingPhase
<1>4. ASSUME NEW q \in Bills,
             \/ \E ph \in Phases, c \in Contributors : CreditRequest(q, ph, c)
             \/ InsertCredit(q)
             \/ \E p \in Placements : CalculateRequest(q, p)
             \/ ListPhaseContributors(q) \/ ReadInvoice(q)
             \/ \E r \in Records : InsertRecord(q, r)
             \/ PhaseDone(q)
             \/ \E i \in Invoices : PayInvoice(q, i)
             \/ SelectPhases(q) \/ ReleasePhase(q) \/ BreakOff(q)
      PROVE  PhasesInv'
  BY <1>1, <1>4, CreditRequestKept, InsertCreditKept, CalculateKept, ListKept, ReadKept,
     InsertRecordKept, PhaseDoneKept, PayKept, SelectKept, ReleaseKept, BreakOffKept
<1>5. CASE PhasesNext
  BY <1>3, <1>4, <1>5 DEF PhasesNext
<1>6. QED
  BY <1>1, <1>2, <1>5 DEF Next, vars

LEMMA PhasesInvariance == Spec => []PhasesInv
BY PhasesStart, PhasesStep, PTL DEF Spec

(* However the links of a phase are changed, its contributors deleted and   *)
(* its commission calculated while an invoice is paid, what is credited on  *)
(* a phase stays with its placement, what accrues is credited there, and    *)
(* what is released was released by a paid invoice of that phase            *)
(* (handleCreatePhaseContributor, handleCalculatePhaseCommissions,          *)
(* releasePhaseCollectionGate).                                             *)
THEOREM PhasesAreSound == Spec => []PhasesSound
<1>1. PhasesInv => PhasesSound
  BY DEF PhasesInv, References, CreditsHold, PhasesSound, CreditsValid
<1>2. QED
  BY <1>1, PhasesInvariance, PTL

-----------------------------------------------------------------------------
(* Placements.  The request that will write a row carries the expiry of the *)
(* dates that it will write.                                                *)
RequestOK(m) ==
  /\ m.pc = "updateRow" =>
       /\ m.place \in Placements /\ m.body \in Bodies
       /\ m.body.start \notin {None, Absent} /\ m.body.days \notin {None, Absent} =>
            m.expiry = computeGuaranteeExpiryDate(m.body.start, m.body.days)
  /\ m.pc = "auditFlag" =>
       m.body \in Bodies /\ m.body.confidential # Absent /\ m.body.confidential # m.before
  /\ m.pc \in {"updateStatus", "insertEvent"} => m.place \in Placements /\ m.event \in Events
  /\ m.pc \notin {"updateStatus", "insertEvent"} => m.event = None
  /\ m.pc \in {"sumSplits", "undoSplit"} => m.contributor \in Contributors

Decides(q, p) == req[q].event # None /\ req[q].place = p

Notes(q, p) == req[q].pc = "insertEvent" /\ req[q].place = p

(* As long as nobody interferes with the attribution of a placement, one    *)
(* request at most decides on it, and its status is that of the event which *)
(* that request will note, or of the last that was noted.                   *)
Journaled(p) ==
  /\ \A q, r \in Requests : Decides(q, p) /\ Decides(r, p) => q = r
  /\ \A q \in Requests : Notes(q, p) => row[p].status = To(req[q].event)
  /\ timeline[p] # <<>> /\ (\A q \in Requests : ~Notes(q, p)) =>
       row[p].status = To(timeline[p][Len(timeline[p])])
  /\ timeline[p] # <<>> \/ (\E q \in Requests : Decides(q, p)) => PlacementExists(p)

PlacementsInv ==
  /\ PlacementsTypeOK /\ ExpiryMatches
  /\ \A q \in Requests : RequestOK(req[q])
  /\ \A p \in Placements \ disturbed : Journaled(p)

LEMMA IdleTyped ==
  /\ Idle \in Request /\ Idle.pc = "idle" /\ Idle.event = None /\ RequestOK(Idle)
<1>1. Idle \in Request /\ Idle.pc = "idle" /\ Idle.event = None
  BY DEF Idle, Request
<1>2. QED
  BY <1>1 DEF RequestOK

LEMMA PlacementsStart == ASSUME NEW scene \in Scenes, PlacementsInit(scene) PROVE PlacementsInv
<1>1. /\ row = scene.rows /\ split = scene.splits /\ timeline = [p \in Placements |-> <<>>]
      /\ flagAudit = {} /\ req = [q \in Requests |-> Idle] /\ desk = scene.operations
      /\ finalized = {} /\ disturbed = {}
      /\ referenced = {credit[2] : credit \in scene.credits}
  BY DEF PlacementsInit
<1>2. /\ scene.rows \in [Placements -> Row]
      /\ scene.splits \in [Contributors -> [place : Placements, pct : Splits] \cup {None}]
      /\ \A p \in Placements : scene.rows[p].start = None \/ scene.rows[p].days = None
      /\ scene.credits \subseteq Phases \X Contributors
  BY ScenesAssumption, PhaseScenesAssumption
<1>3. PlacementsTypeOK
  BY <1>1, <1>2, IdleTyped DEF PlacementsTypeOK
<1>4. ExpiryMatches
  BY <1>1, <1>2 DEF ExpiryMatches
<1>5. QED
  BY <1>1, <1>3, <1>4, IdleTyped DEF PlacementsInv, Journaled, Decides, Notes

(* A request that does not decide takes its next step, and leaves the rows  *)
(* of placements and their journal alone.                                   *)
LEMMA AsideStep ==
  ASSUME PlacementsInv, PlacementsTypeOK', UNCHANGED <<row, timeline>>,
         disturbed \subseteq disturbed',
         NEW q \in Requests, NEW m \in Request, req' = [req EXCEPT ![q] = m],
         RequestOK(m), m.event = None, req[q].pc # "insertEvent" \/ req[q].place \in disturbed'
  PROVE  PlacementsInv'
<1>1. /\ req'[q] = m /\ \A r \in Requests : r # q => req'[r] = req[r]
      /\ req \in [Requests -> Request]
  BY DEF PlacementsInv, PlacementsTypeOK
<1>2. ExpiryMatches' /\ \A r \in Requests : RequestOK(req[r])'
  BY <1>1 DEF PlacementsInv, ExpiryMatches, RequestOK, computeGuaranteeExpiryDate
<1>3. ASSUME NEW p \in Placements \ disturbed' PROVE Journaled(p)'
  <2>1. Journaled(p) /\ p \in Placements
    BY <1>3 DEF PlacementsInv
  <2>2. m.pc # "insertEvent"
    BY NullAssumption DEF RequestOK
  <2>3. \A r \in Requests : Decides(r, p)' => Decides(r, p)
    BY <1>1 DEF Decides
  <2>4. \A r \in Requests : Notes(r, p)' <=> Notes(r, p)
    BY <1>1, <1>3, <2>2 DEF Notes
  <2>5. \A r \in Requests : Notes(r, p) => req'[r] = req[r]
    BY <1>1, <1>3, <2>2, <2>4 DEF Notes
  <2>6. QED
    BY <2>1, <2>3, <2>4, <2>5 DEF Journaled, PlacementExists
<1>4. QED
  BY <1>2, <1>3 DEF PlacementsInv

LEMMA ExpiryTyped ==
  ASSUME NEW start \in Dates \cup {None}, NEW days \in Spans \cup {None}
  PROVE  computeGuaranteeExpiryDate(start, days) \in Int \cup {None}
BY DatesAssumption DEF computeGuaranteeExpiryDate

(* One row is written, with an expiry that fits it.                         *)
LEMMA RowWritten ==
  ASSUME PlacementsInv, NEW p \in Placements, NEW r \in Row, row' = [row EXCEPT ![p] = r],
         r.start # None /\ r.days # None =>
           r.expiry = computeGuaranteeExpiryDate(r.start, r.days)
  PROVE  /\ row' \in [Placements -> Row] /\ ExpiryMatches'
         /\ row'[p] = r /\ \A x \in Placements : x # p => row'[x] = row[x]
<1>1. row \in [Placements -> Row] /\ ExpiryMatches
  BY DEF PlacementsInv, PlacementsTypeOK
<1>2. /\ row' \in [Placements -> Row]
      /\ row'[p] = r /\ \A x \in Placements : x # p => row'[x] = row[x]
  BY <1>1
<1>3. QED
  BY <1>1, <1>2 DEF ExpiryMatches, computeGuaranteeExpiryDate

LEMMA CreateKept ==
  ASSUME PlacementsInv, NEW p \in Placements,
         NEW start \in Dates \cup {None}, NEW days \in Spans \cup {None}, NEW conf \in BOOLEAN,
         NEW expiry, expiry = computeGuaranteeExpiryDate(start, days),
         createPlacement(p, start, days, expiry, conf),
         UNCHANGED <<split, timeline, flagAudit, req, referenced, desk, finalized, disturbed>>
  PROVE  PlacementsInv'
<1>1. PICK r : r = [status |-> "Created", start |-> start, days |-> days, expiry |-> expiry,
                    confidential |-> conf]
  OBVIOUS
<1>2. "Created" \in Statuses \cup {"absent"} /\ expiry \in Int \cup {None}
  BY ExpiryTyped DEF Statuses
<1>3. r \in Row /\ r.start = start /\ r.days = days /\ r.expiry = expiry
  BY <1>1, <1>2 DEF Row
<1>4. row' = [row EXCEPT ![p] = r] /\ ~PlacementExists(p)
  BY <1>1 DEF createPlacement
<1>5. /\ row' \in [Placements -> Row] /\ ExpiryMatches'
      /\ \A x \in Placements : x # p => row'[x] = row[x]
  BY <1>3, <1>4, RowWritten
<1>6. PlacementsTypeOK' /\ \A q \in Requests : RequestOK(req[q])'
  BY <1>5 DEF PlacementsInv, PlacementsTypeOK, RequestOK, computeGuaranteeExpiryDate
<1>7. ASSUME NEW x \in Placements \ disturbed PROVE Journaled(x)'
  <2>1. Journaled(x)
    BY DEF PlacementsInv
  <2>2. CASE x # p
    BY <1>5, <2>1, <2>2 DEF Journaled, Decides, Notes, PlacementExists
  <2>3. CASE x = p
    <3>1. timeline[p] = <<>> /\ \A q \in Requests : ~Decides(q, p)
      BY <1>4, <2>1, <2>3 DEF Journaled
    <3>2. \A q \in Requests : ~Notes(q, p)
      BY <3>1, NullAssumption DEF PlacementsInv, RequestOK, Decides, Notes
    <3>3. QED
      BY <2>3, <3>1, <3>2 DEF Journaled, Decides, Notes
  <2>4. QED
    BY <2>2, <2>3
<1>8. QED
  BY <1>5, <1>6, <1>7 DEF PlacementsInv

LEMMA ImportKept ==
  ASSUME PlacementsInv, NEW q \in Requests, ImportRequest(q) \/ EndImport(q) PROVE PlacementsInv'
<1>1. /\ req[q].pc \in {"idle", "importRow"}
      /\ UNCHANGED <<row, split, timeline, flagAudit, referenced, desk, finalized, disturbed>>
  BY DEF ImportRequest, EndImport, Receive, At, tables
<1>2. PICK m : /\ m \in {Idle, [Idle EXCEPT !.pc = "importRow"]}
               /\ req' = [req EXCEPT ![q] = m]
  BY DEF ImportRequest, EndImport, Receive, Return
<1>3. m \in Request /\ m.event = None /\ RequestOK(m)
  <2>1. m = Idle \/ m = [Idle EXCEPT !.pc = "importRow"]
    BY <1>2
  <2>2. CASE m = Idle
    BY <2>2, IdleTyped
  <2>3. CASE m = [Idle EXCEPT !.pc = "importRow"]
    <3>1. m \in Request /\ m.pc = "importRow" /\ m.event = None
      BY <2>3, IdleTyped DEF Request
    <3>2. QED
      BY <3>1 DEF RequestOK
  <2>4. QED
    BY <2>1, <2>2, <2>3
<1>4. PlacementsTypeOK'
  BY <1>1, <1>2, <1>3 DEF PlacementsInv, PlacementsTypeOK
<1>5. QED
  BY <1>1, <1>2, <1>3, <1>4, AsideStep

LEMMA BodyTyped ==
  ASSUME NEW b \in Bodies
  PROVE  /\ b.start \in Dates \cup {None, Absent} /\ b.days \in Spans \cup {None, Absent}
         /\ b.status \in Statuses \cup {Absent} /\ b.confidential \in BOOLEAN \cup {Absent}
BY BodiesAssumption DEF Body

LEMMA PatchKept ==
  ASSUME PlacementsInv, NEW q \in Requests, NEW p \in Placements, NEW b \in Bodies,
         PatchRequest(q, p, b)
  PROVE  PlacementsInv'
<1>1. PICK e \in NewExpiries(b, row[p]) :
        Receive(q, [Idle EXCEPT !.pc = "updateRow", !.place = p, !.body = b,
                                !.expiry = e, !.before = row[p].confidential])
  BY DEF PatchRequest
<1>2. row[p] \in Row
  BY DEF PlacementsInv, PlacementsTypeOK
<1>3. /\ row[p].start \in Dates \cup {None} /\ row[p].days \in Spans \cup {None}
      /\ row[p].confidential \in BOOLEAN
  BY <1>2 DEF Row
<1>4. /\ e \in Int \cup {None}
      /\ b.start \notin {None, Absent} /\ b.days \notin {None, Absent} =>
           e = computeGuaranteeExpiryDate(b.start, b.days)
  <2>1. /\ Given(b.start, row[p].start) \in Dates \cup {None}
        /\ Given(b.days, row[p].days) \in Spans \cup {None}
    BY <1>3, BodyTyped DEF Given
  <2>2. computeGuaranteeExpiryDate(Given(b.start, row[p].start), Given(b.days, row[p].days))
          \in Int \cup {None}
    BY <2>1, ExpiryTyped
  <2>3. QED
    BY <1>1, <2>2 DEF NewExpiries, Given
<1>5. PICK m : m = [Idle EXCEPT !.pc = "updateRow", !.place = p, !.body = b,
                                !.expiry = e, !.before = row[p].confidential]
  OBVIOUS
<1>6. /\ m \in Request /\ m.pc = "updateRow" /\ m.place = p /\ m.body = b /\ m.expiry = e
      /\ m.event = None
  BY <1>3, <1>4, <1>5, IdleTyped DEF Request
<1>7. RequestOK(m)
  BY <1>4, <1>6 DEF RequestOK
<1>8. /\ req' = [req EXCEPT ![q] = m] /\ req[q].pc = "idle"
      /\ UNCHANGED <<row, split, timeline, flagAudit, referenced, desk, finalized, disturbed>>
  BY <1>1, <1>5 DEF PatchRequest, Receive, At, tables
<1>9. PlacementsTypeOK'
  BY <1>6, <1>8 DEF PlacementsInv, PlacementsTypeOK
<1>10. QED
  BY <1>6, <1>7, <1>8, <1>9, AsideStep

LEMMA AuditFlagKept ==
  ASSUME PlacementsInv, NEW q \in Requests, AuditFlag(q) PROVE PlacementsInv'
<1>1. /\ req[q] \in Request /\ req[q].pc = "auditFlag" /\ RequestOK(req[q])
      /\ req' = [req EXCEPT ![q] = Idle]
      /\ UNCHANGED <<row, split, timeline, referenced, desk, finalized, disturbed>>
  BY DEF PlacementsInv, PlacementsTypeOK, AuditFlag, At, Return
<1>2. /\ req[q].before \in BOOLEAN /\ req[q].body \in Bodies
      /\ req[q].body.confidential # Absent /\ req[q].body.confidential # req[q].before
  BY <1>1 DEF RequestOK, Request
<1>3. req[q].body.confidential \in BOOLEAN
  BY <1>2, BodyTyped
<1>4. flagAudit' \subseteq {<<FALSE, TRUE>>, <<TRUE, FALSE>>}
  <2>1. <<req[q].before, req[q].body.confidential>> \in {<<FALSE, TRUE>>, <<TRUE, FALSE>>}
    BY <1>2, <1>3
  <2>2. QED
    BY <2>1 DEF AuditFlag, PlacementsInv, PlacementsTypeOK
<1>5. PlacementsTypeOK'
  BY <1>1, <1>4, IdleTyped DEF PlacementsInv, PlacementsTypeOK
<1>6. QED
  BY <1>1, <1>5, IdleTyped, AsideStep

(* The status that a PATCH writes is one that an attribution leads to only  *)
(* by chance: the placement counts as disturbed then.                       *)
LEMMA UpdateRowKept ==
  ASSUME PlacementsInv, NEW q \in Requests, UpdateRow(q) PROVE PlacementsInv'
<1>1. PICK m, p, b : m = req[q] /\ p = m.place /\ b = m.body
  OBVIOUS
<1>2. /\ m \in Request /\ RequestOK(m) /\ m.pc = "updateRow"
      /\ UNCHANGED <<split, timeline, flagAudit, referenced, desk, finalized>>
  BY <1>1 DEF PlacementsInv, PlacementsTypeOK, UpdateRow, At
<1>3. /\ p \in Placements /\ b \in Bodies /\ m.event = None
      /\ b.start \notin {None, Absent} /\ b.days \notin {None, Absent} =>
           m.expiry = computeGuaranteeExpiryDate(b.start, b.days)
      /\ m.expiry \in Int \cup {None} /\ m.before \in BOOLEAN
  BY <1>1, <1>2 DEF RequestOK, Request
<1>4. row[p] \in Row
  BY <1>3 DEF PlacementsInv, PlacementsTypeOK
<1>5. PICK r : r = Patched(row[p], b, m.expiry)
  OBVIOUS
<1>6. /\ r.status = Given(b.status, row[p].status) /\ r.expiry = m.expiry
      /\ r.start = Given(b.start, None) /\ r.days = Given(b.days, None)
  BY <1>5 DEF Patched
<1>7. r \in Row
  <2>1. /\ Given(b.status, row[p].status) \in Statuses \cup {"absent"}
        /\ Given(b.start, None) \in Dates \cup {None}
        /\ Given(b.days, None) \in Spans \cup {None}
        /\ Given(b.confidential, row[p].confidential) \in BOOLEAN
    BY <1>3, <1>4, BodyTyped DEF Given, Row
  <2>2. QED
    BY <1>3, <1>5, <2>1 DEF Patched, Row
<1>8. r.start # None /\ r.days # None => r.expiry = computeGuaranteeExpiryDate(r.start, r.days)
  BY <1>3, <1>6 DEF Given
<1>9. row' = [row EXCEPT ![p] = r]
  BY <1>1, <1>5 DEF UpdateRow, PlacementsInv, PlacementsTypeOK
<1>10. /\ row' \in [Placements -> Row] /\ ExpiryMatches'
       /\ row'[p] = r /\ \A x \in Placements : x # p => row'[x] = row[x]
  BY <1>3, <1>7, <1>8, <1>9, RowWritten
<1>11. PICK n : /\ n = Idle \/ (n = [m EXCEPT !.pc = "auditFlag"] /\ Changing(q))
                /\ req' = [req EXCEPT ![q] = n]
  <2>1. CASE Changing(q)
    BY <1>1, <2>1 DEF UpdateRow, Goto, PlacementsInv, PlacementsTypeOK
  <2>2. CASE ~Changing(q)
    BY <2>2 DEF UpdateRow, Return
  <2>3. QED
    BY <2>1, <2>2
<1>12. n \in Request /\ RequestOK(n) /\ n.event = None /\ n.pc \in {"idle", "auditFlag"}
  <2>1. CASE n = Idle
    BY <2>1, IdleTyped
  <2>2. CASE n = [m EXCEPT !.pc = "auditFlag"] /\ Changing(q)
    <3>1. /\ n \in Request /\ n.pc = "auditFlag" /\ n.body = b /\ n.before = m.before
          /\ n.event = m.event
      BY <1>1, <1>2, <2>2 DEF Request
    <3>2. QED
      BY <1>1, <1>3, <2>2, <3>1 DEF RequestOK, Changing
  <2>3. QED
    BY <1>11, <2>1, <2>2
<1>13. /\ req' \in [Requests -> Request]
       /\ req'[q] = n /\ \A x \in Requests : x # q => req'[x] = req[x]
  BY <1>11, <1>12 DEF PlacementsInv, PlacementsTypeOK
<1>14. /\ disturbed \subseteq disturbed' /\ disturbed' \subseteq Placements
       /\ b.status # Absent /\ (timeline[p] # <<>> \/ AttributionInFlight(p)) => p \in disturbed'
  BY <1>1, <1>3 DEF UpdateRow, PlacementsInv, PlacementsTypeOK
<1>15. PlacementsTypeOK'
  BY <1>2, <1>10, <1>13, <1>14 DEF PlacementsInv, PlacementsTypeOK
<1>16. \A x \in Requests : RequestOK(req[x])'
  BY <1>12, <1>13 DEF PlacementsInv, RequestOK, computeGuaranteeExpiryDate
<1>17. ASSUME NEW x \in Placements \ disturbed' PROVE Journaled(x)'
  <2>1. Journaled(x) /\ x \in Placements
    BY <1>14, <1>17 DEF PlacementsInv
  <2>2. /\ \A y \in Requests : Decides(y, x)' <=> Decides(y, x)
        /\ \A y \in Requests : Notes(y, x)' <=> Notes(y, x)
        /\ \A y \in Requests : Notes(y, x) => req'[y] = req[y]
    BY <1>1, <1>2, <1>3, <1>12, <1>13 DEF Decides, Notes
  <2>3. CASE row'[x].status = row[x].status
    BY <1>2, <2>1, <2>2, <2>3 DEF Journaled, PlacementExists
  <2>4. CASE row'[x].status # row[x].status
    <3>1. x = p /\ b.status # Absent
      BY <1>6, <1>10, <2>1, <2>4 DEF Given
    <3>2. timeline[x] = <<>> /\ \A y \in Requests : ~Decides(y, x)
      BY <1>14, <1>17, <3>1 DEF AttributionInFlight, Decides
    <3>3. \A y \in Requests : ~Notes(y, x)
      BY <3>2, NullAssumption DEF PlacementsInv, RequestOK, Decides, Notes
    <3>4. QED
      BY <1>2, <2>2, <3>2, <3>3 DEF Journaled
  <2>5. QED
    BY <2>3, <2>4
<1>18. QED
  BY <1>10, <1>15, <1>16, <1>17 DEF PlacementsInv

LEMMA AttributionRequestKept ==
  ASSUME PlacementsInv, NEW q \in Requests, NEW p \in Placements, NEW e \in Events,
         AttributionRequest(q, p, e)
  PROVE  PlacementsInv'
<1>1. PICK m : m = [Idle EXCEPT !.pc = "updateStatus", !.place = p, !.event = e]
  OBVIOUS
<1>2. m \in Request /\ m.pc = "updateStatus" /\ m.place = p /\ m.event = e
  BY <1>1, IdleTyped DEF Request
<1>3. RequestOK(m)
  BY <1>2 DEF RequestOK
<1>4. /\ req' = [req EXCEPT ![q] = m] /\ req[q].pc = "idle" /\ row[p].status = From(e)
      /\ UNCHANGED <<row, split, timeline, flagAudit, referenced, desk, finalized>>
      /\ disturbed \subseteq disturbed' /\ disturbed' \subseteq Placements
      /\ AttributionInFlight(p) => p \in disturbed'
  BY <1>1 DEF AttributionRequest, Receive, At, tables, PlacementsInv, PlacementsTypeOK
<1>5. /\ req' \in [Requests -> Request]
      /\ req'[q] = m /\ \A x \in Requests : x # q => req'[x] = req[x]
  BY <1>2, <1>4 DEF PlacementsInv, PlacementsTypeOK
<1>6. PlacementsTypeOK'
  BY <1>4, <1>5 DEF PlacementsInv, PlacementsTypeOK
<1>7. ExpiryMatches' /\ \A x \in Requests : RequestOK(req[x])'
  BY <1>3, <1>4, <1>5 DEF PlacementsInv, ExpiryMatches, RequestOK, computeGuaranteeExpiryDate
<1>8. e # None /\ req[q].event = None /\ row[p].status # "absent"
  BY <1>4, NullAssumption DEF PlacementsInv, RequestOK, From
<1>9. ASSUME NEW x \in Placements \ disturbed' PROVE Journaled(x)'
  <2>1. Journaled(x) /\ x \in Placements
    BY <1>4 DEF PlacementsInv
  <2>2. /\ \A y \in Requests : Notes(y, x)' <=> Notes(y, x)
        /\ \A y \in Requests : Notes(y, x) => req'[y] = req[y]
    BY <1>2, <1>4, <1>5 DEF Notes
  <2>3. CASE x # p
    <3>1. \A y \in Requests : Decides(y, x)' <=> Decides(y, x)
      BY <1>2, <1>5, <1>8, <2>3 DEF Decides
    <3>2. QED
      BY <1>4, <2>1, <2>2, <3>1 DEF Journaled, PlacementExists
  <2>4. CASE x = p
    <3>1. \A y \in Requests : ~Decides(y, x)
      BY <1>4, <1>9, <2>4 DEF AttributionInFlight, Decides
    <3>2. \A y \in Requests : Decides(y, x)' => y = q
      BY <1>5, <3>1 DEF Decides
    <3>3. QED
      BY <1>4, <1>8, <2>1, <2>2, <2>4, <3>2 DEF Journaled, PlacementExists
  <2>5. QED
    BY <2>3, <2>4
<1>10. QED
  BY <1>6, <1>7, <1>9 DEF PlacementsInv

LEMMA ToTyped == ASSUME NEW e \in Events PROVE To(e) \in Statuses
BY DEF Events, To, Statuses

LEMMA UpdateStatusKept ==
  ASSUME PlacementsInv, NEW q \in Requests, UpdateStatus(q) PROVE PlacementsInv'
<1>1. PICK m, p, e : m = req[q] /\ p = m.place /\ e = m.event
  OBVIOUS
<1>2. /\ m \in Request /\ m.pc = "updateStatus" /\ p \in Placements /\ e \in Events
      /\ UNCHANGED <<split, timeline, flagAudit, referenced, desk, finalized, disturbed>>
  BY <1>1 DEF PlacementsInv, PlacementsTypeOK, UpdateStatus, At, RequestOK
<1>3. row[p] \in Row /\ To(e) \in Statuses /\ To(e) # "absent"
  BY <1>2, ToTyped DEF PlacementsInv, PlacementsTypeOK, Statuses
<1>4. PICK r : r = [row[p] EXCEPT !.status = To(e)]
  OBVIOUS
<1>5. /\ r \in Row /\ r.status = To(e) /\ r.start = row[p].start /\ r.days = row[p].days
      /\ r.expiry = row[p].expiry
  BY <1>3, <1>4 DEF Row
<1>6. r.start # None /\ r.days # None => r.expiry = computeGuaranteeExpiryDate(r.start, r.days)
  BY <1>2, <1>5 DEF PlacementsInv, ExpiryMatches
<1>7. row' = [row EXCEPT ![p] = r]
  BY <1>1, <1>4 DEF UpdateStatus, PlacementsInv, PlacementsTypeOK
<1>8. /\ row' \in [Placements -> Row] /\ ExpiryMatches'
      /\ row'[p] = r /\ \A x \in Placements : x # p => row'[x] = row[x]
  BY <1>2, <1>5, <1>6, <1>7, RowWritten
<1>9. PICK n : n = [m EXCEPT !.pc = "insertEvent"]
  OBVIOUS
<1>10. n \in Request /\ n.pc = "insertEvent" /\ n.place = p /\ n.event = e
  BY <1>1, <1>2, <1>9 DEF Request
<1>11. RequestOK(n)
  BY <1>2, <1>10 DEF RequestOK
<1>12. /\ req' \in [Requests -> Request]
       /\ req'[q] = n /\ \A x \in Requests : x # q => req'[x] = req[x]
  BY <1>1, <1>9, <1>10 DEF UpdateStatus, Goto, PlacementsInv, PlacementsTypeOK
<1>13. PlacementsTypeOK' /\ \A x \in Requests : RequestOK(req[x])'
  <2>1. PlacementsTypeOK'
    BY <1>2, <1>8, <1>12 DEF PlacementsInv, PlacementsTypeOK
  <2>2. \A x \in Requests : RequestOK(req[x])'
    BY <1>11, <1>12 DEF PlacementsInv, RequestOK, computeGuaranteeExpiryDate
  <2>3. QED
    BY <2>1, <2>2
<1>14. ASSUME NEW x \in Placements \ disturbed' PROVE Journaled(x)'
  <2>1. Journaled(x) /\ x \in Placements
    BY <1>2 DEF PlacementsInv
  <2>2. \A y \in Requests : Decides(y, x)' <=> Decides(y, x)
    BY <1>1, <1>10, <1>12 DEF Decides
  <2>3. CASE x # p
    <3>1. /\ \A y \in Requests : Notes(y, x)' <=> Notes(y, x)
          /\ \A y \in Requests : Notes(y, x) => req'[y] = req[y]
      BY <1>1, <1>2, <1>10, <1>12, <2>3 DEF Notes
    <3>2. QED
      BY <1>2, <1>8, <2>1, <2>2, <2>3, <3>1 DEF Journaled, PlacementExists
  <2>4. CASE x = p
    <3>1. Decides(q, x) /\ \A y \in Requests : Decides(y, x) => y = q
      BY <1>1, <1>2, <2>1, <2>4, NullAssumption DEF Decides, Journaled
    <3>2. Notes(q, x)' /\ req'[q].event = e /\ row'[x].status = To(e)
      BY <1>5, <1>8, <1>10, <1>12, <2>4 DEF Notes
    <3>3. \A y \in Requests : Notes(y, x)' => y = q
      <4>1. \A y \in Requests : Notes(y, x) => Decides(y, x)
        BY NullAssumption DEF Notes, Decides, PlacementsInv, RequestOK
      <4>2. QED
        BY <1>12, <3>1, <4>1 DEF Notes
    <3>4. QED
      BY <1>3, <2>1, <2>2, <3>2, <3>3 DEF Journaled, PlacementExists
  <2>5. QED
    BY <2>3, <2>4
<1>15. QED
  BY <1>8, <1>13, <1>14 DEF PlacementsInv

LEMMA InsertEventKept ==
  ASSUME PlacementsInv, NEW q \in Requests, InsertEvent(q) PROVE PlacementsInv'
<1>1. PICK m, p, e : m = req[q] /\ p = m.place /\ e = m.event
  OBVIOUS
<1>2. /\ m.pc = "insertEvent" /\ p \in Placements /\ e \in Events
      /\ req' = [req EXCEPT ![q] = Idle]
      /\ timeline' = [timeline EXCEPT ![p] = Append(@, e)]
      /\ UNCHANGED <<row, split, flagAudit, referenced, desk, finalized, disturbed>>
  BY <1>1 DEF PlacementsInv, InsertEvent, At, RequestOK, Return
<1>3. /\ req' \in [Requests -> Request]
      /\ req'[q] = Idle /\ \A x \in Requests : x # q => req'[x] = req[x]
  BY <1>2, IdleTyped DEF PlacementsInv, PlacementsTypeOK
<1>4. timeline[p] \in Seq(Events)
  BY <1>2 DEF PlacementsInv, PlacementsTypeOK
<1>5. /\ Append(timeline[p], e) \in Seq(Events) /\ Append(timeline[p], e) # <<>>
      /\ Append(timeline[p], e)[Len(Append(timeline[p], e))] = e
  BY <1>2, <1>4
<1>6. /\ timeline' \in [Placements -> Seq(Events)]
      /\ timeline'[p] # <<>> /\ timeline'[p][Len(timeline'[p])] = e
      /\ \A x \in Placements : x # p => timeline'[x] = timeline[x]
  BY <1>2, <1>5 DEF PlacementsInv, PlacementsTypeOK
<1>7. PlacementsTypeOK'
  BY <1>2, <1>3, <1>6 DEF PlacementsInv, PlacementsTypeOK
<1>8. ExpiryMatches' /\ \A x \in Requests : RequestOK(req[x])'
  BY <1>2, <1>3, IdleTyped
     DEF PlacementsInv, ExpiryMatches, RequestOK, computeGuaranteeExpiryDate
<1>9. ASSUME NEW x \in Placements \ disturbed' PROVE Journaled(x)'
  <2>1. Journaled(x) /\ x \in Placements
    BY <1>2 DEF PlacementsInv
  <2>2. \A y \in Requests : Decides(y, x)' => Decides(y, x)
    BY <1>3, IdleTyped DEF Decides
  <2>3. CASE x # p
    <3>1. /\ \A y \in Requests : Notes(y, x)' <=> Notes(y, x)
          /\ \A y \in Requests : Notes(y, x) => req'[y] = req[y]
      BY <1>1, <1>3, <2>3, IdleTyped DEF Notes
    <3>2. QED
      BY <1>2, <1>6, <2>1, <2>2, <2>3, <3>1 DEF Journaled, PlacementExists
  <2>4. CASE x = p
    <3>1. Decides(q, x) /\ Notes(q, x) /\ \A y \in Requests : Decides(y, x) => y = q
      BY <1>1, <1>2, <2>1, <2>4, NullAssumption DEF Decides, Notes, Journaled
    <3>2. \A y \in Requests : ~Decides(y, x)'
      BY <1>3, <2>2, <3>1, IdleTyped DEF Decides
    <3>3. \A y \in Requests : ~Notes(y, x)'
      <4>1. \A y \in Requests : Notes(y, x) => Decides(y, x)
        BY NullAssumption DEF Notes, Decides, PlacementsInv, RequestOK
      <4>2. QED
        BY <1>3, <3>1, <4>1, IdleTyped DEF Notes
    <3>4. row[x].status = To(e) /\ PlacementExists(x)
      BY <1>1, <2>1, <3>1 DEF Journaled
    <3>5. QED
      BY <1>2, <1>6, <2>4, <3>2, <3>3, <3>4 DEF Journaled, PlacementExists
  <2>5. QED
    BY <2>3, <2>4
<1>10. QED
  BY <1>7, <1>8, <1>9 DEF PlacementsInv

(* Splits: what the journal tells is not touched.                           *)
LEMMA SplitsOnly ==
  ASSUME PlacementsInv, UNCHANGED <<row, timeline, flagAudit, req, desk, disturbed>>,
         split' \in [Contributors -> [place : Placements, pct : Splits] \cup {None, Deleted}],
         referenced' \subseteq Contributors, finalized' \subseteq Contributors
  PROVE  PlacementsInv'
<1>1. PlacementsTypeOK' /\ ExpiryMatches'
  BY DEF PlacementsInv, PlacementsTypeOK, ExpiryMatches, computeGuaranteeExpiryDate
<1>2. \A q \in Requests : RequestOK(req[q])'
  BY DEF PlacementsInv, RequestOK, computeGuaranteeExpiryDate
<1>3. \A p \in Placements \ disturbed' : Journaled(p)'
  BY DEF PlacementsInv, Journaled, Decides, Notes, PlacementExists
<1>4. QED
  BY <1>1, <1>2, <1>3 DEF PlacementsInv

LEMMA SplitsKept ==
  ASSUME PlacementsInv, NEW c \in Contributors,
         AddContributor(c) \/ DeleteContributor(c)
  PROVE  PlacementsInv'
<1>1. UNCHANGED <<row, timeline, flagAudit, req, referenced, desk, disturbed>>
  BY DEF AddContributor, DeleteContributor
<1>2. /\ split \in [Contributors -> [place : Placements, pct : Splits] \cup {None, Deleted}]
      /\ finalized \subseteq Contributors
  BY DEF PlacementsInv, PlacementsTypeOK
<1>3. CASE AddContributor(c)
  <2>1. PICK p \in Placements, pct \in Splits :
          split' = [split EXCEPT ![c] = [place |-> p, pct |-> pct]]
    BY <1>3 DEF AddContributor, InsertSplit
  <2>2. split' \in [Contributors -> [place : Placements, pct : Splits] \cup {None, Deleted}]
    BY <1>2, <2>1
  <2>3. finalized' = finalized
    BY <1>3 DEF AddContributor
  <2>4. QED
    BY <1>1, <1>2, <2>2, <2>3, SplitsOnly DEF PlacementsInv, PlacementsTypeOK
<1>4. CASE DeleteContributor(c)
  <2>1. split' = [split EXCEPT ![c] = Deleted] /\ finalized' = finalized \ {c}
    BY <1>4 DEF DeleteContributor, deleteContributor
  <2>2. split' \in [Contributors -> [place : Placements, pct : Splits] \cup {None, Deleted}]
    BY <1>2, <2>1
  <2>3. QED
    BY <1>1, <1>2, <2>1, <2>2, SplitsOnly DEF PlacementsInv, PlacementsTypeOK
<1>5. QED
  BY <1>3, <1>4

LEMMA FinalizeRequestKept ==
  ASSUME PlacementsInv, NEW q \in Requests, NEW c \in Contributors, FinalizeRequest(q, c)
  PROVE  PlacementsInv'
<1>1. PICK p \in Placements, pct \in Splits :
        /\ InsertSplit(c, p, pct)
        /\ Receive(q, [Idle EXCEPT !.pc = "sumSplits", !.place = p, !.contributor = c])
  BY DEF FinalizeRequest
<1>2. PICK m : m = [Idle EXCEPT !.pc = "sumSplits", !.place = p, !.contributor = c]
  OBVIOUS
<1>3. m \in Request /\ m.pc = "sumSplits" /\ m.contributor = c /\ m.event = None
  BY <1>2, IdleTyped DEF Request
<1>4. RequestOK(m)
  BY <1>3 DEF RequestOK
<1>5. /\ req' = [req EXCEPT ![q] = m] /\ req[q].pc = "idle"
      /\ UNCHANGED <<row, timeline, flagAudit, referenced, desk, finalized, disturbed>>
  BY <1>1, <1>2 DEF FinalizeRequest, Receive, At
<1>6. split' \in [Contributors -> [place : Placements, pct : Splits] \cup {None, Deleted}]
  BY <1>1 DEF InsertSplit, PlacementsInv, PlacementsTypeOK
<1>7. PlacementsTypeOK'
  BY <1>3, <1>5, <1>6 DEF PlacementsInv, PlacementsTypeOK
<1>8. QED
  BY <1>3, <1>4, <1>5, <1>7, AsideStep

LEMMA FinalizeKept ==
  ASSUME PlacementsInv, NEW q \in Requests, SumSplits(q) \/ UndoSplit(q) PROVE PlacementsInv'
<1>1. PICK m : m = req[q]
  OBVIOUS
<1>2. /\ m \in Request /\ m.pc \in {"sumSplits", "undoSplit"} /\ m.event = None
      /\ m.contributor \in Contributors
      /\ UNCHANGED <<row, timeline, flagAudit, referenced, desk, disturbed>>
  BY <1>1 DEF PlacementsInv, PlacementsTypeOK, SumSplits, UndoSplit, At, RequestOK, tables
<1>3. /\ split' \in [Contributors -> [place : Placements, pct : Splits] \cup {None, Deleted}]
      /\ finalized' \subseteq Contributors
  BY <1>1, <1>2 DEF PlacementsInv, PlacementsTypeOK, SumSplits, UndoSplit, deleteContributor,
                    tables
<1>4. PICK n : /\ n = Idle \/ n = [m EXCEPT !.pc = "undoSplit"]
               /\ req' = [req EXCEPT ![q] = n]
  BY <1>1 DEF SumSplits, UndoSplit, Goto, Return, PlacementsInv, PlacementsTypeOK
<1>5. n \in Request /\ RequestOK(n) /\ n.event = None
  <2>1. CASE n = Idle
    BY <2>1, IdleTyped
  <2>2. CASE n = [m EXCEPT !.pc = "undoSplit"]
    <3>1. /\ n \in Request /\ n.pc = "undoSplit" /\ n.event = None
          /\ n.contributor \in Contributors
      BY <1>2, <2>2 DEF Request
    <3>2. QED
      BY <3>1 DEF RequestOK
  <2>3. QED
    BY <1>4, <2>1, <2>2
<1>6. PlacementsTypeOK'
  BY <1>2, <1>3, <1>4, <1>5 DEF PlacementsInv, PlacementsTypeOK
<1>7. QED
  BY <1>1, <1>2, <1>4, <1>5, <1>6, AsideStep

LEMMA FailKept ==
  ASSUME PlacementsInv, NEW q \in Requests, Fail(q) PROVE PlacementsInv'
<1>1. /\ req' = [req EXCEPT ![q] = Idle] /\ req[q] \in Request
      /\ UNCHANGED <<row, split, timeline, flagAudit, referenced, desk, finalized>>
      /\ disturbed' = IF req[q].pc = "insertEvent" THEN disturbed \cup {req[q].place}
                                                  ELSE disturbed
      /\ req[q].pc = "insertEvent" => req[q].place \in Placements
  BY DEF Fail, At, Return, tables, PlacementsInv, PlacementsTypeOK, RequestOK
<1>2. PlacementsTypeOK'
  BY <1>1, IdleTyped DEF PlacementsInv, PlacementsTypeOK
<1>3. QED
  BY <1>1, <1>2, IdleTyped, AsideStep

LEMMA PlacementsStep == ASSUME PlacementsInv, [PlacementsNext]_placementVars PROVE PlacementsInv'
<1>1. ASSUME NEW p \in Placements, CreatePlacement(p) PROVE PlacementsInv'
  BY <1>1, CreateKept DEF CreatePlacement
<1>2. ASSUME NEW c \in Contributors, AddContributor(c) \/ DeleteContributor(c) PROVE PlacementsInv'
  BY <1>2, SplitsKept
<1>3. ASSUME NEW q \in Requests, ImportRow(q) PROVE PlacementsInv'
  <2>1. PICK p \in Placements, start \in Dates \cup {None} :
          createPlacement(p, start, None, None, FALSE)
    BY <1>3 DEF ImportRow
  <2>2. None = computeGuaranteeExpiryDate(start, None)
    BY DEF computeGuaranteeExpiryDate
  <2>3. UNCHANGED <<split, timeline, flagAudit, req, referenced, desk, finalized, disturbed>>
    BY <1>3 DEF ImportRow
  <2>4. None \in Spans \cup {None} /\ FALSE \in BOOLEAN
    OBVIOUS
  <2>5. QED
    BY <2>1, <2>2, <2>3, <2>4, CreateKept
<1>4. ASSUME NEW q \in Requests, Intake(q) PROVE PlacementsInv'
  BY <1>3, <1>4, ImportKept, PatchKept, UpdateRowKept, AuditFlagKept DEF Intake
<1>5. ASSUME NEW q \in Requests, Attribution(q) PROVE PlacementsInv'
  BY <1>5, AttributionRequestKept, UpdateStatusKept, InsertEventKept DEF Attribution
<1>6. ASSUME NEW q \in Requests, Finalize(q) \/ Fail(q) PROVE PlacementsInv'
  BY <1>6, FinalizeRequestKept, FinalizeKept, FailKept DEF Finalize
<1>7. CASE UNCHANGED placementVars
  BY <1>7, SplitsOnly DEF placementVars, PlacementsInv, PlacementsTypeOK
<1>8. QED
  BY <1>1, <1>2, <1>4, <1>5, <1>6, <1>7 DEF PlacementsNext

(* Requests about phases change only which contributors are referred to.    *)
LEMMA PhasesAside ==
  ASSUME PlacementsInv, PhasesInv, PhasesInv', PhasesNext PROVE PlacementsInv'
<1>1. /\ UNCHANGED <<row, timeline, flagAudit, req, desk, disturbed, split, finalized>>
  BY DEF PhasesNext, CreateBillingPhase, InsertPhase, UpdateBillingPhase, SetLink, CreditRequest,
     InsertCredit, CalculateRequest, ListPhaseContributors, ReadInvoice, InsertRecord,
     PhaseDone, PayInvoice, SelectPhases, ReleasePhase, BreakOff, placementVars
<1>2. referenced' \subseteq Contributors
  BY DEF PhasesInv, SplitTypes
<1>3. QED
  BY <1>1, <1>2, SplitsOnly DEF PlacementsInv, PlacementsTypeOK

LEMMA BothStep ==
  PhasesInv /\ PlacementsInv /\ [Next]_vars => (PhasesInv /\ PlacementsInv)'
<1>1. SUFFICES ASSUME PhasesInv, PlacementsInv, [Next]_vars PROVE PhasesInv' /\ PlacementsInv'
  OBVIOUS
<1>2. PhasesInv'
  BY <1>1, PhasesStep
<1>3. CASE PhasesNext
  BY <1>1, <1>2, <1>3, PhasesAside
<1>4. CASE [PlacementsNext]_placementVars
  BY <1>1, <1>2, <1>4, PlacementsStep
<1>5. PhasesNext \/ [PlacementsNext]_placementVars
  BY <1>1 DEF Next, vars, placementVars
<1>6. QED
  BY <1>2, <1>3, <1>4, <1>5

LEMMA BothKept == Spec => [](PhasesInv /\ PlacementsInv)
<1>1. Init => PhasesInv /\ PlacementsInv
  BY PhasesStart, PlacementsStart DEF Init
<1>2. QED
  BY <1>1, BothStep, PTL DEF Spec

LEMMA TimelineHolds == ASSUME PlacementsInv PROVE TimelineTellsStatus
<1>1. SUFFICES ASSUME NEW p \in Placements \ disturbed, timeline[p] # <<>>,
                      ~AttributionInFlight(p), NEW last, last = timeline[p][Len(timeline[p])]
               PROVE  /\ last = "Submitted" => row[p].status = "PendingApproval"
                      /\ last = "Approved" => row[p].status = "Active"
                      /\ last = "Rejected" => row[p].status = "ContributorsAssigned"
  BY DEF TimelineTellsStatus
<1>2. \A q \in Requests : ~Notes(q, p)
  BY <1>1, NullAssumption DEF Notes, AttributionInFlight, PlacementsInv, RequestOK
<1>3. row[p].status = To(last)
  BY <1>1, <1>2 DEF PlacementsInv, Journaled
<1>4. QED
  BY <1>3 DEF To

(* However patches, decisions and imports overlap and break off, the expiry *)
(* of a placement is that of its dates; its status is the one that its      *)
(* journal ends with, unless two requests decided on it at once, one broke  *)
(* off between its writes or an admin patched it; and its phases agree with *)
(* its contributors and invoices (handleUpdatePlacement,                    *)
(* handleApproveAttribution, releasePhaseCollectionGate).                   *)
THEOREM TablesAreSound == Spec => []TablesAgree
<1>1. PlacementsInv => PlacementsSound
  BY TimelineHolds DEF PlacementsInv, PlacementsSound
<1>2. QED
  BY <1>1, BothKept, PhasesAreSound, PTL DEF TablesAgree

-----------------------------------------------------------------------------
(* Splits.  The sum that a finalize request tests is over all contributors  *)
(* of the placement, its own included if that is still there; what is       *)
(* finalized of a placement has been part of such a sum, and only shrinks   *)
(* until the next.                                                          *)
SharesInv ==
  /\ FinalizedFits
  /\ \A c \in finalized : split[c] # None
  /\ \A q \in Requests : req[q].pc = "sumSplits" =>
       /\ split[req[q].contributor] # None
       /\ Assigned(req[q].contributor) => split[req[q].contributor].place = req[q].place

LEMMA PctTyped == ASSUME SplitTypes PROVE \A c \in Contributors : PctOf[c] \in Nat
<1>1. SUFFICES ASSUME NEW c \in Contributors PROVE PctOf[c] \in Nat
  OBVIOUS
<1>2. Splits \subseteq Nat
  BY SplitsAssumption
<1>3. split[c] \in [place : Placements, pct : Splits] \cup {None, Deleted}
  BY DEF SplitTypes
<1>4. CASE Assigned(c)
  <2>1. split[c].pct \in Splits
    BY <1>3, <1>4 DEF Assigned
  <2>. QED BY <1>2, <1>4, <2>1 DEF PctOf
<1>5. CASE ~Assigned(c)
  BY <1>5 DEF PctOf
<1>. QED BY <1>4, <1>5

LEMMA SplitTotalIsSum ==
  ASSUME NEW S
  PROVE  SplitTotal(S) = Sum(PctOf, S) /\ SplitTotal(S)' = Sum(PctOf', S)
BY DEF SplitTotal, Sum, MapThenSumSet, MapThenFoldSet

(* As long as the splits and what is finalized stay, so do the sums.        *)
LEMMA SumsStay ==
  ASSUME split' = split, finalized' = finalized, FinalizedFits PROVE FinalizedFits'
<1>1. PctOf' = PctOf /\ \A p \in Placements : ContributorsOf(p)' = ContributorsOf(p)
  BY DEF PctOf, Assigned, ContributorsOf
<1>2. ASSUME NEW p \in Placements
      PROVE  SplitTotal(finalized \cap ContributorsOf(p))' <= Whole + Tolerance
  <2>1. PICK S : S = finalized \cap ContributorsOf(p)
    OBVIOUS
  <2>2. (finalized \cap ContributorsOf(p))' = S /\ SplitTotal(S)' = SplitTotal(S)
    BY <1>1, <2>1, SplitTotalIsSum
  <2>3. SplitTotal(S) <= Whole + Tolerance
    BY <2>1 DEF FinalizedFits
  <2>. QED BY <2>2, <2>3
<1>. QED BY <1>2 DEF FinalizedFits

(* Fewer contributors with the same shares have no more.                    *)
LEMMA FewerFit ==
  ASSUME SplitTypes, NEW S \in SUBSET Contributors, NEW T \in SUBSET S,
         NEW bound \in Int, SplitTotal(S) <= bound
  PROVE  SplitTotal(T) <= bound
<1>1. IsFiniteSet(S) /\ IsFiniteSet(T) /\ \A c \in S : PctOf[c] \in Nat
  BY SplitsAssumption, FS_Subset, PctTyped
<1>2. Sum(PctOf, T) <= Sum(PctOf, S)
  BY <1>1, SumPart
<1>3. Sum(PctOf, T) \in Int /\ Sum(PctOf, S) \in Int
  BY <1>1, SumNat
<1>. QED BY <1>2, <1>3, SplitTotalIsSum

LEMMA FitKept ==
  ASSUME SplitTypes, SplitTypes', SharesInv, finalized \subseteq Contributors,
         finalized' \subseteq finalized,
         \A c \in Contributors :
           split[c] # None => split'[c] = split[c] \/ split'[c] = Deleted
  PROVE  FinalizedFits' /\ \A c \in finalized' : split'[c] # None
<1>1. \A c \in finalized' : split'[c] # None
  BY NullAssumption DEF SharesInv
<1>2. ASSUME NEW p \in Placements
      PROVE  SplitTotal(finalized \cap ContributorsOf(p))' <= Whole + Tolerance
  <2>. DEFINE S == finalized \cap ContributorsOf(p)  T == finalized' \cap ContributorsOf(p)'
  <2>1. SplitTotal(S) <= Whole + Tolerance /\ Whole + Tolerance \in Int
    BY SplitsAssumption DEF SharesInv, FinalizedFits
  <2>2. S \in SUBSET Contributors
    BY DEF ContributorsOf
  <2>3. T \in SUBSET S /\ \A c \in T : PctOf'[c] = PctOf[c]
    BY DEF SharesInv, ContributorsOf, Assigned, PctOf
  <2>4. SplitTotal(T) <= Whole + Tolerance
    <3>. HIDE DEF S, T
    <3>. QED BY <2>1, <2>2, <2>3, FewerFit
  <2>5. IsFiniteSet(T)
    <3>. HIDE DEF S, T
    <3>. QED BY <2>2, <2>3, SplitsAssumption, FS_Subset
  <2>6. Sum(PctOf', T) = Sum(PctOf, T)
    <3>. HIDE DEF S, T
    <3>. QED BY <2>3, <2>5, SumSame
  <2>7. SplitTotal(finalized \cap ContributorsOf(p))' = Sum(PctOf', T)
    <3>1. PICK U : U = T
      OBVIOUS
    <3>2. SplitTotal(U)' = Sum(PctOf', U)
      BY SplitTotalIsSum
    <3>. QED BY <3>1, <3>2
  <2>. QED BY <2>4, <2>6, <2>7, SplitTotalIsSum
<1>. QED BY <1>1, <1>2 DEF FinalizedFits

LEMMA SumSplitsKept ==
  ASSUME PlacementsInv, SharesInv, NEW q \in Requests, SumSplits(q) PROVE SharesInv'
<1>. DEFINE c == req[q].contributor  place == req[q].place
<1>1. /\ SplitTypes /\ split' = split /\ finalized \subseteq Contributors
      /\ c \in Contributors /\ split[c] # None /\ (Assigned(c) => split[c].place = place)
      /\ \A r \in Requests : req'[r] = req[r] \/ req'[r].pc # "sumSplits"
  <2>1. req \in [Requests -> Request] /\ finalized \subseteq Contributors
    BY DEF PlacementsInv, PlacementsTypeOK
  <2>2. \A r \in Requests : req'[r] = req[r] \/ req'[r].pc # "sumSplits"
    BY <2>1 DEF SumSplits, Goto, Return, Idle, Request
  <2>. QED
    BY <2>1, <2>2 DEF PlacementsInv, PlacementsTypeOK, SplitTypes, SumSplits, At, RequestOK,
       SharesInv, tables
<1>2. \A r \in Requests : req'[r].pc = "sumSplits" =>
        /\ split'[req'[r].contributor] # None
        /\ Assigned(req[r].contributor)' => split'[req'[r].contributor].place = req'[r].place
  BY <1>1 DEF SharesInv, Assigned
<1>3. CASE finalized' = finalized
  BY <1>1, <1>2, <1>3, SumsStay DEF SharesInv
<1>4. CASE finalized' # finalized
  <2>1. finalized' = finalized \cup {c} /\ SplitTotal(ContributorsOf(place)) <= Whole + Tolerance
    BY <1>4, SplitsAssumption DEF SumSplits, Complete, getSplitTotal
  <2>2. ASSUME NEW p \in Placements
        PROVE  SplitTotal(finalized' \cap ContributorsOf(p)) <= Whole + Tolerance
    <3>1. CASE p = place
      <4>1. /\ ContributorsOf(p) \in SUBSET Contributors
            /\ finalized' \cap ContributorsOf(p) \in SUBSET ContributorsOf(p)
            /\ Whole + Tolerance \in Int
        BY SplitsAssumption DEF ContributorsOf
      <4>. QED BY <1>1, <2>1, <3>1, <4>1, FewerFit
    <3>2. CASE p # place
      <4>1. c \notin ContributorsOf(p)
        BY <1>1, <3>2 DEF ContributorsOf
      <4>2. finalized' \cap ContributorsOf(p) = finalized \cap ContributorsOf(p)
        BY <2>1, <4>1
      <4>. QED BY <4>2 DEF SharesInv, FinalizedFits
    <3>. QED BY <3>1, <3>2
  <2>3. FinalizedFits'
    <3>1. PctOf' = PctOf /\ \A p \in Placements : ContributorsOf(p)' = ContributorsOf(p)
      BY <1>1 DEF PctOf, Assigned, ContributorsOf
    <3>2. ASSUME NEW p \in Placements
          PROVE  SplitTotal(finalized \cap ContributorsOf(p))' <= Whole + Tolerance
      <4>1. PICK S : S = finalized' \cap ContributorsOf(p)
        OBVIOUS
      <4>2. SplitTotal(S)' = SplitTotal(S) /\ (finalized \cap ContributorsOf(p))' = S
        BY <3>1, <4>1, SplitTotalIsSum
      <4>. QED BY <2>2, <4>1, <4>2
    <3>. QED BY <3>2 DEF FinalizedFits
  <2>4. \A d \in finalized' : split'[d] # None
    BY <1>1, <2>1 DEF SharesInv
  <2>. QED BY <1>2, <2>3, <2>4 DEF SharesInv
<1>. QED BY <1>3, <1>4

LEMMA SharesStep ==
  ASSUME PlacementsInv, SharesInv, [PlacementsNext]_placementVars PROVE SharesInv'
<1>1. /\ SplitTypes /\ finalized \subseteq Contributors /\ req \in [Requests -> Request]
      /\ \A q \in Requests : req[q].pc = "sumSplits" => req[q].contributor \in Contributors
  BY DEF PlacementsInv, PlacementsTypeOK, SplitTypes, RequestOK
<1>2. SplitsHeld
  BY <1>1, PlacementsKeepSplits
<1>3. ASSUME finalized' \subseteq finalized,
             \A q \in Requests : req'[q] = req[q] \/ req'[q].pc # "sumSplits"
      PROVE  SharesInv'
  <2>1. FinalizedFits' /\ \A c \in finalized' : split'[c] # None
    BY <1>1, <1>2, <1>3, FitKept DEF SplitsHeld
  <2>2. ASSUME NEW q \in Requests, req'[q].pc = "sumSplits"
        PROVE  /\ split'[req'[q].contributor] # None
               /\ Assigned(req[q].contributor)' => split'[req'[q].contributor].place = req'[q].place
    BY <1>1, <1>2, <1>3, <2>2, NullAssumption DEF SharesInv, SplitsHeld, Assigned
  <2>. QED BY <2>1, <2>2 DEF SharesInv
<1>4. ASSUME NEW q \in Requests, NEW c \in Contributors, FinalizeRequest(q, c) PROVE SharesInv'
  <2>1. PICK p \in Placements, pct \in Splits :
          /\ InsertSplit(c, p, pct)
          /\ Receive(q, [Idle EXCEPT !.pc = "sumSplits", !.place = p, !.contributor = c])
    BY <1>4 DEF FinalizeRequest
  <2>2. /\ split'[c] = [place |-> p, pct |-> pct] /\ finalized' = finalized
        /\ req'[q].contributor = c /\ req'[q].place = p
        /\ \A r \in Requests : r # q => req'[r] = req[r]
    BY <1>1, <1>4, <2>1 DEF FinalizeRequest, InsertSplit, Receive, Idle, SplitTypes
  <2>3. FinalizedFits' /\ \A d \in finalized' : split'[d] # None
    BY <1>1, <1>2, <2>2, FitKept DEF SplitsHeld
  <2>4. split'[c] # None
    BY <1>1, <2>1, <2>2, NullAssumption DEF InsertSplit
  <2>5. ASSUME NEW r \in Requests, req'[r].pc = "sumSplits"
        PROVE  /\ split'[req'[r].contributor] # None
               /\ Assigned(req[r].contributor)' => split'[req'[r].contributor].place = req'[r].place
    <3>1. CASE r = q
      BY <2>2, <2>4, <3>1
    <3>2. CASE r # q
      BY <1>1, <1>2, <2>2, <2>5, <3>2, NullAssumption DEF SharesInv, SplitsHeld, Assigned
    <3>. QED BY <3>1, <3>2
  <2>. QED BY <2>3, <2>5 DEF SharesInv
<1>5. ASSUME NEW q \in Requests, UndoSplit(q) \/ Fail(q) PROVE SharesInv'
  BY <1>1, <1>3, <1>5 DEF UndoSplit, Fail, Return, Idle
<1>6. ASSUME NEW q \in Requests, NEW m, m.pc # "sumSplits",
             req' = [req EXCEPT ![q] = m], finalized' = finalized
      PROVE  SharesInv'
  BY <1>1, <1>3, <1>6
<1>7. ASSUME NEW q \in Requests, Intake(q) \/ Attribution(q) PROVE SharesInv'
  <2>1. finalized' = finalized
    BY <1>7 DEF Intake, ImportRequest, ImportRow, EndImport, PatchRequest, UpdateRow, AuditFlag,
       Attribution, AttributionRequest, UpdateStatus, InsertEvent
  <2>2. ASSUME Return(q) PROVE SharesInv'
    <3>1. Idle.pc # "sumSplits"
      BY DEF Idle
    <3>. QED BY <1>6, <2>1, <2>2, <3>1 DEF Return
  <2>3. ASSUME NEW pc \in {"auditFlag", "insertEvent"}, Goto(q, pc) PROVE SharesInv'
    <3>1. PICK m : m = [req[q] EXCEPT !.pc = pc]
      OBVIOUS
    <3>2. m.pc # "sumSplits"
      BY <1>1, <2>3, <3>1 DEF Request
    <3>. QED BY <1>6, <2>1, <2>3, <3>1, <3>2 DEF Goto
  <2>4. CASE ImportRequest(q)
    <3>1. PICK m : m = [Idle EXCEPT !.pc = "importRow"]
      OBVIOUS
    <3>2. m.pc # "sumSplits" /\ req' = [req EXCEPT ![q] = m]
      BY <2>4, <3>1 DEF Idle, ImportRequest, Receive
    <3>. QED BY <1>6, <2>1, <3>2
  <2>5. ASSUME NEW p \in Placements, NEW b \in Bodies, PatchRequest(q, p, b) PROVE SharesInv'
    <3>1. PICK m : /\ Receive(q, m)
                   /\ \E e : m = [Idle EXCEPT !.pc = "updateRow", !.place = p, !.body = b,
                                              !.expiry = e, !.before = row[p].confidential]
      BY <2>5 DEF PatchRequest
    <3>2. m.pc # "sumSplits" /\ req' = [req EXCEPT ![q] = m]
      BY <3>1 DEF Idle, Receive
    <3>. QED BY <1>6, <2>1, <3>2
  <2>6. ASSUME NEW p \in Placements, NEW e \in Events, AttributionRequest(q, p, e)
        PROVE  SharesInv'
    <3>1. PICK m : m = [Idle EXCEPT !.pc = "updateStatus", !.place = p, !.event = e]
      OBVIOUS
    <3>2. m.pc # "sumSplits" /\ req' = [req EXCEPT ![q] = m]
      BY <2>6, <3>1 DEF Idle, AttributionRequest, Receive
    <3>. QED BY <1>6, <2>1, <3>2
  <2>7. CASE ImportRow(q)
    BY <1>3, <2>1, <2>7 DEF ImportRow
  <2>8. CASE EndImport(q) \/ UpdateRow(q) \/ AuditFlag(q) \/ UpdateStatus(q) \/ InsertEvent(q)
    BY <2>2, <2>3, <2>8 DEF EndImport, UpdateRow, AuditFlag, UpdateStatus, InsertEvent
  <2>. QED BY <1>7, <2>4, <2>5, <2>6, <2>7, <2>8 DEF Intake, Attribution
<1>8. ASSUME NEW c \in Contributors, AddContributor(c) \/ DeleteContributor(c) PROVE SharesInv'
  BY <1>3, <1>8 DEF AddContributor, DeleteContributor
<1>9. ASSUME NEW p \in Placements, CreatePlacement(p) PROVE SharesInv'
  BY <1>3, <1>9 DEF CreatePlacement
<1>10. CASE UNCHANGED placementVars
  BY <1>3, <1>10 DEF placementVars
<1>. QED
  BY <1>4, <1>5, <1>6, <1>7, <1>8, <1>9, <1>10, SumSplitsKept DEF PlacementsNext, Finalize

LEMMA SharesBothStep ==
  PhasesInv /\ PlacementsInv /\ SharesInv /\ [Next]_vars => SharesInv'
<1>1. SUFFICES ASSUME PhasesInv, PlacementsInv, SharesInv, [Next]_vars PROVE SharesInv'
  OBVIOUS
<1>2. CASE PhasesNext
  <2>1. UNCHANGED <<split, finalized, req>>
    BY <1>2 DEF PhasesNext, CreateBillingPhase, InsertPhase, UpdateBillingPhase, SetLink,
       CreditRequest, InsertCredit, CalculateRequest, ListPhaseContributors, ReadInvoice,
       InsertRecord, PhaseDone, PayInvoice, SelectPhases, ReleasePhase, BreakOff, placementVars
  <2>. QED BY <1>1, <2>1, SumsStay DEF SharesInv, Assigned
<1>3. CASE [PlacementsNext]_placementVars
  BY <1>1, <1>3, SharesStep
<1>. QED BY <1>1, <1>2, <1>3 DEF Next, vars, placementVars

LEMMA SharesStart ==
  ASSUME NEW scene \in Scenes, PlacementsInit(scene) PROVE SharesInv
<1>1. finalized = {} /\ req = [q \in Requests |-> Idle]
  BY DEF PlacementsInit
<1>2. SplitTotal({}) = 0
  BY SplitTotalIsSum, SumEmpty
<1>3. \A p \in Placements : finalized \cap ContributorsOf(p) = {}
  BY <1>1
<1>. QED BY <1>1, <1>2, <1>3, SplitsAssumption DEF SharesInv, FinalizedFits, Idle

-----------------------------------------------------------------------------
(* Reads.  What the reply of a request holds already, and what it knows of  *)
(* the placements that it is about.                                         *)
Witnessed(m) == m.pc # "idle" => Deals \ secret \subseteq m.was /\ narrow \subseteq m.within

Masked(m) ==
  m.op \notin Open /\ m.role \notin UnmaskedRoles =>
    /\ \A d \in Deals : m.shown[d] = "title" => d \in m.was
    /\ \A s \in Shares : m.titles[s] = "title" => DealOf[s] \in m.was

Alike(m) ==
  m.op = "payouts" =>
    \A s, x \in Shares : DealOf[s] = DealOf[x] => m.titles[s] = m.titles[x]

Scoped(m) ==
  /\ m.pc = "look" => m.op \in {"records", "payouts"}
  /\ m.pc = "answered" /\ (m.op = "guaranteeList" \/ (m.op = "ledger" /\ m.role = "Manager")) =>
       \A d \in Deals : m.shown[d] # "none" => d \in m.within

ReadOK(m) == Witnessed(m) /\ Masked(m) /\ Alike(m) /\ Scoped(m)

Traced(m, q) == m.op \in Audited /\ m.pc \notin {"idle", "audit"} => q \in logged

ReadsInv ==
  /\ ReadsTypeOK
  /\ \A q \in Readers : ReadOK(ask[q]) /\ Traced(ask[q], q)

LEMMA UnheardOK ==
  Unheard \in Ask /\ ReadOK(Unheard) /\ Unheard.pc = "idle" /\ Unheard.op = "get"
  /\ (\A d \in Deals : Unheard.shown[d] = "none") /\ (\A s \in Shares : Unheard.titles[s] = "none")
<1>1. PICK role : role = CHOOSE r \in ReaderRoles : TRUE
  OBVIOUS
<1>2. role \in ReaderRoles
  BY <1>1, ReaderRolesAssumption
<1>3. "get" \in ReadOps /\ "none" \in Titles
  BY DEF ReadOps, Audited, Titles
<1>4. /\ Unheard.pc = "idle" /\ Unheard.op = "get" /\ Unheard.role = role
      /\ Unheard.shown = [d \in Deals |-> "none"] /\ Unheard.titles = [s \in Shares |-> "none"]
      /\ Unheard.rows = {} /\ Unheard.todo = {} /\ Unheard.was = {} /\ Unheard.within = {}
  BY <1>1 DEF Unheard
<1>5. Unheard \in Ask
  BY <1>1, <1>2, <1>3 DEF Unheard, Ask
<1>6. ReadOK(Unheard)
  BY <1>4 DEF ReadOK, Witnessed, Masked, Alike, Scoped
<1>7. QED
  BY <1>4, <1>5, <1>6

LEMMA ReadsStart == ReadsInit \/ ReadsBegin => ReadsInv
<1>1. SUFFICES ASSUME ReadsInit \/ ReadsBegin PROVE ReadsInv
  OBVIOUS
<1>2. /\ secret \subseteq Deals /\ narrow \subseteq Deals /\ due \subseteq Shares /\ logged = {}
      /\ ask = [q \in Readers |-> Unheard]
  BY <1>1 DEF ReadsInit, ReadsBegin
<1>3. QED
  BY <1>2, UnheardOK DEF ReadsInv, ReadsTypeOK, Traced

(* A statement of one request.                                              *)
LEMMA ReadStep ==
  ASSUME ReadsInv, NEW q \in Readers, NEW m \in Ask, ask' = [ask EXCEPT ![q] = m],
         UNCHANGED <<secret, narrow, due>>, ReadOK(m),
         logged \ {q} \subseteq logged', logged' \subseteq logged \cup {q},
         m.op \in Audited /\ m.pc \notin {"idle", "audit"} => q \in logged'
  PROVE  ReadsInv'
<1>1. /\ ask' \in [Readers -> Ask]
      /\ ask'[q] = m /\ \A r \in Readers : r # q => ask'[r] = ask[r]
  BY DEF ReadsInv, ReadsTypeOK
<1>2. ReadsTypeOK'
  BY <1>1 DEF ReadsInv, ReadsTypeOK
<1>3. ASSUME NEW r \in Readers PROVE ReadOK(ask[r])' /\ Traced(ask[r], r)'
  <2>1. ReadOK(ask'[r])
    BY <1>1 DEF ReadsInv
  <2>2. ReadOK(ask[r])'
    BY <2>1 DEF ReadOK, Witnessed, Masked, Alike, Scoped
  <2>3. Traced(ask[r], r)'
    BY <1>1 DEF ReadsInv, Traced
  <2>4. QED
    BY <2>2, <2>3
<1>4. QED
  BY <1>2, <1>3 DEF ReadsInv

(* A list of placements is shown with the titles that the reader may see.   *)
LEMMA ShowOK ==
  ASSUME ReadsInv, NEW q \in Readers, ask[q].pc # "idle", NEW found
  PROVE  /\ Show(q, found) \in [Deals -> Titles]
         /\ ask[q].op \notin Open /\ ask[q].role \notin UnmaskedRoles =>
              \A d \in Deals : Show(q, found)[d] = "title" => d \in ask[q].was
<1>1. \A d \in Deals : TitleFor(q, d) \in Titles
  BY DEF TitleFor, Titles
<1>2. Deals \ secret \subseteq ask[q].was
  BY DEF ReadsInv, ReadOK, Witnessed
<1>3. QED
  BY <1>1, <1>2 DEF Show, TitleFor, ShouldMask, Titles

LEMMA ShownKept ==
  ASSUME ReadsInv, NEW q \in Readers, NEW found,
         ask[q].pc = "select", NEW pc \in {"answered", "narrow"},
         ask[q].op \notin {"records", "payouts"},
         pc = "answered" => ask[q].op # "guaranteeList"
                            /\ ~(ask[q].op = "ledger" /\ ask[q].role = "Manager"),
         ask' = [ask EXCEPT ![q].pc = pc, ![q].shown = Show(q, found)],
         UNCHANGED <<secret, narrow, due, logged>>
  PROVE  ReadsInv'
<1>1. PICK m, shown : m = ask[q] /\ shown = Show(q, found)
  OBVIOUS
<1>2. m \in Ask /\ ReadOK(m) /\ Traced(m, q)
  BY <1>1 DEF ReadsInv, ReadsTypeOK
<1>3. PICK n : n = [m EXCEPT !.pc = pc, !.shown = shown]
  OBVIOUS
<1>4. /\ shown \in [Deals -> Titles]
      /\ m.op \notin Open /\ m.role \notin UnmaskedRoles =>
           \A d \in Deals : shown[d] = "title" => d \in m.was
  BY <1>1, ShowOK
<1>5. /\ n \in Ask /\ n.pc = pc /\ n.op = m.op /\ n.role = m.role /\ n.shown = shown
      /\ n.titles = m.titles /\ n.was = m.was /\ n.within = m.within
  BY <1>2, <1>3, <1>4 DEF Ask
<1>6. ReadOK(n)
  BY <1>1, <1>2, <1>4, <1>5 DEF ReadOK, Witnessed, Masked, Alike, Scoped
<1>7. ask' = [ask EXCEPT ![q] = n]
  BY <1>1, <1>3 DEF ReadsInv, ReadsTypeOK
<1>8. QED
  BY <1>1, <1>2, <1>5, <1>6, <1>7, ReadStep DEF Traced

(* Rows that concern no placement's title.                                  *)
LEMMA SharesKept ==
  ASSUME ReadsInv, NEW q \in Readers, NEW S \in SUBSET due,
         ask[q].pc = "select",
         ask[q].op \notin {"records", "payouts", "guaranteeList", "ledger"}, ShowShares(q, S)
  PROVE  ReadsInv'
<1>1. PICK m : m = ask[q]
  OBVIOUS
<1>2. m \in Ask /\ ReadOK(m) /\ Traced(m, q) /\ S \subseteq Shares
  BY <1>1 DEF ReadsInv, ReadsTypeOK
<1>3. PICK n : n = [m EXCEPT !.pc = "answered", !.rows = S]
  OBVIOUS
<1>4. /\ n \in Ask /\ n.pc = "answered" /\ n.op = m.op /\ n.role = m.role /\ n.shown = m.shown
      /\ n.titles = m.titles /\ n.was = m.was /\ n.within = m.within
  BY <1>2, <1>3 DEF Ask
<1>5. ReadOK(n)
  BY <1>1, <1>2, <1>4 DEF ReadOK, Witnessed, Masked, Alike, Scoped
<1>6. ask' = [ask EXCEPT ![q] = n] /\ UNCHANGED <<secret, narrow, due, logged>>
  BY <1>1, <1>3 DEF ShowShares, ReadsInv, ReadsTypeOK
<1>7. QED
  BY <1>1, <1>2, <1>4, <1>5, <1>6, ReadStep DEF Traced

LEMMA NarrowKept ==
  ASSUME ReadsInv, NEW q \in Readers, Narrow(q) PROVE ReadsInv'
<1>1. PICK m : m = ask[q]
  OBVIOUS
<1>2. m \in Ask /\ ReadOK(m) /\ Traced(m, q) /\ m.pc = "narrow"
  BY <1>1 DEF ReadsInv, ReadsTypeOK, Narrow, Asking
<1>3. PICK shown : shown = [d \in Deals |-> IF d \in narrow THEN m.shown[d] ELSE "none"]
  OBVIOUS
<1>4. /\ shown \in [Deals -> Titles]
      /\ \A d \in Deals : shown[d] # "none" => shown[d] = m.shown[d] /\ d \in narrow
  BY <1>2, <1>3 DEF Ask, Titles
<1>5. PICK n : n = [m EXCEPT !.pc = "answered", !.shown = shown]
  OBVIOUS
<1>6. /\ n \in Ask /\ n.pc = "answered" /\ n.op = m.op /\ n.role = m.role /\ n.shown = shown
      /\ n.titles = m.titles /\ n.was = m.was /\ n.within = m.within
  BY <1>2, <1>4, <1>5 DEF Ask
<1>7. ReadOK(n)
  BY <1>2, <1>4, <1>6 DEF ReadOK, Witnessed, Masked, Alike, Scoped
<1>8. ask' = [ask EXCEPT ![q] = n] /\ UNCHANGED <<secret, narrow, due, logged>>
  BY <1>1, <1>3, <1>5 DEF Narrow, ReadsInv, ReadsTypeOK
<1>9. QED
  BY <1>2, <1>6, <1>7, <1>8, ReadStep DEF Traced

LEMMA HearKept ==
  ASSUME ReadsInv, NEW q \in Readers, NEW op \in ReadOps, NEW role \in ReaderRoles,
         Hear(q, op, role)
  PROVE  ReadsInv'
<1>1. PICK m, pc, was, within :
        /\ m = Unheard /\ pc = (IF op \in Audited THEN "audit" ELSE "select")
        /\ was = Deals \ secret /\ within = narrow
  OBVIOUS
<1>2. /\ m \in Ask /\ (\A d \in Deals : m.shown[d] = "none")
      /\ (\A s \in Shares : m.titles[s] = "none")
      /\ pc \in {"audit", "select"} /\ was \subseteq Deals /\ within \subseteq Deals
  BY <1>1, UnheardOK DEF ReadsInv, ReadsTypeOK
<1>3. PICK n : n = [m EXCEPT !.pc = pc, !.op = op, !.role = role, !.was = was, !.within = within]
  OBVIOUS
<1>4. /\ n \in Ask /\ n.pc = pc /\ n.op = op /\ n.shown = m.shown
      /\ n.titles = m.titles /\ n.was = was /\ n.within = within
  BY <1>2, <1>3 DEF Ask
<1>5. ReadOK(n)
  BY <1>1, <1>2, <1>4 DEF ReadOK, Witnessed, Masked, Alike, Scoped
<1>6. ask' = [ask EXCEPT ![q] = n] /\ UNCHANGED <<secret, narrow, due, logged>>
  BY <1>1, <1>3 DEF Hear
<1>7. QED
  BY <1>1, <1>4, <1>5, <1>6, ReadStep

LEMMA SensitiveReadKept ==
  ASSUME ReadsInv, NEW q \in Readers, SensitiveRead(q) PROVE ReadsInv'
<1>1. CASE logged' = logged \cup {q} /\ ask' = [ask EXCEPT ![q].pc = "select"]
  <2>1. PICK m : m = ask[q]
    OBVIOUS
  <2>2. m \in Ask /\ ReadOK(m) /\ m.pc = "audit"
    BY <2>1 DEF ReadsInv, ReadsTypeOK, SensitiveRead, Asking
  <2>3. PICK n : n = [m EXCEPT !.pc = "select"]
    OBVIOUS
  <2>4. /\ n \in Ask /\ n.pc = "select" /\ n.op = m.op /\ n.role = m.role /\ n.shown = m.shown
        /\ n.titles = m.titles /\ n.was = m.was /\ n.within = m.within
    BY <2>2, <2>3 DEF Ask
  <2>5. ReadOK(n)
    BY <2>2, <2>4 DEF ReadOK, Witnessed, Masked, Alike, Scoped
  <2>6. ask' = [ask EXCEPT ![q] = n] /\ UNCHANGED <<secret, narrow, due>>
    BY <1>1, <2>1, <2>3 DEF SensitiveRead, ReadsInv, ReadsTypeOK
  <2>7. QED
    BY <1>1, <2>4, <2>5, <2>6, ReadStep
<1>2. CASE logged' = logged /\ ask' = [ask EXCEPT ![q] = Unheard]
  <2>1. UNCHANGED <<secret, narrow, due>>
    BY DEF SensitiveRead
  <2>2. QED
    BY <1>2, <2>1, UnheardOK, ReadStep
<1>3. QED
  BY <1>1, <1>2 DEF SensitiveRead

LEMMA AnsweredKept ==
  ASSUME ReadsInv, NEW q \in Readers, Answered(q) PROVE ReadsInv'
<1>1. /\ ask' = [ask EXCEPT ![q] = Unheard] /\ logged' = logged \ {q}
      /\ UNCHANGED <<secret, narrow, due>>
  BY DEF Answered
<1>2. QED
  BY <1>1, UnheardOK, ReadStep

LEMMA ListMineKept ==
  ASSUME ReadsInv, NEW q \in Readers, NEW S \in SUBSET due, ask[q].pc = "select",
         ask[q].op \in {"records", "payouts"},
         ask' = [ask EXCEPT ![q].rows = S, ![q].todo = S, ![q].pc = "look"],
         UNCHANGED <<secret, narrow, due, logged>>
  PROVE  ReadsInv'
<1>1. PICK m : m = ask[q]
  OBVIOUS
<1>2. m \in Ask /\ ReadOK(m) /\ Traced(m, q) /\ S \subseteq Shares
  BY <1>1 DEF ReadsInv, ReadsTypeOK
<1>3. PICK n : n = [m EXCEPT !.rows = S, !.todo = S, !.pc = "look"]
  OBVIOUS
<1>4. /\ n \in Ask /\ n.pc = "look" /\ n.op = m.op /\ n.role = m.role /\ n.shown = m.shown
      /\ n.titles = m.titles /\ n.was = m.was /\ n.within = m.within
  BY <1>2, <1>3 DEF Ask
<1>5. ReadOK(n)
  BY <1>1, <1>2, <1>4 DEF ReadOK, Witnessed, Masked, Alike, Scoped
<1>6. ask' = [ask EXCEPT ![q] = n]
  BY <1>1, <1>3 DEF ReadsInv, ReadsTypeOK
<1>7. QED
  BY <1>1, <1>2, <1>4, <1>5, <1>6, ReadStep DEF Traced

(* The title that a lookup finds now may be shown.                          *)
LEMMA TitleOK ==
  ASSUME ReadsInv, NEW q \in Readers, ask[q].pc # "idle", NEW d \in Deals
  PROVE  /\ TitleFor(q, d) \in Titles
         /\ ask[q].op \notin Open /\ ask[q].role \notin UnmaskedRoles
              /\ TitleFor(q, d) = "title" => d \in ask[q].was
<1>1. Deals \ secret \subseteq ask[q].was
  BY DEF ReadsInv, ReadOK, Witnessed
<1>2. QED
  BY <1>1 DEF TitleFor, ShouldMask, Titles

LEMMA LookEachKept ==
  ASSUME ReadsInv, NEW q \in Readers, NEW s \in Shares, LookEach(q, s) PROVE ReadsInv'
<1>1. PICK m : m = ask[q]
  OBVIOUS
<1>2. /\ m \in Ask /\ ReadOK(m) /\ Traced(m, q) /\ m.pc = "look" /\ m.op = "records"
      /\ UNCHANGED <<secret, narrow, due, logged>>
  BY <1>1 DEF ReadsInv, ReadsTypeOK, LookEach, Asking
<1>3. PICK title \in {"none", TitleFor(q, DealOf[s])} :
        ask' = [ask EXCEPT ![q].todo = @ \ {s}, ![q].titles[s] = title]
  BY DEF LookEach
<1>4. /\ title \in Titles
      /\ m.op \notin Open /\ m.role \notin UnmaskedRoles /\ title = "title" =>
           DealOf[s] \in m.was
  BY <1>1, <1>2, <1>3, TitleOK, DealOfAssumption DEF Titles
<1>5. PICK titles : titles = [m.titles EXCEPT ![s] = title]
  OBVIOUS
<1>6. /\ titles \in [Shares -> Titles] /\ titles[s] = title
      /\ \A x \in Shares : x # s => titles[x] = m.titles[x]
  BY <1>2, <1>4, <1>5 DEF Ask
<1>7. PICK n : n = [m EXCEPT !.todo = @ \ {s}, !.titles = titles]
  OBVIOUS
<1>8. /\ n \in Ask /\ n.pc = m.pc /\ n.op = m.op /\ n.role = m.role /\ n.shown = m.shown
      /\ n.titles = titles /\ n.was = m.was /\ n.within = m.within
  BY <1>2, <1>6, <1>7 DEF Ask
<1>9. ReadOK(n)
  BY <1>2, <1>4, <1>6, <1>8 DEF ReadOK, Witnessed, Masked, Alike, Scoped
<1>10. ask' = [ask EXCEPT ![q] = n]
  BY <1>1, <1>3, <1>5, <1>7 DEF ReadsInv, ReadsTypeOK
<1>11. QED
  BY <1>2, <1>8, <1>9, <1>10, ReadStep DEF Traced

LEMMA LookForPayoutKept ==
  ASSUME ReadsInv, NEW q \in Readers, NEW s \in Shares, LookForPayout(q, s) PROVE ReadsInv'
<1>1. PICK m : m = ask[q]
  OBVIOUS
<1>2. /\ m \in Ask /\ ReadOK(m) /\ Traced(m, q) /\ m.pc = "look" /\ m.op = "payouts"
      /\ UNCHANGED <<secret, narrow, due, logged>>
  BY <1>1 DEF ReadsInv, ReadsTypeOK, LookForPayout, Asking
<1>3. PICK title :
        /\ title = m.titles[s] \/ title \in {"none", TitleFor(q, DealOf[s])}
        /\ ask' = [ask EXCEPT ![q].todo = @ \ {s},
                     ![q].titles = [x \in Shares |->
                                IF DealOf[x] = DealOf[s] THEN title ELSE @[x]]]
  BY <1>1 DEF LookForPayout
<1>4. /\ title \in Titles
      /\ m.op \notin Open /\ m.role \notin UnmaskedRoles /\ title = "title" =>
           DealOf[s] \in m.was
  <2>1. CASE title = m.titles[s]
    BY <1>2, <2>1 DEF Ask, ReadOK, Masked
  <2>2. CASE title \in {"none", TitleFor(q, DealOf[s])}
    BY <1>1, <1>2, <2>2, TitleOK, DealOfAssumption DEF Titles
  <2>3. QED
    BY <1>3, <2>1, <2>2
<1>5. PICK titles : titles = [x \in Shares |-> IF DealOf[x] = DealOf[s] THEN title
                                                                       ELSE m.titles[x]]
  OBVIOUS
<1>6. /\ titles \in [Shares -> Titles]
      /\ \A x \in Shares : titles[x] = IF DealOf[x] = DealOf[s] THEN title ELSE m.titles[x]
  BY <1>2, <1>4, <1>5 DEF Ask
<1>7. PICK n : n = [m EXCEPT !.todo = @ \ {s}, !.titles = titles]
  OBVIOUS
<1>8. /\ n \in Ask /\ n.pc = m.pc /\ n.op = m.op /\ n.role = m.role /\ n.shown = m.shown
      /\ n.titles = titles /\ n.was = m.was /\ n.within = m.within
  BY <1>2, <1>6, <1>7 DEF Ask
<1>9. ReadOK(n)
  BY <1>2, <1>4, <1>6, <1>8 DEF ReadOK, Witnessed, Masked, Alike, Scoped
<1>10. ask' = [ask EXCEPT ![q] = n]
  BY <1>1, <1>3, <1>5, <1>7 DEF ReadsInv, ReadsTypeOK
<1>11. QED
  BY <1>2, <1>8, <1>9, <1>10, ReadStep DEF Traced

LEMMA LookedKept ==
  ASSUME ReadsInv, NEW q \in Readers, Looked(q) PROVE ReadsInv'
<1>1. PICK m : m = ask[q]
  OBVIOUS
<1>2. /\ m \in Ask /\ ReadOK(m) /\ Traced(m, q) /\ m.pc = "look"
      /\ UNCHANGED <<secret, narrow, due, logged>>
  BY <1>1 DEF ReadsInv, ReadsTypeOK, Looked, Asking
<1>3. m.op \in {"records", "payouts"}
  BY <1>2 DEF ReadOK, Scoped
<1>4. PICK n : n = [m EXCEPT !.pc = "answered"]
  OBVIOUS
<1>5. /\ n \in Ask /\ n.pc = "answered" /\ n.op = m.op /\ n.role = m.role /\ n.shown = m.shown
      /\ n.titles = m.titles /\ n.was = m.was /\ n.within = m.within
  BY <1>2, <1>4 DEF Ask
<1>6. ReadOK(n)
  BY <1>2, <1>3, <1>5 DEF ReadOK, Witnessed, Masked, Alike, Scoped
<1>7. ask' = [ask EXCEPT ![q] = n]
  BY <1>1, <1>4 DEF Looked, ReadsInv, ReadsTypeOK
<1>8. QED
  BY <1>2, <1>5, <1>6, <1>7, ReadStep DEF Traced

(* The flag or an assignment is switched while requests are under way.      *)
LEMMA ToggleKept ==
  ASSUME ReadsInv, NEW d \in Deals, Toggle(d) PROVE ReadsInv'
<1>1. /\ ask \in [Readers -> Ask] /\ UNCHANGED <<narrow, due, logged>>
      /\ secret' \subseteq Deals
      /\ \A x \in Deals : x \notin secret' => x \notin secret \/ (x = d /\ d \in secret)
  BY DEF Toggle, ReadsInv, ReadsTypeOK
<1>2. ASSUME NEW q \in Readers
      PROVE  /\ ask'[q] \in Ask
             /\ ask'[q] = [ask[q] EXCEPT !.was = ask'[q].was]
             /\ ask[q].was \subseteq ask'[q].was
             /\ ask[q].pc # "idle" /\ d \in secret => d \in ask'[q].was
  <2>1. ask[q] \in Ask
    BY <1>1
  <2>2. CASE Asking(q, "idle") \/ d \notin secret
    <3>1. ask'[q] = ask[q]
      BY <2>2 DEF Toggle
    <3>2. QED
      BY <2>1, <2>2, <3>1 DEF Ask, Asking
  <2>3. CASE ~(Asking(q, "idle") \/ d \notin secret)
    <3>1. ask'[q] = [ask[q] EXCEPT !.was = @ \cup {d}]
      BY <2>3 DEF Toggle
    <3>2. QED
      BY <2>1, <3>1 DEF Ask
  <2>4. QED
    BY <2>2, <2>3
<1>3. ask' \in [Readers -> Ask]
  BY <1>2 DEF Toggle
<1>4. ASSUME NEW q \in Readers PROVE ReadOK(ask[q])' /\ Traced(ask[q], q)'
  <2>1. PICK m, n : m = ask[q] /\ n = ask'[q]
    OBVIOUS
  <2>2. m \in Ask /\ ReadOK(m) /\ Traced(m, q)
    BY <1>1, <2>1 DEF ReadsInv
  <2>3. /\ n.pc = m.pc /\ n.op = m.op /\ n.role = m.role /\ n.shown = m.shown
        /\ n.titles = m.titles /\ n.within = m.within /\ m.was \subseteq n.was
        /\ m.pc # "idle" /\ d \in secret => d \in n.was
    BY <1>2, <2>1, <2>2 DEF Ask
  <2>4. Witnessed(n)'
    BY <1>1, <2>2, <2>3 DEF ReadOK, Witnessed
  <2>5. Masked(n)' /\ Alike(n)' /\ Scoped(n)'
    BY <2>2, <2>3 DEF ReadOK, Masked, Alike, Scoped
  <2>6. Traced(n, q)'
    BY <1>1, <2>2, <2>3 DEF Traced
  <2>7. QED
    BY <2>1, <2>4, <2>5, <2>6 DEF ReadOK, Witnessed, Masked, Alike, Scoped, Traced
<1>5. QED
  BY <1>1, <1>3, <1>4 DEF ReadsInv, ReadsTypeOK

LEMMA ReassignKept ==
  ASSUME ReadsInv, NEW d \in Deals, Reassign(d) PROVE ReadsInv'
<1>1. /\ ask \in [Readers -> Ask] /\ UNCHANGED <<secret, due, logged>>
      /\ narrow' \subseteq Deals
      /\ \A x \in Deals : x \in narrow' => x \in narrow \/ (x = d /\ d \notin narrow)
  BY DEF Reassign, ReadsInv, ReadsTypeOK
<1>2. ASSUME NEW q \in Readers
      PROVE  /\ ask'[q] \in Ask
             /\ ask'[q] = [ask[q] EXCEPT !.within = ask'[q].within]
             /\ ask[q].within \subseteq ask'[q].within
             /\ ask[q].pc # "idle" /\ d \notin narrow => d \in ask'[q].within
  <2>1. ask[q] \in Ask
    BY <1>1
  <2>2. CASE Asking(q, "idle") \/ d \in narrow
    <3>1. ask'[q] = ask[q]
      BY <2>2 DEF Reassign
    <3>2. QED
      BY <2>1, <2>2, <3>1 DEF Ask, Asking
  <2>3. CASE ~(Asking(q, "idle") \/ d \in narrow)
    <3>1. ask'[q] = [ask[q] EXCEPT !.within = @ \cup {d}]
      BY <2>3 DEF Reassign
    <3>2. QED
      BY <2>1, <3>1 DEF Ask
  <2>4. QED
    BY <2>2, <2>3
<1>3. ask' \in [Readers -> Ask]
  BY <1>2 DEF Reassign
<1>4. ASSUME NEW q \in Readers PROVE ReadOK(ask[q])' /\ Traced(ask[q], q)'
  <2>1. PICK m, n : m = ask[q] /\ n = ask'[q]
    OBVIOUS
  <2>2. m \in Ask /\ ReadOK(m) /\ Traced(m, q)
    BY <1>1, <2>1 DEF ReadsInv
  <2>3. /\ n.pc = m.pc /\ n.op = m.op /\ n.role = m.role /\ n.shown = m.shown
        /\ n.titles = m.titles /\ n.was = m.was /\ m.within \subseteq n.within
        /\ m.pc # "idle" /\ d \notin narrow => d \in n.within
    BY <1>2, <2>1, <2>2 DEF Ask
  <2>4. Witnessed(n)'
    BY <1>1, <2>2, <2>3 DEF ReadOK, Witnessed
  <2>5. Masked(n)' /\ Alike(n)' /\ Scoped(n)'
    BY <2>2, <2>3 DEF ReadOK, Masked, Alike, Scoped
  <2>6. Traced(n, q)'
    BY <1>1, <2>2, <2>3 DEF Traced
  <2>7. QED
    BY <2>1, <2>4, <2>5, <2>6 DEF ReadOK, Witnessed, Masked, Alike, Scoped, Traced
<1>5. QED
  BY <1>1, <1>3, <1>4 DEF ReadsInv, ReadsTypeOK

LEMMA ReadsServed ==
  ASSUME ReadsInv, NEW q \in Readers,
         \/ ListPlacements(q) \/ ListPlacementLedger(q) \/ GetPlacement(q)
         \/ ListIncompletePlacements(q) \/ GetPartnerPlacement(q) \/ ListPartnerPlacements(q)
         \/ GetCommissionRecord(q) \/ ListHeldRecords(q) \/ GetPlacementClawback(q)
         \/ GetClawbackExposure(q) \/ GetDrawBalance(q)
         \/ ListMyRecords(q) \/ ListMyPayouts(q)
  PROVE  ReadsInv'
<1>1. CASE ListPlacements(q)
  <2>1. PICK pc : pc = IF ask[q].op = "list" THEN "answered" ELSE "narrow"
    OBVIOUS
  <2>2. /\ ask[q].pc = "select" /\ ask[q].op \in {"list", "guaranteeList"}
        /\ ask' = [ask EXCEPT ![q].pc = pc, ![q].shown = Show(q, Deals)]
        /\ UNCHANGED <<secret, narrow, due, logged>>
    BY <1>1, <2>1 DEF ListPlacements, Asking
  <2>3. QED
    BY <2>1, <2>2, ShownKept
<1>2. CASE ListPlacementLedger(q)
  <2>1. PICK pc : pc = IF ask[q].role = "Manager" THEN "narrow" ELSE "answered"
    OBVIOUS
  <2>2. /\ ask[q].pc = "select" /\ ask[q].op = "ledger"
        /\ ask' = [ask EXCEPT ![q].pc = pc, ![q].shown = Show(q, Deals)]
        /\ UNCHANGED <<secret, narrow, due, logged>>
    BY <1>2, <2>1 DEF ListPlacementLedger, Asking
  <2>3. QED
    BY <2>1, <2>2, ShownKept
<1>3. CASE GetPlacement(q) \/ ListIncompletePlacements(q) \/ GetPartnerPlacement(q)
           \/ ListPartnerPlacements(q)
  <2>1. /\ ask[q].pc = "select" /\ ask[q].op \in {"get", "incomplete", "partnerGet", "partnerList"}
        /\ UNCHANGED <<secret, narrow, due, logged>>
    BY <1>3 DEF GetPlacement, ListIncompletePlacements, GetPartnerPlacement,
                ListPartnerPlacements, Asking
  <2>2. PICK found : ask' = [ask EXCEPT ![q].pc = "answered", ![q].shown = Show(q, found)]
    BY <1>3 DEF GetPlacement, ListIncompletePlacements, GetPartnerPlacement,
                ListPartnerPlacements
  <2>3. QED
    BY <2>1, <2>2, ShownKept
<1>4. CASE GetCommissionRecord(q) \/ ListHeldRecords(q) \/ GetPlacementClawback(q)
           \/ GetClawbackExposure(q) \/ GetDrawBalance(q)
  <2>1. PICK S \in SUBSET due : ShowShares(q, S)
    BY <1>4 DEF GetCommissionRecord, ListHeldRecords, GetPlacementClawback,
                GetClawbackExposure, GetDrawBalance
  <2>2. /\ ask[q].pc = "select"
        /\ ask[q].op \in {"record", "held", "clawback", "exposure", "drawBalance"}
    BY <1>4 DEF GetCommissionRecord, ListHeldRecords, GetPlacementClawback,
                GetClawbackExposure, GetDrawBalance, Asking
  <2>3. QED
    BY <2>1, <2>2, SharesKept
<1>5. CASE ListMyRecords(q) \/ ListMyPayouts(q)
  <2>1. /\ ask[q].pc = "select" /\ ask[q].op \in {"records", "payouts"}
        /\ UNCHANGED <<secret, narrow, due, logged>>
    BY <1>5 DEF ListMyRecords, ListMyPayouts, Asking
  <2>2. PICK S \in SUBSET due :
          ask' = [ask EXCEPT ![q].rows = S, ![q].todo = S, ![q].pc = "look"]
    BY <1>5 DEF ListMyRecords, ListMyPayouts
  <2>3. QED
    BY <2>1, <2>2, ListMineKept
<1>6. QED
  BY <1>1, <1>2, <1>3, <1>4, <1>5

LEMMA ReadsStep == ReadsInv /\ [ReadsNext]_readVars => ReadsInv'
<1>1. SUFFICES ASSUME ReadsInv, [ReadsNext]_readVars PROVE ReadsInv'
  OBVIOUS
<1>2. ASSUME NEW s \in Shares, BecomesDue(s) PROVE ReadsInv'
  BY <1>1, <1>2 DEF BecomesDue, ReadsInv, ReadsTypeOK, ReadOK, Witnessed, Masked, Alike,
                    Scoped, Traced
<1>3. ASSUME NEW q \in Readers, NEW s \in Shares, LookEach(q, s) \/ LookForPayout(q, s)
      PROVE  ReadsInv'
  BY <1>1, <1>3, LookEachKept, LookForPayoutKept
<1>4. ASSUME NEW q \in Readers, \E op \in ReadOps, role \in ReaderRoles : Hear(q, op, role)
      PROVE  ReadsInv'
  BY <1>1, <1>4, HearKept
<1>5. CASE UNCHANGED readVars
  BY <1>1, <1>5 DEF readVars, ReadsInv, ReadsTypeOK, ReadOK, Witnessed, Masked, Alike,
                    Scoped, Traced
<1>6. ASSUME NEW d \in Deals, Toggle(d) \/ Reassign(d) PROVE ReadsInv'
  BY <1>1, <1>6, ToggleKept, ReassignKept
<1>7. ASSUME NEW q \in Readers, SensitiveRead(q) \/ Narrow(q) \/ Looked(q) \/ Answered(q)
      PROVE  ReadsInv'
  BY <1>1, <1>7, SensitiveReadKept, NarrowKept, LookedKept, AnsweredKept
<1>8. QED
  BY <1>1, <1>2, <1>3, <1>4, <1>5, <1>6, <1>7, ReadsServed DEF ReadsNext

LEMMA ReadsHold == ASSUME ReadsInv PROVE ReadsSound
<1>1. \A q \in Readers :
        /\ ask[q] \in Ask /\ ReadOK(ask[q]) /\ Traced(ask[q], q)
  BY DEF ReadsInv, ReadsTypeOK
<1>2. TitlesMasked
  BY <1>1 DEF TitlesMasked, ReadOK, Masked
<1>3. NoUnloggedData
  BY <1>1 DEF NoUnloggedData, Traced, Asking
<1>4. PayoutsAgree
  <2>1. \A q \in Readers : ask[q].rows \subseteq Shares
    BY <1>1 DEF Ask
  <2>2. QED
    BY <1>1, <2>1 DEF PayoutsAgree, ReadOK, Alike
<1>5. ScopeKept
  BY <1>1 DEF ScopeKept, ReadOK, Scoped, Answer, Asking
<1>6. QED
  BY <1>2, <1>3, <1>4, <1>5 DEF ReadsSound

LEMMA ReadsInvariant == ReadsSpec => []ReadsInv
BY ReadsStart, ReadsStep, PTL DEF ReadsSpec

(* Whatever is switched, reassigned or earned while a request is served, no *)
(* masked role sees a title that was confidential all the while, nothing is *)
(* shown that was to be logged and was not, a page of payouts agrees with   *)
(* itself and a Manager's list keeps to the Manager's scope (shouldMask,    *)
(* sensitiveRead, handleGetMyPayouts, handleListPlacementLedger).           *)
THEOREM ReadsAreSound == ReadsSpec => []ReadsSound
BY ReadsInvariant, ReadsHold, PTL

-----------------------------------------------------------------------------
(* Reports.  A record that was read is still there, and so is its           *)
(* contributor: the foreign key keeps it.                                   *)
ReportsInv ==
  /\ ReportsTypeOK /\ RateIsShare /\ EachDistributed
  /\ \A l \in Lines : line[l] # "absent" => LineOf[l] \in hired
  /\ \A l \in Lines : report.lines[l] # "absent" =>
       line[l] # "absent" /\ PlaceOf[LineOf[l]] \in report.found

LEMMA BlankTyped ==
  /\ Blank \in Report /\ Blank.pc = "idle" /\ Blank.found = {} /\ Blank.exceptional = 0
  /\ NoLines \in [Lines -> LineStatuses \cup {"absent"}] /\ Blank.lines = NoLines
  /\ \A l \in Lines : NoLines[l] = "absent"
BY DEF Blank, Report, NoLines

LEMMA BlankOK ==
  ASSUME report = Blank PROVE RateIsShare /\ EachDistributed
<1>1. Cardinality({}) = 0
  BY FS_EmptySet
<1>2. QED
  BY <1>1, BlankTyped DEF RateIsShare, EachDistributed

LEMMA ReportsStart == ReportsInit \/ ReportsBegin => ReportsInv
<1>1. SUFFICES ASSUME ReportsInit \/ ReportsBegin PROVE ReportsInv
  OBVIOUS
<1>2. /\ dated \subseteq Deals /\ hired = Credits /\ report = Blank /\ changes = 0
      /\ line \in [Lines -> LineStatuses \cup {"absent"}]
      /\ approved \in [Deals -> 0..MaxExceptions]
  BY <1>1, BlankTyped, ReportsAssumption DEF ReportsInit, ReportsBegin, LineStatuses
<1>3. changes \in 0..MaxChanges
  BY <1>2, ReportsAssumption
<1>4. ReportsTypeOK
  BY <1>2, <1>3, BlankTyped DEF ReportsTypeOK
<1>5. QED
  BY <1>2, <1>4, BlankOK, BlankTyped, ReportsAssumption DEF ReportsInv

LEMMA LaterTyped ==
  ASSUME NEW status \in LineStatuses \cup {"absent"}
  PROVE  NextStatuses(status) \subseteq LineStatuses
BY DEF NextStatuses, LineStatuses

(* What other requests change, while the report keeps what it has read.     *)
LEMMA ChangeKept ==
  ASSUME ReportsInv,
         \/ \E d \in Deals : SetStart(d) \/ ApproveException(d)
         \/ \E l \in Lines : MoveLine(l)
         \/ \E c \in Credits : Dismiss(c)
  PROVE  ReportsInv'
<1>1. report' = report /\ changes' = changes + 1 /\ changes < MaxChanges
  BY DEF SetStart, ApproveException, MoveLine, Dismiss, Change
<1>2. changes' \in 0..MaxChanges
  BY <1>1, ReportsAssumption DEF ReportsInv, ReportsTypeOK
<1>3. RateIsShare' /\ EachDistributed'
  BY <1>1 DEF ReportsInv, RateIsShare, EachDistributed
<1>4. ASSUME NEW d \in Deals, SetStart(d) PROVE ReportsInv'
  BY <1>1, <1>2, <1>3, <1>4 DEF SetStart, ReportsInv, ReportsTypeOK
<1>5. ASSUME NEW d \in Deals, ApproveException(d) PROVE ReportsInv'
  <2>1. approved[d] + 1 \in 0..MaxExceptions
    BY <1>5, ReportsAssumption DEF ApproveException, ReportsInv, ReportsTypeOK
  <2>2. approved' \in [Deals -> 0..MaxExceptions]
    BY <1>5, <2>1 DEF ApproveException, ReportsInv, ReportsTypeOK
  <2>3. QED
    BY <1>1, <1>2, <1>3, <1>5, <2>2 DEF ApproveException, ReportsInv, ReportsTypeOK
<1>6. ASSUME NEW l \in Lines, MoveLine(l) PROVE ReportsInv'
  <2>1. PICK status \in NextStatuses(line[l]) : line' = [line EXCEPT ![l] = status]
    BY <1>6 DEF MoveLine
  <2>2. status \in LineStatuses /\ status # "absent"
    <3>1. line[l] \in LineStatuses \cup {"absent"}
      BY DEF ReportsInv, ReportsTypeOK
    <3>2. QED
      BY <2>1, <3>1, LaterTyped DEF LineStatuses
  <2>3. /\ line' \in [Lines -> LineStatuses \cup {"absent"}]
        /\ \A x \in Lines : line'[x] = IF x = l THEN status ELSE line[x]
    BY <2>1, <2>2 DEF ReportsInv, ReportsTypeOK
  <2>4. UNCHANGED <<dated, hired, approved>> /\ LineOf[l] \in hired
    BY <1>6 DEF MoveLine
  <2>5. QED
    BY <1>1, <1>2, <1>3, <2>2, <2>3, <2>4 DEF ReportsInv, ReportsTypeOK
<1>7. ASSUME NEW c \in Credits, Dismiss(c) PROVE ReportsInv'
  BY <1>1, <1>2, <1>3, <1>7 DEF Dismiss, ReportsInv, ReportsTypeOK
<1>8. QED
  BY <1>4, <1>5, <1>6, <1>7

LEMMA ReadPlacementsKept == ASSUME ReportsInv, ReadPlacements PROVE ReportsInv'
<1>1. PICK r : r = [Blank EXCEPT !.pc = "records", !.found = dated]
  OBVIOUS
<1>2. /\ r \in Report /\ r.pc = "records" /\ r.exceptional = 0 /\ r.lines = NoLines
      /\ r.found = dated /\ dated \subseteq Deals
  BY <1>1, BlankTyped DEF Report, ReportsInv, ReportsTypeOK
<1>3. report' = r /\ UNCHANGED <<dated, line, hired, approved, changes>>
  BY <1>1 DEF ReadPlacements
<1>4. Cardinality(dated) \in Nat
  BY <1>2, DealOfAssumption, FS_Subset, FS_CardinalityType
<1>5. RateIsShare' /\ EachDistributed'
  BY <1>2, <1>3, <1>4 DEF RateIsShare, EachDistributed
<1>6. QED
  BY <1>2, <1>3, <1>5, BlankTyped DEF ReportsInv, ReportsTypeOK

LEMMA ReadRecordsKept == ASSUME ReportsInv, ReadRecords PROVE ReportsInv'
<1>1. PICK m, lines :
        /\ m = report
        /\ lines = [l \in Lines |-> IF PlaceOf[LineOf[l]] \in m.found THEN line[l]
                                                                    ELSE "absent"]
  OBVIOUS
<1>2. m \in Report /\ line \in [Lines -> LineStatuses \cup {"absent"}]
  BY <1>1 DEF ReportsInv, ReportsTypeOK
<1>3. PICK r : r = [m EXCEPT !.pc = "exceptions", !.lines = lines]
  OBVIOUS
<1>4. /\ r \in Report /\ r.pc = "exceptions" /\ r.exceptional = m.exceptional
      /\ r.lines = lines /\ r.found = m.found
  BY <1>1, <1>2, <1>3 DEF Report
<1>5. report' = r /\ UNCHANGED <<dated, line, hired, approved, changes>>
  BY <1>1, <1>3 DEF ReadRecords
<1>6. RateIsShare' /\ EachDistributed'
  BY <1>1, <1>4, <1>5 DEF ReportsInv, RateIsShare, EachDistributed
<1>7. QED
  BY <1>1, <1>2, <1>4, <1>5, <1>6 DEF ReportsInv, ReportsTypeOK

LEMMA ReadExceptionsKept == ASSUME ReportsInv, ReadExceptions PROVE ReportsInv'
<1>1. PICK m, number : m = report /\ number = Cardinality({d \in m.found : approved[d] > 0})
  OBVIOUS
<1>2. m \in Report /\ m.found \subseteq Deals
  BY <1>1 DEF ReportsInv, ReportsTypeOK, Report
<1>3. number \in Nat /\ number <= Cardinality(m.found)
  <2>1. IsFiniteSet(m.found)
    BY <1>2, DealOfAssumption, FS_Subset
  <2>2. {d \in m.found : approved[d] > 0} \in SUBSET m.found
    OBVIOUS
  <2>3. QED
    BY <1>1, <2>1, <2>2, FS_Subset, FS_CardinalityType
<1>4. PICK r : r = [m EXCEPT !.pc = "producers", !.exceptional = number]
  OBVIOUS
<1>5. /\ r \in Report /\ r.pc = "producers" /\ r.exceptional = number
      /\ r.lines = m.lines /\ r.found = m.found
  BY <1>2, <1>3, <1>4 DEF Report
<1>6. report' = r /\ UNCHANGED <<dated, line, hired, approved, changes>>
  BY <1>1, <1>4 DEF ReadExceptions
<1>7. RateIsShare' /\ EachDistributed'
  BY <1>3, <1>5, <1>6 DEF RateIsShare, EachDistributed
<1>8. QED
  BY <1>1, <1>5, <1>6, <1>7 DEF ReportsInv, ReportsTypeOK

LEMMA ReadProducersKept == ASSUME ReportsInv, ReadProducers PROVE ReportsInv'
<1>1. PICK m, known :
        /\ m = report
        /\ known = {c \in hired : \E l \in Lines : LineOf[l] = c /\ m.lines[l] # "absent"}
  OBVIOUS
<1>2. m \in Report /\ known \subseteq Credits
  BY <1>1 DEF ReportsInv, ReportsTypeOK
<1>3. PICK r : r = [m EXCEPT !.pc = "done", !.known = known]
  OBVIOUS
<1>4. /\ r \in Report /\ r.pc = "done" /\ r.exceptional = m.exceptional
      /\ r.lines = m.lines /\ r.found = m.found /\ r.known = known
  BY <1>2, <1>3 DEF Report
<1>5. report' = r /\ UNCHANGED <<dated, line, hired, approved, changes>>
  BY <1>1, <1>3 DEF ReadProducers
<1>6. \A l \in Lines : m.lines[l] # "absent" =>
        PlaceOf[LineOf[l]] \in m.found /\ LineOf[l] \in known
  BY <1>1 DEF ReportsInv
<1>7. RateIsShare' /\ EachDistributed'
  BY <1>1, <1>4, <1>5, <1>6 DEF ReportsInv, RateIsShare, EachDistributed
<1>8. QED
  BY <1>1, <1>4, <1>5, <1>7 DEF ReportsInv, ReportsTypeOK

LEMMA PublishKept == ASSUME ReportsInv, Publish PROVE ReportsInv'
<1>1. report' = Blank /\ changes' = 0 /\ UNCHANGED <<dated, line, hired, approved>>
  BY DEF Publish
<1>2. Cardinality({}) = 0 /\ 0 \in 0..MaxChanges
  BY FS_EmptySet, ReportsAssumption
<1>3. RateIsShare' /\ EachDistributed'
  BY <1>1, <1>2, BlankTyped DEF RateIsShare, EachDistributed
<1>4. QED
  BY <1>1, <1>2, <1>3, BlankTyped DEF ReportsInv, ReportsTypeOK

LEMMA ReportsStep == ReportsInv /\ [ReportsNext]_reportVars => ReportsInv'
<1>1. SUFFICES ASSUME ReportsInv, [ReportsNext]_reportVars PROVE ReportsInv'
  OBVIOUS
<1>2. CASE UNCHANGED reportVars
  BY <1>1, <1>2 DEF reportVars, ReportsInv, ReportsTypeOK, RateIsShare, EachDistributed
<1>3. QED
  BY <1>1, <1>2, ChangeKept, ReadPlacementsKept, ReadRecordsKept, ReadExceptionsKept,
     ReadProducersKept, PublishKept DEF ReportsNext

(* The amounts are summed up over sets of records. *)
LEMMA NetIsSum ==
  ASSUME NEW S
  PROVE  Net(S) = Sum(NetOf, S)
BY DEF Net, Sum

LEMMA NetAdds ==
  ASSUME NEW S \in SUBSET Lines, NEW T \in SUBSET Lines, S \cap T = {}
  PROVE  Net(S \cup T) = Net(S) + Net(T)
<1>1. IsFiniteSet(S) /\ IsFiniteSet(T) /\ Ints(NetOf, S) /\ Ints(NetOf, T)
  BY ReportsAssumption, FS_Subset DEF Ints
<1>. QED BY <1>1, SumUnion, NetIsSum

(* The columns of a team part the statuses that are income.                 *)
LEMMA TeamParts == ASSUME NEW table PROVE TeamAccrued(table) + Payable(table) + Held(table)
                                            = NetFeeIncome(table)
<1>. DEFINE A == WithStatus(table, {"Accrued", "PendingApproval", "Approved"})
            P == WithStatus(table, {"Payable"})
            H == WithStatus(table, {"Held"})
<1>1. /\ A \in SUBSET Lines /\ P \in SUBSET Lines /\ H \in SUBSET Lines
      /\ A \cap P = {} /\ (A \cup P) \cap H = {} /\ A \cup P \in SUBSET Lines
      /\ (A \cup P) \cup H = WithStatus(table, LineStatuses \ {"ClawbackInitiated"})
  BY DEF WithStatus, LineStatuses
<1>2. Net((A \cup P) \cup H) = (Net(A) + Net(P)) + Net(H)
  <2>. HIDE DEF A, P, H
  <2>. QED BY <1>1, NetAdds
<1>. QED BY <1>1, <1>2 DEF TeamAccrued, Payable, Held, NetFeeIncome

(* Each record that was read has one client and one producer.               *)
LEMMA BreakdownsHold == ASSUME ReportsInv PROVE BreakdownsAgree
<1>. DEFINE S == WithStatus(report.lines, LineStatuses)
            ClientOfLine == [l \in Lines |-> ClientOf[PlaceOf[LineOf[l]]]]
            ProducerOfLine == [l \in Lines |-> ProducerOf[LineOf[l]]]
<1>1. SUFFICES ASSUME report.pc = "done"
               PROVE  Sum(CommissionBurden, Clients) = Sum(NetByProducer, Producers)
  BY DEF BreakdownsAgree, Sum
<1>2. \A l \in S : /\ l \in Lines /\ PlaceOf[LineOf[l]] \in report.found /\ LineOf[l] \in report.known
                  /\ PlaceOf[LineOf[l]] \in Deals /\ LineOf[l] \in Credits
  BY <1>1, ReportsAssumption DEF ReportsInv, EachDistributed, WithStatus, LineStatuses
<1>3. IsFiniteSet(S) /\ Ints(NetOf, S)
  BY ReportsAssumption, FS_Subset DEF Ints, WithStatus
<1>4. IsFiniteSet(Clients) /\ IsFiniteSet(Producers)
  <2>1. IsFiniteSet(Deals) /\ IsFiniteSet(Credits)
    BY DealOfAssumption, ReportsAssumption
  <2>. DEFINE clients == [d \in Deals |-> ClientOf[d]]
              producers == [c \in Credits |-> ProducerOf[c]]
  <2>2. /\ clients \in Surjection(Deals, Clients)
        /\ producers \in Surjection(Credits, Producers)
    BY DEF Clients, Producers, Surjection
  <2>. QED BY <2>1, <2>2, FS_Surjection
<1>5. ASSUME NEW k \in Clients
      PROVE  \E T \in SUBSET S : /\ CommissionBurden[k] = Sum(NetOf, T)
                                 /\ \A l \in S : l \in T <=> ClientOfLine[l] = k
  <2>1. {l \in S : LET d == PlaceOf[LineOf[l]] IN d \in report.found /\ ClientOf[d] = k}
          = {l \in S : ClientOfLine[l] = k}
    BY <1>2
  <2>2. PICK T \in SUBSET S : T = {l \in S : ClientOfLine[l] = k}
    OBVIOUS
  <2>3. CommissionBurden[k] = Sum(NetOf, T)
    BY <2>1, <2>2, NetIsSum DEF CommissionBurden
  <2>4. \A l \in S : l \in T <=> ClientOfLine[l] = k
    BY <2>2
  <2>. QED BY <2>3, <2>4
<1>6. ASSUME NEW k \in Producers
      PROVE  \E T \in SUBSET S : /\ NetByProducer[k] = Sum(NetOf, T)
                                 /\ \A l \in S : l \in T <=> ProducerOfLine[l] = k
  <2>1. {l \in S : LineOf[l] \in report.known /\ ProducerOf[LineOf[l]] = k}
          = {l \in S : ProducerOfLine[l] = k}
    BY <1>2
  <2>2. PICK T \in SUBSET S : T = {l \in S : ProducerOfLine[l] = k}
    OBVIOUS
  <2>3. NetByProducer[k] = Sum(NetOf, T)
    BY <2>1, <2>2, NetIsSum DEF NetByProducer
  <2>4. \A l \in S : l \in T <=> ProducerOfLine[l] = k
    BY <2>2
  <2>. QED BY <2>3, <2>4
<1>7. /\ \A l \in S : ClientOfLine[l] \in Clients
      /\ \A l \in S : ProducerOfLine[l] \in Producers
  BY <1>2 DEF Clients, Producers
<1>8. Sum(CommissionBurden, Clients) = Sum(NetOf, S)
  <2>. HIDE DEF S, ClientOfLine
  <2>. QED BY <1>3, <1>4, <1>5, <1>7, SumByKey
<1>9. Sum(NetByProducer, Producers) = Sum(NetOf, S)
  <2>. HIDE DEF S, ProducerOfLine
  <2>. QED BY <1>3, <1>4, <1>6, <1>7, SumByKey
<1>. QED BY <1>8, <1>9

(* Whatever changes between the statements of a report, its two breakdowns  *)
(* distribute the same commission, its exceptions are a share of the        *)
(* placements that it found, and the columns of a team are all its income   *)
(* (getExecutiveAnalytics, getTeamCommissionSummary).                       *)
THEOREM FiguresAdd == ReportsSpec => []FiguresAgree
<1>1. ReportsInv => FiguresAgree
  BY BreakdownsHold, TeamParts DEF ReportsInv, FiguresAgree, TeamAddsUp
<1>. QED BY <1>1, ReportsStart, ReportsStep, PTL DEF ReportsSpec

(* Whatever changes between the statements of a report, each record that it *)
(* has read is distributed to a client and to a producer, and the           *)
(* placements with an exception are some of those it has found              *)
(* (getExecutiveAnalytics).                                                 *)
THEOREM ReportsCount == ReportsSpec => [](RateIsShare /\ EachDistributed)
<1>1. ReportsInv => RateIsShare /\ EachDistributed
  BY DEF ReportsInv
<1>2. QED
  BY <1>1, ReportsStart, ReportsStep, PTL DEF ReportsSpec

-----------------------------------------------------------------------------
(* The pages that change rows and fetch them again.  On a guarded page the  *)
(* loads of the last refresh have read what is stored now, unless a change  *)
(* was made whose answer is still to come; its answer refreshes once more.  *)

Made(x) == x.pc = "done" /\ x.op \in {"add", "remove"}

Loaded(x) == x.pc = "done" /\ x.op = "load"

Guarded ==
  page \in {"panel", "collection", "adjustments"} /\ ~astray
    /\ (\A s \in EditSlots : ~Made(call[s])) =>
    /\ \A s \in EditSlots : Loaded(call[s]) /\ call[s].key = refreshKey => call[s].seen = stored
    /\ screen.phase = "list" => screen.rows = stored

(* The user who waits: there is one call at most, and it says how far the   *)
(* page is from what is stored.                                             *)
Excused ==
  \/ page = "splits" /\ screen.told # {}
  \/ page = "assignments" /\ ("list" \in screen.told \/ screen.dismissed)

IsTold(rows) ==
  screen.phase = "list" => /\ Excused \/ rows = stored
                           /\ page = "assignments" => rows \subseteq stored

RowsSynced == IsTold(screen.rows)
LedgerSynced == page = "assignments" /\ ~ledger.error => ledger.rows = stored

AtRest == RowsSynced /\ LedgerSynced /\ (page = "cases" => screen.phase # "loading")

OfWaiting(x) ==
  /\ x.op = "load" => /\ LedgerSynced
                      /\ x.pc = "done" => x.seen = stored
                      /\ page # "assignments" => x.key = refreshKey
  /\ x.op = "ledger" => /\ x.pc = "done" => x.seen = stored
                        /\ x.then # "list" => RowsSynced
  /\ page = "assignments" =>
       /\ "list" \notin screen.told
       /\ x.op = "add" => x.then = "list"
       /\ x.op \in {"load", "ledger"} /\ screen.phase = "list" => screen.rows \subseteq stored
  /\ page = "splits" /\ x.op \in {"add", "remove"} => x.key = refreshKey
  /\ x.op \in {"add", "remove"} /\ x.pc # "done" => AtRest \/ page = "splits"
  /\ x.op = "add" /\ x.pc = "done" =>
       /\ page \in {"assignments", "cases"} => IsTold(screen.rows \cup {x.item})
       /\ page = "cases" => screen.phase # "loading"
  /\ x.op = "remove" /\ x.pc = "done" /\ page \in {"assignments", "pending"} =>
       IsTold(screen.rows \ {x.item})

Patient ==
  page \in {"assignments", "cases", "pending", "splits"} /\ ~overlapped =>
    /\ \A s, t \in EditSlots : Waiting(s) /\ Waiting(t) => s = t
    /\ ~astray => /\ \A s \in EditSlots : Waiting(s) => OfWaiting(call[s])
                  /\ Quiet => AtRest

Deciding ==
  page = "pending" =>
    /\ \A s \in EditSlots : /\ call[s].op # "add"
                            /\ Loaded(call[s]) => stored \subseteq call[s].seen
                            /\ Made(call[s]) => call[s].item \notin stored
    /\ DecidedLeave

(* A change names the row that it adds or removes.                           *)
Named ==
  \A s \in EditSlots :
    Waiting(s) /\ call[s].op \in {"add", "remove"} =>
      call[s].item \in Items /\ (page = "splits" => call[s].then \in Items)

EditInv == PagesTypeOK /\ Named /\ Guarded /\ Patient /\ Deciding

LEMMA NoEditTyped ==
  /\ NoEdit \in PageCall
  /\ NoEdit = [pc |-> "idle", op |-> "load", item |-> NoItem, then |-> NoItem, key |-> 0,
               seen |-> {}]
BY DEF NoEdit, PageCall

LEMMA RequestTyped ==
  ASSUME NEW op \in {"load", "ledger", "add", "remove"}, NEW i \in Items \cup {NoItem},
         NEW then \in Items \cup {NoItem, "list"}, NEW key \in Nat
  PROVE  EditRequest(op, i, then, key) \in PageCall
BY DEF EditRequest, PageCall

LEMMA LoadTyped ==
  ASSUME NEW key \in Nat
  PROVE  /\ LoadRequest(key) \in PageCall
         /\ LoadRequest(key) =
              [pc |-> "sent", op |-> "load", item |-> NoItem, then |-> NoItem, key |-> key,
               seen |-> {}]
BY DEF LoadRequest, EditRequest, PageCall

LEMMA PagesStart == PagesInit \/ PagesBegin => EditInv
<1> SUFFICES ASSUME PagesInit \/ PagesBegin PROVE EditInv
  OBVIOUS
<1>1. LoadRequest(0) \in PageCall /\ LoadRequest(0).pc = "sent" /\ LoadRequest(0).op = "load"
      /\ LoadRequest(0).key = 0
  <2>1. 0 \in Nat
    OBVIOUS
  <2>2. QED
    BY <2>1, LoadTyped
<1>2. CASE PagesBegin
  BY <1>2, NoEditTyped, EditsAssumption DEF PagesBegin, EditInv, PagesTypeOK, PageScreen,
     PageLedger, Pages, Named, Guarded, Patient, Deciding,
     Loaded, Made, Waiting, Quiet, AtRest, RowsSynced, LedgerSynced, IsTold, Excused,
     DecidedLeave, OfWaiting
<1>3. CASE PagesInit
  <2>1. PICK s \in EditSlots :
          call = [t \in EditSlots |->
                    IF t = s /\ page # "assignments" THEN LoadRequest(0) ELSE NoEdit]
    BY <1>3 DEF PagesInit
  <2>2. PagesTypeOK
    <3>1. call \in [EditSlots -> PageCall] /\ \A t \in EditSlots : call[t].key = 0
      BY <1>1, <2>1, NoEditTyped
    <3>2. QED
      BY <1>3, <3>1, EditsAssumption DEF PagesInit, PagesTypeOK, PageScreen, PageLedger
  <2>3. Named /\ Guarded /\ Deciding
    BY <1>1, <1>3, <2>1, NoEditTyped DEF PagesInit, Named, Waiting, Guarded, Deciding,
       DecidedLeave, Loaded, Made
  <2>4. Patient
    BY <1>1, <1>3, <2>1, NoEditTyped DEF PagesInit, Patient, Waiting, Quiet, AtRest, RowsSynced,
       LedgerSynced, IsTold, Excused, OfWaiting
  <2>5. QED
    BY <2>2, <2>3, <2>4 DEF EditInv
<1>4. QED
  BY <1>2, <1>3

LEMMA ServeKeepsPages ==
  ASSUME EditInv, NEW s \in EditSlots, Serve(s)
  PROVE  EditInv'
<1>1. PagesTypeOK /\ Named /\ Guarded /\ Patient /\ Deciding
  BY DEF EditInv
<1>2. call[s] \in PageCall /\ call \in [EditSlots -> PageCall] /\ stored \subseteq Items
      /\ call[s].pc = "sent"
  BY <1>1 DEF PagesTypeOK, Serve
<1>3. PICK seen \in SUBSET Items :
        /\ seen = IF call[s].op \in {"load", "ledger"} THEN stored ELSE {}
        /\ call' = [call EXCEPT ![s].pc = "done", ![s].seen = seen]
  BY <1>2 DEF Serve, Became
<1>4. /\ call' \in [EditSlots -> PageCall] /\ call'[s].pc = "done" /\ call'[s].seen = seen
      /\ call'[s].op = call[s].op /\ call'[s].item = call[s].item
      /\ call'[s].then = call[s].then /\ call'[s].key = call[s].key
      /\ \A t \in EditSlots : t # s => call'[t] = call[t]
  <2>1. PICK answered : answered = [call[s] EXCEPT !.pc = "done"]
    OBVIOUS
  <2>2. /\ answered \in PageCall /\ answered.op = call[s].op /\ answered.item = call[s].item
        /\ answered.then = call[s].then /\ answered.key = call[s].key /\ answered.pc = "done"
    BY <1>2, <2>1 DEF PageCall
  <2>3. PICK next : next = [answered EXCEPT !.seen = seen]
    OBVIOUS
  <2>4. /\ next \in PageCall /\ next.op = call[s].op /\ next.item = call[s].item
        /\ next.then = call[s].then /\ next.key = call[s].key /\ next.pc = "done"
        /\ next.seen = seen
    BY <2>2, <2>3 DEF PageCall
  <2>5. call' = [call EXCEPT ![s] = next]
    BY <1>3, <2>1, <2>3
  <2>6. QED
    BY <1>2, <2>4, <2>5
<1>5. UNCHANGED <<page, screen, ledger, refreshKey, edits, astray, overlapped>>
  BY DEF Serve
<1>6. /\ call[s].op = "add" => stored' = stored \cup {call[s].item}
      /\ call[s].op = "remove" => stored' = stored \ {call[s].item}
      /\ call[s].op \in {"load", "ledger"} => stored' = stored
      /\ call[s].op \in {"load", "ledger", "add", "remove"}
  BY <1>2 DEF Serve, PageCall
<1>7. PagesTypeOK' /\ Named'
  BY <1>1, <1>2, <1>4, <1>5, <1>6 DEF PagesTypeOK, Named, Waiting
<1>8. Guarded'
  BY <1>1, <1>2, <1>3, <1>4, <1>5, <1>6 DEF Guarded, Made, Loaded
<1>9. Patient'
  <2>1. SUFFICES ASSUME page \in {"assignments", "cases", "pending", "splits"}, ~overlapped
        PROVE  /\ \A u, t \in EditSlots : Waiting(u)' /\ Waiting(t)' => u = t
               /\ ~astray => /\ \A t \in EditSlots : Waiting(t)' => OfWaiting(call[t])'
                             /\ Quiet' => AtRest'
    BY <1>5 DEF Patient
  <2>2. \A t \in EditSlots : Waiting(t)' => t = s
    BY <1>1, <1>2, <1>4, <2>1 DEF Patient, Waiting
  <2>3. ~astray => OfWaiting(call[s])
    BY <1>1, <1>2, <2>1 DEF Patient, Waiting
  <2>4. ~Quiet'
    BY <1>4 DEF Quiet, Waiting
  <2>5. ASSUME ~astray PROVE OfWaiting(call[s])'
    BY <1>2, <1>3, <1>4, <1>5, <1>6, <2>3, <2>5 DEF OfWaiting, AtRest, RowsSynced,
       LedgerSynced, IsTold, Excused
  <2>6. QED
    BY <2>2, <2>4, <2>5
<1>10. Deciding'
  BY <1>1, <1>2, <1>3, <1>4, <1>5, <1>6 DEF Deciding, DecidedLeave, Made, Loaded
<1>11. QED
  BY <1>7, <1>8, <1>9, <1>10 DEF EditInv

LEMMA FailureKeepsPages ==
  ASSUME EditInv, NEW s \in EditSlots, Refuse(s) \/ LoseAnswer(s)
  PROVE  EditInv'
<1>1. PagesTypeOK /\ Named /\ Guarded /\ Patient /\ Deciding
  BY DEF EditInv
<1>2. call[s] \in PageCall /\ call \in [EditSlots -> PageCall] /\ stored \subseteq Items
  BY <1>1 DEF PagesTypeOK
<1>3. call' = [call EXCEPT ![s].pc = "failed", ![s].seen = {}]
  BY DEF Refuse, LoseAnswer, Became
<1>4. /\ call' \in [EditSlots -> PageCall] /\ call'[s].pc = "failed"
      /\ call'[s].op = call[s].op /\ call'[s].item = call[s].item
      /\ call'[s].then = call[s].then /\ call'[s].key = call[s].key
      /\ \A t \in EditSlots : t # s => call'[t] = call[t]
  <2>1. PICK answered : answered = [call[s] EXCEPT !.pc = "failed"]
    OBVIOUS
  <2>2. /\ answered \in PageCall /\ answered.op = call[s].op /\ answered.item = call[s].item
        /\ answered.then = call[s].then /\ answered.key = call[s].key /\ answered.pc = "failed"
    BY <1>2, <2>1 DEF PageCall
  <2>3. PICK next : next = [answered EXCEPT !.seen = {}]
    OBVIOUS
  <2>4. /\ next \in PageCall /\ next.op = call[s].op /\ next.item = call[s].item
        /\ next.then = call[s].then /\ next.key = call[s].key /\ next.pc = "failed"
        /\ next.seen = {}
    BY <2>2, <2>3 DEF PageCall
  <2>5. call' = [call EXCEPT ![s] = next]
    BY <1>3, <2>1, <2>3
  <2>6. QED
    BY <1>2, <2>4, <2>5
<1>5. UNCHANGED <<page, stored, screen, ledger, refreshKey, edits, overlapped>>
  BY DEF Refuse, LoseAnswer
<1>6. /\ call[s].pc # "idle" /\ (~astray' => ~astray)
      /\ call[s].pc = "done" /\ call[s].op \in {"add", "remove"} => astray'
  <2>1. CASE Refuse(s)
    BY <2>1 DEF Refuse
  <2>2. CASE LoseAnswer(s)
    BY <2>2 DEF LoseAnswer
  <2>3. QED
    BY <2>1, <2>2
<1>7. PagesTypeOK' /\ Named'
  BY <1>1, <1>2, <1>4, <1>5, <1>6 DEF PagesTypeOK, Named, Waiting
<1>8. Guarded'
  BY <1>1, <1>2, <1>4, <1>5, <1>6 DEF Guarded, Made, Loaded
<1>9. Patient'
  <2>1. SUFFICES ASSUME page \in {"assignments", "cases", "pending", "splits"}, ~overlapped
        PROVE  /\ \A u, t \in EditSlots : Waiting(u)' /\ Waiting(t)' => u = t
               /\ ~astray' => /\ \A t \in EditSlots : Waiting(t)' => OfWaiting(call[t])'
                              /\ Quiet' => AtRest'
    BY <1>5 DEF Patient
  <2>2. \A t \in EditSlots : Waiting(t)' => t = s
    BY <1>1, <1>6, <1>4, <2>1 DEF Patient, Waiting
  <2>3. ~astray => OfWaiting(call[s])
    BY <1>1, <1>6, <2>1 DEF Patient, Waiting
  <2>4. ~Quiet'
    BY <1>4 DEF Quiet, Waiting
  <2>5. ASSUME ~astray' PROVE OfWaiting(call[s])'
    BY <1>4, <1>5, <1>6, <2>3, <2>5 DEF OfWaiting, AtRest, RowsSynced,
       LedgerSynced, IsTold, Excused
  <2>6. QED
    BY <2>2, <2>4, <2>5
<1>10. Deciding'
  BY <1>1, <1>2, <1>4, <1>5, <1>6 DEF Deciding, DecidedLeave, Made, Loaded
<1>11. QED
  BY <1>7, <1>8, <1>9, <1>10 DEF EditInv
LEMMA UseAsyncKeepsPages ==
  ASSUME EditInv, NEW s \in EditSlots, UseAsync(s) \/ UseAsyncError(s)
  PROVE  EditInv'
<1>1. PagesTypeOK /\ Named /\ Guarded /\ Patient /\ Deciding
  BY DEF EditInv
<1>2. /\ call[s] \in PageCall /\ call \in [EditSlots -> PageCall] /\ refreshKey \in Nat
      /\ UNCHANGED <<page, stored, edits, astray, overlapped>> /\ Waiting(s)
      /\ screen \in PageScreen /\ ledger \in PageLedger /\ stored \subseteq Items
  BY <1>1 DEF PagesTypeOK, PageScreen, PageLedger, Waiting, Answers, UseAsync, UseAsyncError
<1>3. PICK request \in PageCall :
        call' = [call EXCEPT ![s] = request] /\ request.pc = "idle" /\ request.op = "load"
          /\ request.key = 0
  BY NoEditTyped DEF UseAsync, UseAsyncError, Then
<1>4. /\ call' \in [EditSlots -> PageCall] /\ call'[s] = request
      /\ \A t \in EditSlots : t # s => call'[t] = call[t]
  BY <1>2, <1>3
<1>5. /\ page # "assignments" /\ call[s].op = "load" /\ UNCHANGED <<ledger, refreshKey>>
      /\ call[s].key # refreshKey => screen' = screen
      /\ call[s].key = refreshKey =>
           \/ /\ call[s].pc = "done"
              /\ screen' = [phase |-> "list", rows |-> call[s].seen, told |-> screen.told,
                      dismissed |-> screen.dismissed]
           \/ screen' = [phase |-> "error", rows |-> screen.rows, told |-> screen.told,
                      dismissed |-> screen.dismissed]
  BY <1>2, <1>3 DEF PageScreen, UseAsync, UseAsyncError, Answers, ShowRows, Pages
<1>6. PagesTypeOK' /\ Named'
  <2>1. call[s].seen \in SUBSET Items
    BY <1>2 DEF PageCall
  <2>2. screen' \in PageScreen /\ ledger' \in PageLedger
    BY <1>2, <1>5, <2>1 DEF PageScreen, PageLedger
  <2>3. QED
    BY <1>1, <1>2, <1>3, <1>4, <1>5, <2>2 DEF PagesTypeOK, Named, Waiting, PageCall
<1>7. Guarded'
  BY <1>1, <1>2, <1>3, <1>4, <1>5 DEF Guarded, Made, Loaded, PagesTypeOK
<1>8. Patient'
  <2>1. SUFFICES ASSUME page \in {"assignments", "cases", "pending", "splits"}, ~overlapped
        PROVE  /\ \A u, t \in EditSlots : Waiting(u)' /\ Waiting(t)' => u = t
               /\ ~astray => /\ \A t \in EditSlots : Waiting(t)' => OfWaiting(call[t])'
                             /\ Quiet' => AtRest'
    BY <1>2 DEF Patient
  <2>2. \A t \in EditSlots : Waiting(t)' => t = s
    BY <1>1, <1>2, <1>4, <2>1 DEF Patient, Waiting
  <2>3. ~astray => OfWaiting(call[s])
    BY <1>1, <1>2, <2>1 DEF Patient, Waiting
  <2>4. ~Waiting(s)'
    BY <1>3, <1>4 DEF Waiting
  <2>5. ASSUME ~astray PROVE AtRest'
    BY <1>2, <1>3, <1>5, <2>1, <2>3, <2>5 DEF OfWaiting, AtRest, RowsSynced, LedgerSynced,
       IsTold, Excused, PageScreen
  <2>6. QED
    BY <2>2, <2>4, <2>5
<1>9. Deciding'
  BY <1>1, <1>2, <1>3, <1>4, <1>5 DEF Deciding, DecidedLeave, Made, Loaded
<1>10. QED
  BY <1>6, <1>7, <1>8, <1>9 DEF EditInv

LEMMA HandleApprovedKeepsPages ==
  ASSUME EditInv, NEW s \in EditSlots, HandleApproved(s)
  PROVE  EditInv'
<1>1. PagesTypeOK /\ Named /\ Guarded /\ Patient /\ Deciding
  BY DEF EditInv
<1>2. /\ call[s] \in PageCall /\ call \in [EditSlots -> PageCall] /\ refreshKey \in Nat
      /\ UNCHANGED <<page, stored, edits, astray, overlapped>> /\ Waiting(s)
      /\ screen \in PageScreen /\ ledger \in PageLedger /\ stored \subseteq Items
  BY <1>1 DEF PagesTypeOK, PageScreen, PageLedger, Waiting, Answers, HandleApproved
<1>3. PICK request \in PageCall :
        call' = [call EXCEPT ![s] = request] /\ request.pc = "idle" /\ request.op = "load"
          /\ request.key = 0
  BY NoEditTyped DEF HandleApproved, Then
<1>4. /\ call' \in [EditSlots -> PageCall] /\ call'[s] = request
      /\ \A t \in EditSlots : t # s => call'[t] = call[t]
  BY <1>2, <1>3
<1>5. /\ page = "pending" /\ call[s].pc = "done" /\ call[s].op = "remove"
      /\ UNCHANGED <<ledger, refreshKey>>
      /\ screen' = [phase |-> screen.phase, rows |-> screen.rows \ {call[s].item},
                      told |-> screen.told,
                      dismissed |-> screen.dismissed]
  BY <1>2, <1>3 DEF PageScreen, HandleApproved, Answers
<1>6. PagesTypeOK' /\ Named'
  <2>1. call[s].seen \in SUBSET Items
    BY <1>2 DEF PageCall
  <2>2. screen' \in PageScreen /\ ledger' \in PageLedger
    BY <1>2, <1>5, <2>1 DEF PageScreen, PageLedger
  <2>3. QED
    BY <1>1, <1>2, <1>3, <1>4, <1>5, <2>2 DEF PagesTypeOK, Named, Waiting, PageCall
<1>7. Guarded'
  BY <1>1, <1>2, <1>3, <1>4, <1>5 DEF Guarded, Made, Loaded, PagesTypeOK
<1>8. Patient'
  <2>1. SUFFICES ASSUME page \in {"assignments", "cases", "pending", "splits"}, ~overlapped
        PROVE  /\ \A u, t \in EditSlots : Waiting(u)' /\ Waiting(t)' => u = t
               /\ ~astray => /\ \A t \in EditSlots : Waiting(t)' => OfWaiting(call[t])'
                             /\ Quiet' => AtRest'
    BY <1>2 DEF Patient
  <2>2. \A t \in EditSlots : Waiting(t)' => t = s
    BY <1>1, <1>2, <1>4, <2>1 DEF Patient, Waiting
  <2>3. ~astray => OfWaiting(call[s])
    BY <1>1, <1>2, <2>1 DEF Patient, Waiting
  <2>4. ~Waiting(s)'
    BY <1>3, <1>4 DEF Waiting
  <2>5. ASSUME ~astray PROVE AtRest'
    BY <1>2, <1>3, <1>5, <2>1, <2>3, <2>5 DEF OfWaiting, AtRest, RowsSynced, LedgerSynced,
       IsTold, Excused, PageScreen
  <2>6. QED
    BY <2>2, <2>4, <2>5
<1>9. Deciding'
  BY <1>1, <1>2, <1>3, <1>4, <1>5 DEF Deciding, DecidedLeave, Made, Loaded
<1>10. QED
  BY <1>6, <1>7, <1>8, <1>9 DEF EditInv

LEMMA HandleCreatedKeepsPages ==
  ASSUME EditInv, NEW s \in EditSlots, HandleCreated(s)
  PROVE  EditInv'
<1>1. PagesTypeOK /\ Named /\ Guarded /\ Patient /\ Deciding
  BY DEF EditInv
<1>2. /\ call[s] \in PageCall /\ call \in [EditSlots -> PageCall] /\ refreshKey \in Nat
      /\ UNCHANGED <<page, stored, edits, astray, overlapped>> /\ Waiting(s)
      /\ screen \in PageScreen /\ ledger \in PageLedger /\ stored \subseteq Items
  BY <1>1 DEF PagesTypeOK, PageScreen, PageLedger, Waiting, Answers, HandleCreated
<1>3. PICK request \in PageCall :
        call' = [call EXCEPT ![s] = request] /\ request.pc = "idle" /\ request.op = "load"
          /\ request.key = 0
  BY NoEditTyped DEF HandleCreated, Then
<1>4. /\ call' \in [EditSlots -> PageCall] /\ call'[s] = request
      /\ \A t \in EditSlots : t # s => call'[t] = call[t]
  BY <1>2, <1>3
<1>5. /\ page = "cases" /\ call[s].pc = "done" /\ call[s].op = "add"
      /\ UNCHANGED <<ledger, refreshKey>> /\ call[s].item \in Items
      /\ screen' = [phase |-> IF screen.phase = "error" THEN "error" ELSE "list",
                      rows |-> screen.rows \cup {call[s].item}, told |-> screen.told,
                      dismissed |-> screen.dismissed]
  BY <1>2, <1>3, <1>1 DEF PageScreen, HandleCreated, Answers, Named
<1>6. PagesTypeOK' /\ Named'
  <2>1. call[s].seen \in SUBSET Items
    BY <1>2 DEF PageCall
  <2>2. screen' \in PageScreen /\ ledger' \in PageLedger
    BY <1>2, <1>5, <2>1 DEF PageScreen, PageLedger
  <2>3. QED
    BY <1>1, <1>2, <1>3, <1>4, <1>5, <2>2 DEF PagesTypeOK, Named, Waiting, PageCall
<1>7. Guarded'
  BY <1>1, <1>2, <1>3, <1>4, <1>5 DEF Guarded, Made, Loaded, PagesTypeOK
<1>8. Patient'
  <2>1. SUFFICES ASSUME page \in {"assignments", "cases", "pending", "splits"}, ~overlapped
        PROVE  /\ \A u, t \in EditSlots : Waiting(u)' /\ Waiting(t)' => u = t
               /\ ~astray => /\ \A t \in EditSlots : Waiting(t)' => OfWaiting(call[t])'
                             /\ Quiet' => AtRest'
    BY <1>2 DEF Patient
  <2>2. \A t \in EditSlots : Waiting(t)' => t = s
    BY <1>1, <1>2, <1>4, <2>1 DEF Patient, Waiting
  <2>3. ~astray => OfWaiting(call[s])
    BY <1>1, <1>2, <2>1 DEF Patient, Waiting
  <2>4. ~Waiting(s)'
    BY <1>3, <1>4 DEF Waiting
  <2>5. ASSUME ~astray PROVE AtRest'
    BY <1>2, <1>3, <1>5, <2>1, <2>3, <2>5 DEF OfWaiting, AtRest, RowsSynced, LedgerSynced,
       IsTold, Excused, PageScreen
  <2>6. QED
    BY <2>2, <2>4, <2>5
<1>9. Deciding'
  BY <1>1, <1>2, <1>3, <1>4, <1>5 DEF Deciding, DecidedLeave, Made, Loaded
<1>10. QED
  BY <1>6, <1>7, <1>8, <1>9 DEF EditInv

LEMMA SetContributorsKeepsPages ==
  ASSUME EditInv, NEW s \in EditSlots, SetContributors(s)
  PROVE  EditInv'
<1>1. PagesTypeOK /\ Named /\ Guarded /\ Patient /\ Deciding
  BY DEF EditInv
<1>2. /\ call[s] \in PageCall /\ call \in [EditSlots -> PageCall] /\ refreshKey \in Nat
      /\ UNCHANGED <<page, stored, edits, astray, overlapped>> /\ Waiting(s)
      /\ screen \in PageScreen /\ ledger \in PageLedger /\ stored \subseteq Items
  BY <1>1 DEF PagesTypeOK, PageScreen, PageLedger, Waiting, Answers, SetContributors
<1>3. PICK request \in PageCall :
        call' = [call EXCEPT ![s] = request] /\ request.pc = "idle" /\ request.op = "load"
          /\ request.key = 0
  BY NoEditTyped DEF SetContributors, Then
<1>4. /\ call' \in [EditSlots -> PageCall] /\ call'[s] = request
      /\ \A t \in EditSlots : t # s => call'[t] = call[t]
  BY <1>2, <1>3
<1>5. /\ page = "assignments" /\ call[s].op = "load" /\ UNCHANGED <<ledger, refreshKey>>
      /\ \/ /\ call[s].pc = "done"
            /\ screen' = [phase |-> "list", rows |-> call[s].seen, told |-> screen.told,
                            dismissed |-> FALSE]
         \/ screen' = [phase |-> screen.phase, rows |-> screen.rows,
                         told |-> (screen.told \ {"form"}) \cup {"list"},
                         dismissed |-> screen.dismissed]
  BY <1>2, <1>3 DEF PageScreen, SetContributors, Answers, ShowRows
<1>6. PagesTypeOK' /\ Named'
  <2>1. call[s].seen \in SUBSET Items
    BY <1>2 DEF PageCall
  <2>2. screen' \in PageScreen /\ ledger' \in PageLedger
    <3>1. CASE screen' = [phase |-> "list", rows |-> call[s].seen, told |-> screen.told,
                          dismissed |-> FALSE]
      BY <1>2, <1>5, <2>1, <3>1 DEF PageScreen, PageLedger
    <3>2. CASE screen' = [phase |-> screen.phase, rows |-> screen.rows,
                          told |-> (screen.told \ {"form"}) \cup {"list"},
                          dismissed |-> screen.dismissed]
      BY <1>2, <1>5, <3>2 DEF PageScreen, PageLedger
    <3>3. QED
      BY <1>5, <3>1, <3>2
  <2>3. QED
    BY <1>1, <1>2, <1>3, <1>4, <1>5, <2>2 DEF PagesTypeOK, Named, Waiting, PageCall
<1>7. Guarded'
  BY <1>1, <1>2, <1>3, <1>4, <1>5 DEF Guarded, Made, Loaded, PagesTypeOK
<1>8. Patient'
  <2>1. SUFFICES ASSUME page \in {"assignments", "cases", "pending", "splits"}, ~overlapped
        PROVE  /\ \A u, t \in EditSlots : Waiting(u)' /\ Waiting(t)' => u = t
               /\ ~astray => /\ \A t \in EditSlots : Waiting(t)' => OfWaiting(call[t])'
                             /\ Quiet' => AtRest'
    BY <1>2 DEF Patient
  <2>2. \A t \in EditSlots : Waiting(t)' => t = s
    BY <1>1, <1>2, <1>4, <2>1 DEF Patient, Waiting
  <2>3. ~astray => OfWaiting(call[s])
    BY <1>1, <1>2, <2>1 DEF Patient, Waiting
  <2>4. ~Waiting(s)'
    BY <1>3, <1>4 DEF Waiting
  <2>5. ASSUME ~astray PROVE AtRest'
    BY <1>2, <1>3, <1>5, <2>1, <2>3, <2>5 DEF OfWaiting, AtRest, RowsSynced, LedgerSynced,
       IsTold, Excused, PageScreen
  <2>6. QED
    BY <2>2, <2>4, <2>5
<1>9. Deciding'
  BY <1>1, <1>2, <1>3, <1>4, <1>5 DEF Deciding, DecidedLeave, Made, Loaded
<1>10. QED
  BY <1>6, <1>7, <1>8, <1>9 DEF EditInv

LEMMA ChangeFailedKeepsPages ==
  ASSUME EditInv, NEW s \in EditSlots, ChangeFailed(s)
  PROVE  EditInv'
<1>1. PagesTypeOK /\ Named /\ Guarded /\ Patient /\ Deciding
  BY DEF EditInv
<1>2. /\ call[s] \in PageCall /\ call \in [EditSlots -> PageCall] /\ refreshKey \in Nat
      /\ UNCHANGED <<page, stored, edits, astray, overlapped>> /\ Waiting(s)
      /\ screen \in PageScreen /\ ledger \in PageLedger /\ stored \subseteq Items
  BY <1>1 DEF PagesTypeOK, PageScreen, PageLedger, Waiting, Answers, ChangeFailed
<1>3. PICK request \in PageCall :
        call' = [call EXCEPT ![s] = request] /\ request.pc = "idle" /\ request.op = "load"
          /\ request.key = 0
  BY NoEditTyped DEF ChangeFailed, Then
<1>4. /\ call' \in [EditSlots -> PageCall] /\ call'[s] = request
      /\ \A t \in EditSlots : t # s => call'[t] = call[t]
  BY <1>2, <1>3
<1>5. /\ call[s].pc = "failed" /\ call[s].op \in {"add", "remove"}
      /\ UNCHANGED <<ledger, refreshKey>>
      /\ screen' \in PageScreen /\ screen'.phase = screen.phase /\ screen'.rows = screen.rows
      /\ screen'.dismissed = screen.dismissed
      /\ page = "assignments" => screen.told \ {"list"} \subseteq screen'.told
                                 /\ ("list" \in screen'.told => "list" \in screen.told)
      /\ page = "splits" /\ call[s].key = refreshKey => screen'.told # {}
  <2>1. /\ call[s].pc = "failed" /\ call[s].op \in {"add", "remove"}
        /\ UNCHANGED <<ledger, refreshKey>>
    BY DEF ChangeFailed, Answers
  <2>2. PICK named \in Items :
          screen' = IF Unmounted(s) THEN screen
                    ELSE [screen EXCEPT !.told = (@ \ {"list"}) \cup ErrorOf(call[s].op, named)]
    BY <1>1, <1>2, <2>1 DEF ChangeFailed, Named
  <2>3. /\ ErrorOf(call[s].op, named) \subseteq Items \cup {"form"}
        /\ page = "splits" => ErrorOf(call[s].op, named) # {}
        /\ page = "assignments" => ErrorOf(call[s].op, named) = {"form"}
    BY DEF ErrorOf
  <2>4. CASE Unmounted(s)
    BY <1>2, <2>1, <2>2, <2>4 DEF Unmounted
  <2>5. CASE ~Unmounted(s)
    <3>1. PICK told : told = (screen.told \ {"list"}) \cup ErrorOf(call[s].op, named)
      OBVIOUS
    <3>2. told \subseteq Items \cup {"form", "list"}
      BY <1>2, <2>3, <3>1 DEF PageScreen
    <3>3. screen' = [screen EXCEPT !.told = told]
      BY <2>2, <2>5, <3>1
    <3>. QED
      BY <1>2, <2>1, <2>3, <3>1, <3>2, <3>3 DEF PageScreen
  <2>. QED
    BY <2>4, <2>5
<1>6. PagesTypeOK' /\ Named'
  <2>1. call[s].seen \in SUBSET Items
    BY <1>2 DEF PageCall
  <2>2. screen' \in PageScreen /\ ledger' \in PageLedger
    BY <1>2, <1>5, <2>1 DEF PageScreen, PageLedger
  <2>3. QED
    BY <1>1, <1>2, <1>3, <1>4, <1>5, <2>2 DEF PagesTypeOK, Named, Waiting, PageCall
<1>7. Guarded'
  BY <1>1, <1>2, <1>3, <1>4, <1>5 DEF Guarded, Made, Loaded, PagesTypeOK
<1>8. Patient'
  <2>1. SUFFICES ASSUME page \in {"assignments", "cases", "pending", "splits"}, ~overlapped
        PROVE  /\ \A u, t \in EditSlots : Waiting(u)' /\ Waiting(t)' => u = t
               /\ ~astray => /\ \A t \in EditSlots : Waiting(t)' => OfWaiting(call[t])'
                             /\ Quiet' => AtRest'
    BY <1>2 DEF Patient
  <2>2. \A t \in EditSlots : Waiting(t)' => t = s
    BY <1>1, <1>2, <1>4, <2>1 DEF Patient, Waiting
  <2>3. ~astray => OfWaiting(call[s])
    BY <1>1, <1>2, <2>1 DEF Patient, Waiting
  <2>4. ~Waiting(s)'
    BY <1>3, <1>4 DEF Waiting
  <2>5. ASSUME ~astray PROVE AtRest'
    BY <1>2, <1>3, <1>5, <2>1, <2>3, <2>5 DEF OfWaiting, AtRest, RowsSynced, LedgerSynced,
       IsTold, Excused, PageScreen
  <2>6. QED
    BY <2>2, <2>4, <2>5
<1>9. Deciding'
  BY <1>1, <1>2, <1>3, <1>4, <1>5 DEF Deciding, DecidedLeave, Made, Loaded
<1>10. QED
  BY <1>6, <1>7, <1>8, <1>9 DEF EditInv

LEMMA RefreshKeepsPages ==
  ASSUME EditInv, NEW s \in EditSlots,
         PanelSaved(s) \/ InvoiceCollection(s) \/ AdjustmentLedger(s) \/ ContributorTable(s)
  PROVE  EditInv'
<1>1. PagesTypeOK /\ Named /\ Guarded /\ Patient /\ Deciding
  BY DEF EditInv
<1>2. /\ call[s] \in PageCall /\ call \in [EditSlots -> PageCall] /\ refreshKey \in Nat
      /\ UNCHANGED <<page, stored, edits, astray, overlapped>> /\ Waiting(s)
      /\ screen \in PageScreen /\ ledger \in PageLedger /\ stored \subseteq Items
  BY <1>1 DEF PagesTypeOK, PageScreen, PageLedger, Waiting, Answers, PanelSaved,
     InvoiceCollection, AdjustmentLedger, ContributorTable
<1>3. PICK request \in PageCall :
        /\ call' = [call EXCEPT ![s] = request] /\ request.pc = "sent" /\ request.op = "load"
        /\ request.key = refreshKey + 1
  BY <1>2, LoadTyped DEF PanelSaved, InvoiceCollection, AdjustmentLedger, ContributorTable,
     Refresh, Then
<1>4. /\ call' \in [EditSlots -> PageCall] /\ call'[s] = request
      /\ \A t \in EditSlots : t # s => call'[t] = call[t]
  BY <1>2, <1>3
<1>5. /\ page \in {"panel", "collection", "adjustments", "splits"} /\ call[s].pc = "done"
      /\ call[s].op \in {"add", "remove"}
      /\ UNCHANGED ledger /\ refreshKey' = refreshKey + 1
      /\ screen' = [phase |-> "loading", rows |-> {},
                      told |-> IF page = "panel" THEN screen.told ELSE {},
                      dismissed |-> screen.dismissed]
  BY <1>2, <1>3 DEF PageScreen, PanelSaved, InvoiceCollection, AdjustmentLedger,
     ContributorTable, Refresh, Answers
<1>6. PagesTypeOK' /\ Named'
  <2>1. call[s].seen \in SUBSET Items
    BY <1>2 DEF PageCall
  <2>2. screen' \in PageScreen /\ ledger' \in PageLedger
    BY <1>2, <1>5, <2>1 DEF PageScreen, PageLedger
  <2>3. QED
    BY <1>1, <1>2, <1>3, <1>4, <1>5, <2>2 DEF PagesTypeOK, Named, Waiting, PageCall
<1>7. Guarded'
  BY <1>1, <1>2, <1>3, <1>4, <1>5 DEF Guarded, Made, Loaded, PagesTypeOK
<1>8. Patient'
  <2>1. SUFFICES ASSUME page \in {"assignments", "cases", "pending", "splits"}, ~overlapped
        PROVE  /\ \A u, t \in EditSlots : Waiting(u)' /\ Waiting(t)' => u = t
               /\ ~astray => /\ \A t \in EditSlots : Waiting(t)' => OfWaiting(call[t])'
                             /\ Quiet' => AtRest'
    BY <1>2 DEF Patient
  <2>2. \A t \in EditSlots : Waiting(t)' => t = s
    BY <1>1, <1>2, <1>4, <2>1 DEF Patient, Waiting
  <2>3. ~astray => OfWaiting(call[s])
    BY <1>1, <1>2, <2>1 DEF Patient, Waiting
  <2>4. ~Quiet'
    BY <1>3, <1>4 DEF Quiet, Waiting
  <2>5. ASSUME ~astray PROVE OfWaiting(call[s])'
    BY <1>2, <1>3, <1>4, <1>5, <2>1, <2>3, <2>5 DEF OfWaiting, AtRest, RowsSynced,
       LedgerSynced, IsTold, Excused
  <2>6. QED
    BY <2>2, <2>4, <2>5
<1>9. Deciding'
  BY <1>1, <1>2, <1>3, <1>4, <1>5 DEF Deciding, DecidedLeave, Made, Loaded
<1>10. QED
  BY <1>6, <1>7, <1>8, <1>9 DEF EditInv

LEMMA HandleUpdateKeepsPages ==
  ASSUME EditInv, NEW s \in EditSlots, HandleUpdateContributor(s)
  PROVE  EditInv'
<1>1. PagesTypeOK /\ Named /\ Guarded /\ Patient /\ Deciding
  BY DEF EditInv
<1>2. /\ call[s] \in PageCall /\ call \in [EditSlots -> PageCall] /\ refreshKey \in Nat
      /\ UNCHANGED <<page, stored, edits, astray, overlapped>> /\ Waiting(s)
      /\ screen \in PageScreen /\ ledger \in PageLedger /\ stored \subseteq Items
  BY <1>1 DEF PagesTypeOK, PageScreen, PageLedger, Waiting, Answers, HandleUpdateContributor
<1>3. PICK request \in PageCall :
        /\ call' = [call EXCEPT ![s] = request] /\ request.pc = "sent" /\ request.op = "add"
        /\ request.item = call[s].then /\ request.then = call[s].item
        /\ request.key = call[s].key
  <2>1. "add" \in {"load", "ledger", "add", "remove"} /\ 0 \in Nat
    OBVIOUS
  <2>2. /\ call[s].then \in Items \cup {NoItem} /\ call[s].item \in Items \cup {NoItem, "list"}
        /\ call[s].key \in Nat
    BY <1>1, <1>2 DEF PageCall, Named, HandleUpdateContributor, Answers
  <2>3. EditRequest("add", call[s].then, call[s].item, call[s].key) \in PageCall
    BY <2>1, <2>2, RequestTyped
  <2>4. QED
    BY <1>2, <2>3 DEF HandleUpdateContributor, EditRequest, Then
<1>4. /\ call' \in [EditSlots -> PageCall] /\ call'[s] = request
      /\ \A t \in EditSlots : t # s => call'[t] = call[t]
  BY <1>2, <1>3
<1>5. /\ page = "splits" /\ call[s].pc = "done" /\ call[s].op = "remove"
      /\ call[s].then \in Items /\ call[s].item \in Items
      /\ UNCHANGED <<screen, ledger, refreshKey>>
  BY <1>2, <1>3, <1>1 DEF HandleUpdateContributor, Answers, Named
<1>6. PagesTypeOK' /\ Named'
  <2>1. call[s].seen \in SUBSET Items
    BY <1>2 DEF PageCall
  <2>2. screen' \in PageScreen /\ ledger' \in PageLedger
    BY <1>2, <1>5, <2>1 DEF PageScreen, PageLedger
  <2>3. QED
    BY <1>1, <1>2, <1>3, <1>4, <1>5, <2>2 DEF PagesTypeOK, Named, Waiting, PageCall
<1>7. Guarded'
  BY <1>1, <1>2, <1>3, <1>4, <1>5 DEF Guarded, Made, Loaded, PagesTypeOK
<1>8. Patient'
  <2>1. SUFFICES ASSUME page \in {"assignments", "cases", "pending", "splits"}, ~overlapped
        PROVE  /\ \A u, t \in EditSlots : Waiting(u)' /\ Waiting(t)' => u = t
               /\ ~astray => /\ \A t \in EditSlots : Waiting(t)' => OfWaiting(call[t])'
                             /\ Quiet' => AtRest'
    BY <1>2 DEF Patient
  <2>2. \A t \in EditSlots : Waiting(t)' => t = s
    BY <1>1, <1>2, <1>4, <2>1 DEF Patient, Waiting
  <2>3. ~astray => OfWaiting(call[s])
    BY <1>1, <1>2, <2>1 DEF Patient, Waiting
  <2>4. ~Quiet'
    BY <1>3, <1>4 DEF Quiet, Waiting
  <2>5. ASSUME ~astray PROVE OfWaiting(call[s])'
    BY <1>2, <1>3, <1>4, <1>5, <2>1, <2>3, <2>5 DEF OfWaiting, AtRest, RowsSynced,
       LedgerSynced, IsTold, Excused
  <2>6. QED
    BY <2>2, <2>4, <2>5
<1>9. Deciding'
  BY <1>1, <1>2, <1>3, <1>4, <1>5 DEF Deciding, DecidedLeave, Made, Loaded
<1>10. QED
  BY <1>6, <1>7, <1>8, <1>9 DEF EditInv

LEMMA AddedKeepsPages ==
  ASSUME EditInv, NEW s \in EditSlots, Added(s)
  PROVE  EditInv'
<1>1. PagesTypeOK /\ Named /\ Guarded /\ Patient /\ Deciding
  BY DEF EditInv
<1>2. /\ call[s] \in PageCall /\ call \in [EditSlots -> PageCall] /\ refreshKey \in Nat
      /\ UNCHANGED <<page, stored, edits, astray, overlapped>> /\ Waiting(s)
      /\ screen \in PageScreen /\ ledger \in PageLedger /\ stored \subseteq Items
  BY <1>1 DEF PagesTypeOK, PageScreen, PageLedger, Waiting, Answers, Added
<1>3. PICK request \in PageCall :
        /\ call' = [call EXCEPT ![s] = request] /\ request.pc = "sent" /\ request.op = "ledger"
        /\ request.then = call[s].then /\ request.key = 0
  <2>1. "ledger" \in {"load", "ledger", "add", "remove"} /\ 0 \in Nat
    OBVIOUS
  <2>2. /\ NoItem \in Items \cup {NoItem} /\ call[s].then \in Items \cup {NoItem, "list"}
        /\ 0 \in Nat
    BY <1>1, <1>2 DEF PageCall, Added
  <2>3. EditRequest("ledger", NoItem, call[s].then, 0) \in PageCall
    BY <2>1, <2>2, RequestTyped
  <2>4. QED
    BY <1>2, <2>3 DEF Added, EditRequest, Then
<1>4. /\ call' \in [EditSlots -> PageCall] /\ call'[s] = request
      /\ \A t \in EditSlots : t # s => call'[t] = call[t]
  BY <1>2, <1>3
<1>5. /\ page = "assignments" /\ call[s].pc = "done" /\ call[s].op = "add"
      /\ UNCHANGED <<screen, ledger, refreshKey>>
  BY <1>2, <1>3 DEF Added, Answers
<1>6. PagesTypeOK' /\ Named'
  <2>1. call[s].seen \in SUBSET Items
    BY <1>2 DEF PageCall
  <2>2. screen' \in PageScreen /\ ledger' \in PageLedger
    BY <1>2, <1>5, <2>1 DEF PageScreen, PageLedger
  <2>3. QED
    BY <1>1, <1>2, <1>3, <1>4, <1>5, <2>2 DEF PagesTypeOK, Named, Waiting, PageCall
<1>7. Guarded'
  BY <1>1, <1>2, <1>3, <1>4, <1>5 DEF Guarded, Made, Loaded, PagesTypeOK
<1>8. Patient'
  <2>1. SUFFICES ASSUME page \in {"assignments", "cases", "pending", "splits"}, ~overlapped
        PROVE  /\ \A u, t \in EditSlots : Waiting(u)' /\ Waiting(t)' => u = t
               /\ ~astray => /\ \A t \in EditSlots : Waiting(t)' => OfWaiting(call[t])'
                             /\ Quiet' => AtRest'
    BY <1>2 DEF Patient
  <2>2. \A t \in EditSlots : Waiting(t)' => t = s
    BY <1>1, <1>2, <1>4, <2>1 DEF Patient, Waiting
  <2>3. ~astray => OfWaiting(call[s])
    BY <1>1, <1>2, <2>1 DEF Patient, Waiting
  <2>4. ~Quiet'
    BY <1>3, <1>4 DEF Quiet, Waiting
  <2>5. ASSUME ~astray PROVE OfWaiting(call[s])'
    BY <1>2, <1>3, <1>4, <1>5, <2>1, <2>3, <2>5 DEF OfWaiting, AtRest, RowsSynced,
       LedgerSynced, IsTold, Excused
  <2>6. QED
    BY <2>2, <2>4, <2>5
<1>9. Deciding'
  BY <1>1, <1>2, <1>3, <1>4, <1>5 DEF Deciding, DecidedLeave, Made, Loaded
<1>10. QED
  BY <1>6, <1>7, <1>8, <1>9 DEF EditInv

LEMMA RemovedKeepsPages ==
  ASSUME EditInv, NEW s \in EditSlots, Removed(s)
  PROVE  EditInv'
<1>1. PagesTypeOK /\ Named /\ Guarded /\ Patient /\ Deciding
  BY DEF EditInv
<1>2. /\ call[s] \in PageCall /\ call \in [EditSlots -> PageCall] /\ refreshKey \in Nat
      /\ UNCHANGED <<page, stored, edits, astray, overlapped>> /\ Waiting(s)
      /\ screen \in PageScreen /\ ledger \in PageLedger /\ stored \subseteq Items
  BY <1>1 DEF PagesTypeOK, PageScreen, PageLedger, Waiting, Answers, Removed
<1>3. PICK request \in PageCall :
        /\ call' = [call EXCEPT ![s] = request] /\ request.pc = "sent" /\ request.op = "ledger"
        /\ request.then = NoItem /\ request.key = 0
  <2>1. "ledger" \in {"load", "ledger", "add", "remove"} /\ 0 \in Nat
    OBVIOUS
  <2>2. /\ NoItem \in Items \cup {NoItem} /\ NoItem \in Items \cup {NoItem, "list"}
        /\ 0 \in Nat
    BY <1>1, <1>2 DEF PageCall, Removed
  <2>3. EditRequest("ledger", NoItem, NoItem, 0) \in PageCall
    BY <2>1, <2>2, RequestTyped
  <2>4. QED
    BY <1>2, <2>3 DEF Removed, EditRequest, Then
<1>4. /\ call' \in [EditSlots -> PageCall] /\ call'[s] = request
      /\ \A t \in EditSlots : t # s => call'[t] = call[t]
  BY <1>2, <1>3
<1>5. /\ page = "assignments" /\ call[s].pc = "done" /\ call[s].op = "remove"
      /\ UNCHANGED <<ledger, refreshKey>>
      /\ screen' = [phase |-> screen.phase, rows |-> screen.rows \ {call[s].item},
                      told |-> screen.told,
                      dismissed |-> screen.dismissed]
  BY <1>2, <1>3 DEF PageScreen, Removed, Answers
<1>6. PagesTypeOK' /\ Named'
  <2>1. call[s].seen \in SUBSET Items
    BY <1>2 DEF PageCall
  <2>2. screen' \in PageScreen /\ ledger' \in PageLedger
    BY <1>2, <1>5, <2>1 DEF PageScreen, PageLedger
  <2>3. QED
    BY <1>1, <1>2, <1>3, <1>4, <1>5, <2>2 DEF PagesTypeOK, Named, Waiting, PageCall
<1>7. Guarded'
  BY <1>1, <1>2, <1>3, <1>4, <1>5 DEF Guarded, Made, Loaded, PagesTypeOK
<1>8. Patient'
  <2>1. SUFFICES ASSUME page \in {"assignments", "cases", "pending", "splits"}, ~overlapped
        PROVE  /\ \A u, t \in EditSlots : Waiting(u)' /\ Waiting(t)' => u = t
               /\ ~astray => /\ \A t \in EditSlots : Waiting(t)' => OfWaiting(call[t])'
                             /\ Quiet' => AtRest'
    BY <1>2 DEF Patient
  <2>2. \A t \in EditSlots : Waiting(t)' => t = s
    BY <1>1, <1>2, <1>4, <2>1 DEF Patient, Waiting
  <2>3. ~astray => OfWaiting(call[s])
    BY <1>1, <1>2, <2>1 DEF Patient, Waiting
  <2>4. ~Quiet'
    BY <1>3, <1>4 DEF Quiet, Waiting
  <2>5. ASSUME ~astray PROVE OfWaiting(call[s])'
    BY <1>2, <1>3, <1>4, <1>5, <2>1, <2>3, <2>5 DEF OfWaiting, AtRest, RowsSynced,
       LedgerSynced, IsTold, Excused
  <2>6. QED
    BY <2>2, <2>4, <2>5
<1>9. Deciding'
  BY <1>1, <1>2, <1>3, <1>4, <1>5 DEF Deciding, DecidedLeave, Made, Loaded
<1>10. QED
  BY <1>6, <1>7, <1>8, <1>9 DEF EditInv

LEMMA LoadLedgerKeepsPages ==
  ASSUME EditInv, NEW s \in EditSlots, LoadLedger(s)
  PROVE  EditInv'
<1>1. PagesTypeOK /\ Named /\ Guarded /\ Patient /\ Deciding
  BY DEF EditInv
<1>2. /\ call[s] \in PageCall /\ call \in [EditSlots -> PageCall] /\ refreshKey \in Nat
      /\ UNCHANGED <<page, stored, edits, astray, overlapped>> /\ Waiting(s)
      /\ screen \in PageScreen /\ ledger \in PageLedger /\ stored \subseteq Items
  BY <1>1 DEF PagesTypeOK, PageScreen, PageLedger, Waiting, Answers, LoadLedger
<1>3. PICK request \in PageCall :
        /\ call' = [call EXCEPT ![s] = request] /\ request.op = "load"
        /\ request.pc \in {"idle", "sent"}
        /\ request.pc = "sent" <=> call[s].then = "list"
        /\ request.key <= refreshKey
  <2>1. CASE call[s].then = "list"
    <3>1. /\ LoadRequest(refreshKey) \in PageCall /\ LoadRequest(refreshKey).pc = "sent"
          /\ LoadRequest(refreshKey).op = "load" /\ LoadRequest(refreshKey).key <= refreshKey
      BY <1>2, LoadTyped
    <3>2. QED
      BY <1>2, <2>1, <3>1 DEF LoadLedger, Then
  <2>2. CASE call[s].then # "list"
    <3>1. NoEdit.key <= refreshKey
      BY <1>2, NoEditTyped
    <3>2. QED
      BY <1>2, <2>2, <3>1, NoEditTyped DEF LoadLedger, Then
  <2>3. QED
    BY <2>1, <2>2
<1>4. /\ call' \in [EditSlots -> PageCall] /\ call'[s] = request
      /\ \A t \in EditSlots : t # s => call'[t] = call[t]
  BY <1>2, <1>3
<1>5. /\ page = "assignments" /\ call[s].op = "ledger" /\ UNCHANGED <<screen, refreshKey>>
      /\ \/ call[s].pc = "done" /\ ledger' = [rows |-> call[s].seen, error |-> FALSE]
         \/ ledger' = [rows |-> ledger.rows, error |-> TRUE]
  BY <1>2, <1>3 DEF PageLedger, LoadLedger, Answers
<1>6. PagesTypeOK' /\ Named'
  <2>1. call[s].seen \in SUBSET Items
    BY <1>2 DEF PageCall
  <2>2. screen' \in PageScreen /\ ledger' \in PageLedger
    <3>1. CASE ledger' = [rows |-> call[s].seen, error |-> FALSE]
      BY <1>2, <1>5, <2>1, <3>1 DEF PageScreen, PageLedger
    <3>2. CASE ledger' = [rows |-> ledger.rows, error |-> TRUE]
      BY <1>2, <1>5, <3>2 DEF PageScreen, PageLedger
    <3>3. QED
      BY <1>5, <3>1, <3>2
  <2>3. QED
    BY <1>1, <1>2, <1>3, <1>4, <1>5, <2>2 DEF PagesTypeOK, Named, Waiting, PageCall
<1>7. Guarded'
  BY <1>1, <1>2, <1>3, <1>4, <1>5 DEF Guarded, Made, Loaded, PagesTypeOK
<1>8. Patient'
  <2>1. SUFFICES ASSUME page \in {"assignments", "cases", "pending", "splits"}, ~overlapped
        PROVE  /\ \A u, t \in EditSlots : Waiting(u)' /\ Waiting(t)' => u = t
               /\ ~astray => /\ \A t \in EditSlots : Waiting(t)' => OfWaiting(call[t])'
                             /\ Quiet' => AtRest'
    BY <1>2 DEF Patient
  <2>2. \A t \in EditSlots : Waiting(t)' => t = s
    BY <1>1, <1>2, <1>4, <2>1 DEF Patient, Waiting
  <2>3. ~astray => OfWaiting(call[s])
    BY <1>1, <1>2, <2>1 DEF Patient, Waiting
  <2>4. ASSUME ~astray PROVE (Waiting(s)' => OfWaiting(call[s])') /\ (~Waiting(s)' => AtRest')
    BY <1>2, <1>3, <1>4, <1>5, <2>1, <2>3, <2>4 DEF OfWaiting, AtRest, RowsSynced,
       LedgerSynced, IsTold, Excused, Waiting
  <2>5. Quiet' => ~Waiting(s)'
    BY DEF Quiet
  <2>6. QED
    BY <2>2, <2>4, <2>5
<1>9. Deciding'
  BY <1>1, <1>2, <1>3, <1>4, <1>5 DEF Deciding, DecidedLeave, Made, Loaded
<1>10. QED
  BY <1>6, <1>7, <1>8, <1>9 DEF EditInv

LEMMA ClickKeepsPages ==
  ASSUME EditInv, NEW p \in Pages, NEW op \in {"add", "remove"}, NEW i \in Items,
         NEW then \in Items \cup {NoItem, "list"}, Click(p, op, i, then),
         p = "assignments" /\ op = "add" => then = "list",
         p = "splits" => op = "remove" /\ then \in Items,
         p = "pending" => op = "remove"
  PROVE  EditInv'
<1>1. PagesTypeOK /\ Named /\ Guarded /\ Patient /\ Deciding
  BY DEF EditInv
<1>2. /\ call \in [EditSlots -> PageCall] /\ refreshKey \in Nat /\ page = p
      /\ UNCHANGED <<page, stored, ledger, refreshKey, astray>>
      /\ edits' \in 0..MaxEdits /\ screen \in PageScreen
      /\ screen' = [phase |-> screen.phase, rows |-> screen.rows,
                      told |-> screen.told \ (IF page = "assignments" THEN {"form", "list"}
                                             ELSE ErrorOf(op, i)),
                      dismissed |-> screen.dismissed \/ "list" \in screen.told]
  <2>1. /\ call \in [EditSlots -> PageCall] /\ refreshKey \in Nat /\ page = p
        /\ UNCHANGED <<page, stored, ledger, refreshKey, astray>>
        /\ edits' \in 0..MaxEdits /\ screen \in PageScreen
    BY <1>1, EditsAssumption DEF PagesTypeOK, Click
  <2>2. PICK told : told = screen.told \ (IF page = "assignments" THEN {"form", "list"}
                                         ELSE ErrorOf(op, i))
    OBVIOUS
  <2>3. PICK dismissed : dismissed = (screen.dismissed \/ "list" \in screen.told)
    OBVIOUS
  <2>4. screen' = [screen EXCEPT !.told = told, !.dismissed = dismissed]
    <3>1. PICK shown : shown = [screen EXCEPT !.told = told]
      OBVIOUS
    <3>2. shown.dismissed = screen.dismissed
      BY <2>1, <3>1 DEF PageScreen
    <3>. QED
      BY <2>2, <2>3, <3>2, Zenon DEF Click, ClearError
  <2>. QED
    BY <2>1, <2>2, <2>3, <2>4 DEF PageScreen
<1>3. PICK s \in EditSlots : ~Waiting(s) /\ call' = [call EXCEPT ![s] = EditRequest(op, i,
then, refreshKey)]
  BY DEF Click
<1>4. PICK request : request = EditRequest(op, i, then, refreshKey)
  OBVIOUS
<1>5. /\ request \in PageCall /\ request.pc = "sent" /\ request.op = op /\ request.item = i
      /\ request.then = then /\ request.key = refreshKey
  BY <1>2, <1>4 DEF EditRequest, PageCall
<1>6. /\ call' \in [EditSlots -> PageCall] /\ call'[s] = request
      /\ \A t \in EditSlots : t # s => call'[t] = call[t]
  BY <1>2, <1>3, <1>4, <1>5
<1>7. overlapped' <=> overlapped \/ ~Quiet
  BY DEF Click, Quiet
<1>8. PagesTypeOK' /\ Named'
  <2>1. screen' \in PageScreen
    BY <1>2 DEF PageScreen
  <2>2. QED
    BY <1>1, <1>2, <1>5, <1>6, <2>1 DEF PagesTypeOK, Named, Waiting
<1>9. Guarded'
  BY <1>1, <1>2, <1>5, <1>6, <1>3 DEF Guarded, Made, Loaded, Waiting
<1>10. Patient'
  <2>1. SUFFICES ASSUME page \in {"assignments", "cases", "pending", "splits"}, ~overlapped'
        PROVE  /\ \A u, t \in EditSlots : Waiting(u)' /\ Waiting(t)' => u = t
               /\ ~astray => /\ \A t \in EditSlots : Waiting(t)' => OfWaiting(call[t])'
                             /\ Quiet' => AtRest'
    BY <1>2 DEF Patient
  <2>2. \A t \in EditSlots : Waiting(t)' => t = s
    BY <1>6, <1>7, <2>1 DEF Quiet, Waiting
  <2>3. ~astray => AtRest
    BY <1>1, <1>7, <2>1 DEF Patient
  <2>4. ~Quiet'
    BY <1>5, <1>6 DEF Quiet, Waiting
  <2>5. ASSUME ~astray PROVE OfWaiting(call[s])'
    BY <1>2, <1>5, <1>6, <2>3, <2>5 DEF OfWaiting, AtRest, RowsSynced, LedgerSynced,
       IsTold, Excused
  <2>6. QED
    BY <2>2, <2>4, <2>5
<1>11. Deciding'
  BY <1>1, <1>2, <1>5, <1>6 DEF Deciding, DecidedLeave, Made, Loaded
<1>12. QED
  BY <1>8, <1>9, <1>10, <1>11 DEF EditInv

LEMMA PagesStep == EditInv /\ [PagesNext]_pageVars => EditInv'
<1> SUFFICES ASSUME EditInv, [PagesNext]_pageVars PROVE EditInv'
  OBVIOUS
<1>1. ASSUME NEW i \in Items, ContributorPanel(i) \/ NewPlacementForm(i) \/ ProducerAssignments(i)
                             \/ PhaseCard(i) \/ TriggerForm(i) \/ DealRow(i)
      PROVE  EditInv'
  BY <1>1, ClickKeepsPages DEF ContributorPanel, NewPlacementForm, ProducerAssignments, PhaseCard,
     TriggerForm, DealRow, Pages
<1>2. ASSUME NEW i \in Items, NEW j \in Items, ContributorRow(i, j) PROVE EditInv'
  BY <1>2, ClickKeepsPages DEF ContributorRow, Pages
<1>3. ASSUME NEW s \in EditSlots, Serve(s) \/ Refuse(s) \/ LoseAnswer(s) PROVE EditInv'
  BY <1>3, ServeKeepsPages, FailureKeepsPages
<1>4. ASSUME NEW s \in EditSlots,
             UseAsync(s) \/ UseAsyncError(s) \/ PanelSaved(s) \/ InvoiceCollection(s)
               \/ AdjustmentLedger(s) \/ ContributorTable(s)
      PROVE  EditInv'
  BY <1>4, UseAsyncKeepsPages, RefreshKeepsPages
<1>5. ASSUME NEW s \in EditSlots,
             HandleUpdateContributor(s) \/ HandleApproved(s) \/ HandleCreated(s) \/ Added(s)
               \/ Removed(s) \/ LoadLedger(s) \/ SetContributors(s) \/ ChangeFailed(s)
      PROVE  EditInv'
  BY <1>5, HandleUpdateKeepsPages, HandleApprovedKeepsPages, HandleCreatedKeepsPages,
     AddedKeepsPages,
     RemovedKeepsPages, LoadLedgerKeepsPages, SetContributorsKeepsPages, ChangeFailedKeepsPages
<1>6. CASE UNCHANGED pageVars
  BY <1>6 DEF pageVars, EditInv, PagesTypeOK, Named, Guarded, Made, Loaded, Patient, Deciding,
     DecidedLeave,
     Waiting, Quiet, AtRest, RowsSynced, LedgerSynced, OfWaiting, IsTold, Excused
<1>7. QED
  BY <1>1, <1>2, <1>3, <1>4, <1>5, <1>6 DEF PagesNext

LEMMA PagesAtRest == EditInv => PagesTell
BY DEF EditInv, PagesTypeOK, PageScreen, PageCall, Guarded, Patient, Deciding, PagesTell,
   GuardedPagesTell,
   PatientPagesTell, DecidedLeave, Settled, Quiet, Waiting, Made, AtRest, RowsSynced, LedgerSynced,
   IsTold, Excused

(* However the clicks overlap, in whatever order the calls are answered and *)
(* whichever is refused, a page that refetches through useAsync comes to    *)
(* rest with the rows that are stored; so does one that patches its own     *)
(* list when the user waits for one change before the next, but for a split *)
(* whose error is on the screen and for an assignment that was added when   *)
(* the list could not be loaded again; and no deal leaves the approval list *)
(* undecided                                                                *)
(* (ContributorPanel, InvoiceCollection, AdjustmentLedger, SplitApproval,   *)
(* ProducerAssignments, useAsync).                                          *)
THEOREM PagesAreTrue == PagesSpec => []PagesTell
<1>1. PagesInit => EditInv
  BY PagesStart
<1>2. QED
  BY <1>1, PagesStep, PagesAtRest, PTL DEF PagesSpec

-----------------------------------------------------------------------------
(* The run of MCBillingPhases, a behaviour of which is about one component  *)
(* while the others rest.                                                   *)
MCInv == /\ PhasesInv /\ PlacementsInv /\ SharesInv
         /\ Inv /\ ReadsInv /\ ReportsInv /\ EditInv

LEMMA MCBegins == MCInit => MCInv
<1>1. SUFFICES ASSUME MCInit PROVE MCInv
  OBVIOUS
<1>2. PhasesInv /\ PlacementsInv /\ SharesInv
  BY <1>1, PhasesStart, PlacementsStart, SharesStart DEF MCInit, Init
<1>3. Inv
  BY <1>1, InvInit DEF MCInit
<1>4. ReadsInv
  BY <1>1, ReadsStart DEF MCInit
<1>5. ReportsInv
  BY <1>1, ReportsStart DEF MCInit
<1>6. EditInv
  BY <1>1, PagesStart DEF MCInit
<1>7. QED
  BY <1>2, <1>3, <1>4, <1>5, <1>6 DEF MCInv

LEMMA MCSteps ==
  MCInv /\ [MCNext]_<<vars, encryptionVars, readVars, reportVars, pageVars, subject>> => MCInv'
<1>1. SUFFICES ASSUME MCInv,
                      [MCNext]_<<vars, encryptionVars, readVars, reportVars, pageVars, subject>>
               PROVE  MCInv'
  OBVIOUS
<1>2. /\ [Next]_vars /\ [EncryptionNext]_encryptionVars /\ [ReadsNext]_readVars
      /\ [ReportsNext]_reportVars /\ [PagesNext]_pageVars
  BY <1>1 DEF MCNext
<1>3. PhasesInv' /\ PlacementsInv' /\ SharesInv'
  BY <1>1, <1>2, BothStep, SharesBothStep DEF MCInv
<1>4. Inv' /\ ReadsInv' /\ ReportsInv' /\ EditInv'
  BY <1>1, <1>2, EncryptionStep, ReadsStep, ReportsStep, PagesStep DEF MCInv
<1>5. QED
  BY <1>3, <1>4 DEF MCInv

(* The tables, keys, replies, reports and pages of a placement have their   *)
(* types, and what is promised of them holds, in the very specification     *)
(* that the run checks on a small instance (handleUpdatePlacement,          *)
(* handleCalculatePhaseCommissions, getDek, sensitiveRead, useAsync).       *)
THEOREM BillingHolds ==
  MCSpec => [](MCTypeOK /\ TablesAgree /\ KeysSound /\ ReadsSound /\ SumsAgree /\ PagesTell)
<1>1. ASSUME MCInv
      PROVE  MCTypeOK /\ TablesAgree /\ KeysSound /\ ReadsSound /\ SumsAgree /\ PagesTell
  <2>1. /\ PhasesInv /\ PlacementsInv /\ SharesInv
        /\ Inv /\ ReadsInv /\ ReportsInv /\ EditInv
    BY <1>1 DEF MCInv
  <2>2. MCTypeOK
    BY <2>1 DEF PhasesInv, PlacementsInv, Inv, ReadsInv, ReportsInv, EditInv, MCTypeOK, TypeOK
  <2>3. TablesAgree
    BY <2>1, TimelineHolds DEF PhasesInv, PlacementsInv, References, CreditsHold, PhasesSound,
       CreditsValid, PlacementsSound, TablesAgree
  <2>4. KeysSound
    BY <2>1 DEF Inv, Derived, DevSeal, DevOpens, Dated, DekAge, KeysSound
  <2>5. ReadsSound /\ PagesTell
    BY <2>1, ReadsHold, PagesAtRest
  <2>6. SumsAgree
    BY <2>1, BreakdownsHold, TeamParts
    DEF SharesInv, ReportsInv, SumsAgree, FiguresAgree, TeamAddsUp
  <2>7. QED
    BY <2>2, <2>3, <2>4, <2>5, <2>6
<1>2. QED
  BY <1>1, MCBegins, MCSteps, PTL DEF MCSpec

(* Splits that were accepted as complete never share out more than the fee, *)
(* and the figures of a report add up to each other, whatever is added,     *)
(* undone or deleted meanwhile (handleAddContributor,                       *)
(* getExecutiveAnalytics, getTeamCommissionSummary).                        *)
THEOREM SumsAreSound == MCSpec => []SumsAgree
BY BillingHolds, PTL
=============================================================================
