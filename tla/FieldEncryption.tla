---------------------------- MODULE FieldEncryption ----------------------------
(***************************************************************************)
(* The encryption of the amounts in the database.  Each module of the      *)
(* database package makes its own FieldEncryptor on first use, and each    *)
(* encryptor keeps the data keys (DEKs) it derived for a while.  What one  *)
(* of them stored another one, of another module or process, must open.    *)
(*                                                                         *)
(* In development and CI the DEK of a field is an HMAC of its name; in     *)
(* production it is drawn at random.  No caller passes a wrapped DEK and   *)
(* none stores one, so wrapKey and unwrapKey play no part.                 *)
(***************************************************************************)
EXTENDS Integers, FiniteSets

CONSTANTS Processes,    \* processes that share the database
          DbModules,    \* the modules with an encryptor of their own
          Tolerant,     \* those that read "0" where decrypt throws
          Fields,       \* encrypted columns
          Cells,        \* encrypted values in the database
          Encryptors,   \* FieldEncryptor objects
          Seals,        \* slots for the calls being served
          Unset,        \* null
          Ttl,          \* DEK_CACHE_TTL_MS
          LastTick,     \* bound on the clock
          MaxDrawn      \* bound on the random DEKs

ASSUME ModulesAssumption == /\ Tolerant \subseteq DbModules
                            /\ Processes # {} /\ DbModules # {} /\ Fields # {}
ASSUME UnsetAssumption == Unset \notin Encryptors \cup Cells
ASSUME TtlAssumption == Ttl \in Nat \ {0} /\ LastTick \in Nat /\ MaxDrawn \in Nat

VARIABLES kms,        \* the adapter that createKmsAdapter chooses
          singleton,  \* _encryptor of each process and module
          dekCache,   \* of each encryptor and field
          cell,       \* the column values stored, by field and DEK
          seal,       \* the calls
          tick,       \* Date.now()
          drawn       \* number of random DEKs drawn

encryptionVars == <<kms, singleton, dekCache, cell, seal, tick, drawn>>

Deks == {<<"derived", f>> : f \in Fields} \cup {<<"random", n>> : n \in 1..MaxDrawn}

Entry == [dek : Deks, expiresAt : Nat, asked : Nat]

Stored == [field : Fields, dek : Deks]

Seal == [pc : {"idle", "adapter", "dek", "derive", "insert", "opened"},
         in : Processes \X DbModules, field : Fields,
         cell : Cells \cup {Unset}, writes : BOOLEAN,
         enc : Encryptors \cup {Unset}, buf : Stored \cup {Unset},
         asked : Nat, dek : Deks \cup {Unset}, age : Nat,
         result : {"none", "value", "zero", "error"}]

EncryptionTypeOK ==
  /\ kms \in {"dev", "gcp"}
  /\ singleton \in [Processes \X DbModules -> Encryptors \cup {Unset}]
  /\ dekCache \in [Encryptors -> [Fields -> Entry \cup {Unset}]]
  /\ cell \in [Cells -> Stored \cup {Unset}]
  /\ seal \in [Seals -> Seal]
  /\ tick \in Nat /\ drawn \in 0..MaxDrawn

NoSeal == [pc |-> "idle", in |-> CHOOSE s \in Processes \X DbModules : TRUE,
           field |-> CHOOSE f \in Fields : TRUE, cell |-> Unset, writes |-> FALSE,
           enc |-> Unset, buf |-> Unset, asked |-> 0, dek |-> Unset, age |-> 0,
           result |-> "none"]

Empty == [f \in Fields |-> Unset]

EncryptionInit ==
  /\ kms \in {"dev", "gcp"}
  /\ singleton = [s \in Processes \X DbModules |-> Unset]
  /\ dekCache = [e \in Encryptors |-> Empty]
  /\ cell = [c \in Cells |-> Unset]
  /\ seal = [q \in Seals |-> NoSeal]
  /\ tick = 0 /\ drawn = 0

Sealing(q, pc) == seal[q].pc = pc

-----------------------------------------------------------------------------
(* A db function that encrypts or decrypts *)

(* getEncryptor: two first calls both wait for the adapter.                 *)
getEncryptor(q, s, request) ==
  /\ Sealing(q, "idle")
  /\ seal' = [seal EXCEPT ![q] =
                [request EXCEPT !.pc = IF singleton[s] = Unset THEN "adapter" ELSE "dek",
                                !.in = s, !.enc = singleton[s]]]
  /\ UNCHANGED <<kms, singleton, dekCache, cell, tick, drawn>>

AskEncrypt(q, s, f, c) ==
  /\ cell[c] # Unset => cell[c].field = f
  /\ getEncryptor(q, s, [NoSeal EXCEPT !.field = f, !.cell = c, !.writes = TRUE])

AskDecrypt(q, s, c) ==
  /\ cell[c] # Unset
  /\ getEncryptor(q, s, [NoSeal EXCEPT !.field = cell[c].field, !.cell = c,
                                       !.buf = cell[c]])

InUse == {singleton[s] : s \in Processes \X DbModules} \cup {seal[q].enc : q \in Seals}

(* The later encryptor replaces the earlier one; its own call keeps it.     *)
NewEncryptor(q) ==
  /\ Sealing(q, "adapter")
  /\ LET free == Encryptors \ InUse
         e == CHOOSE e \in free : TRUE
     IN /\ free # {}
        /\ singleton' = [singleton EXCEPT ![seal[q].in] = e]
        /\ dekCache' = [dekCache EXCEPT ![e] = Empty]
        /\ seal' = [seal EXCEPT ![q].pc = "dek", ![q].enc = e]
  /\ UNCHANGED <<kms, cell, tick, drawn>>

(* getDrawBalanceForProducer answers "0" where decrypt throws.              *)
Thrown(request) == IF request.in[2] \in Tolerant THEN "zero" ELSE "error"

(* What the call does with the DEK: encrypt and INSERT, or open the buffer. *)
WithDek(request, dek, age) ==
  IF request.writes
    THEN [request EXCEPT !.pc = "insert", !.dek = dek, !.age = age]
    ELSE [request EXCEPT !.pc = "opened", !.dek = dek, !.age = age,
                         !.result = IF request.buf.dek = dek THEN "value"
                                                             ELSE Thrown(request)]

Fresh(entry) == entry # Unset /\ tick < entry.expiresAt

(* getDek. *)
getDek(q) ==
  /\ Sealing(q, "dek")
  /\ LET entry == dekCache[seal[q].enc][seal[q].field]
     IN seal' = [seal EXCEPT ![q] =
                   IF Fresh(entry) THEN WithDek(@, entry.dek, tick - entry.asked)
                                   ELSE [@ EXCEPT !.pc = "derive", !.asked = tick]]
  /\ UNCHANGED <<kms, singleton, dekCache, cell, tick, drawn>>

deriveKey(f) == IF kms = "dev" THEN {<<"derived", f>>}
                               ELSE {<<"random", drawn + 1>>} \cap Deks

(* Mutant: the entry lives from the moment the key came. *)
ExpiryFromArrival(asked) == tick + Ttl

ExpiresAt(asked) == asked + Ttl

KeyDerived(q) ==
  /\ Sealing(q, "derive")
  /\ \E dek \in deriveKey(seal[q].field) :
       /\ dekCache' = [dekCache EXCEPT ![seal[q].enc][seal[q].field] =
                         [dek |-> dek, expiresAt |-> ExpiresAt(seal[q].asked),
                          asked |-> seal[q].asked]]
       /\ seal' = [seal EXCEPT ![q] = WithDek([@ EXCEPT !.asked = 0], dek, 0)]
       /\ drawn' = IF dek[1] = "random" THEN drawn + 1 ELSE drawn
  /\ UNCHANGED <<kms, singleton, cell, tick>>

Store(q, value) == /\ cell' = [cell EXCEPT ![seal[q].cell] = value]
                   /\ UNCHANGED <<kms, singleton, dekCache, tick, drawn>>

(* INSERT or UPDATE, whose RETURNING row is decrypted with the key that     *)
(* getDek has then.                                                         *)
Insert(q) ==
  /\ Sealing(q, "insert") /\ seal[q].in[2] \notin Tolerant
  /\ LET value == [field |-> seal[q].field, dek |-> seal[q].dek]
     IN /\ Store(q, value)
        /\ seal' = [seal EXCEPT ![q].pc = "dek", ![q].buf = value, ![q].writes = FALSE,
                                ![q].dek = Unset, ![q].age = 0]

(* It answers with the amounts it was given, and decrypts nothing.          *)
createDrawBalance(q) ==
  /\ Sealing(q, "insert") /\ seal[q].in[2] \in Tolerant
  /\ Store(q, [field |-> seal[q].field, dek |-> seal[q].dek])
  /\ seal' = [seal EXCEPT ![q] = NoSeal]

Reply(q) == /\ Sealing(q, "opened")
            /\ seal' = [seal EXCEPT ![q] = NoSeal]
            /\ UNCHANGED <<kms, singleton, dekCache, cell, tick, drawn>>

(* A process restarts with no encryptor, and its calls are gone.            *)
Restart(p) ==
  /\ singleton' = [s \in Processes \X DbModules |->
                     IF s[1] = p THEN Unset ELSE singleton[s]]
  /\ seal' = [q \in Seals |-> IF seal[q].in[1] = p THEN NoSeal ELSE seal[q]]
  /\ dekCache' = [e \in Encryptors |-> IF e \in InUse' THEN dekCache[e] ELSE Empty]
  /\ UNCHANGED <<kms, cell, tick, drawn>>

Tick == /\ tick < LastTick
        /\ tick' = tick + 1
        /\ UNCHANGED <<kms, singleton, dekCache, cell, seal, drawn>>

EncryptionNext ==
  \/ \E q \in Seals :
       \/ \E s \in Processes \X DbModules, c \in Cells :
            \/ \E f \in Fields : AskEncrypt(q, s, f, c)
            \/ AskDecrypt(q, s, c)
       \/ NewEncryptor(q)
       \/ getDek(q)
       \/ KeyDerived(q)
       \/ Insert(q) \/ createDrawBalance(q)
       \/ Reply(q)
  \/ \E p \in Processes : Restart(p)
  \/ Tick

EncryptionSpec == EncryptionInit /\ [][EncryptionNext]_encryptionVars

-----------------------------------------------------------------------------
(* What the component promises. *)

(* In development and CI whatever one module of one process stored every    *)
(* other one opens, across restarts, cache misses and racing first calls    *)
(* (LocalDevKmsAdapter.deriveKey).                                          *)
DevOpens == kms = "dev" => \A q \in Seals : seal[q].result \in {"none", "value"}

(* No call takes a key from the cache that was asked for five minutes ago,  *)
(* however long the adapter took to answer (getDek).                        *)
DekAge == \A q \in Seals : seal[q].age < Ttl

(* A key opens what was stored, and is not used beyond its time.            *)
KeysSound == DevOpens /\ DekAge

-----------------------------------------------------------------------------
(* What the documentation promises and the code does not do. *)

(* "Encryption/decryption is consistent across restarts and cache misses",  *)
(* in production too (GcpKmsAdapter.deriveKey).                             *)
AlwaysOpens == \A q \in Seals : seal[q].result \in {"none", "value"}
=============================================================================
