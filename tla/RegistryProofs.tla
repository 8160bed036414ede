---------------------------- MODULE RegistryProofs ----------------------------
(***************************************************************************)
(* Theorems about Registry, for any set of clients and of signing keys,    *)
(* any number of adds and of crashes.                                      *)
(***************************************************************************)
EXTENDS Registry, FiniteSetTheorems, TLAPS

(* Every file, key and program counter keeps its type.                     *)
LEMMA StepTypeOK == TypeOK /\ [Next]_vars => TypeOK'
<1> SUFFICES ASSUME TypeOK, [Next]_vars PROVE TypeOK'
  OBVIOUS
<1> USE BoundsAssumption DEF TypeOK, Goto, Signature
<1>1. ASSUME NEW c \in Clients, Begin(c) PROVE TypeOK'
  BY <1>1 DEF Begin
<1>2. ASSUME NEW c \in Clients, Check(c) PROVE TypeOK'
  BY <1>2 DEF Check
<1>3. ASSUME NEW c \in Clients, Exists(c) PROVE TypeOK'
  BY <1>3 DEF Exists
<1>4. ASSUME NEW c \in Clients, OpenObject(c) PROVE TypeOK'
  BY <1>4 DEF OpenObject
<1>5. ASSUME NEW c \in Clients, FillObject(c) PROVE TypeOK'
  BY <1>5 DEF FillObject
<1>6. ASSUME NEW c \in Clients, OpenEntry(c) PROVE TypeOK'
  BY <1>6 DEF OpenEntry
<1>7. ASSUME NEW c \in Clients, FillEntry(c) PROVE TypeOK'
  BY <1>7 DEF FillEntry
<1>8. ASSUME NEW c \in Clients, Crash(c) PROVE TypeOK'
  BY <1>8 DEF Crash
<1>9. CASE UNCHANGED vars
  BY <1>9 DEF vars
<1>10. QED
  BY <1>1, <1>2, <1>3, <1>4, <1>5, <1>6, <1>7, <1>8, <1>9 DEF Next, Step

(* The object file, the entry file and the clients' locals keep their      *)
(* types, and no more adds begin or clients die than the bounds allow.     *)
THEOREM RegistryTypes == Spec => []TypeOK
<1>1. Init => TypeOK
  <2> SUFFICES ASSUME Init PROVE TypeOK
    OBVIOUS
  <2>1. entry \in [file : {"absent", "torn", "whole"}, signature : Signature]
    BY DEF Init, Signature
  <2>2. raised \in Nat /\ adds \in 0 .. MaxAdds /\ crashes \in 0 .. MaxCrashes
    BY BoundsAssumption, SMT DEF Init
  <2>3. overlapped \in BOOLEAN
    BY Zenon DEF Init
  <2>4. /\ pc \in [Clients -> {"idle", "check", "exists", "open", "fill", "sign",
                               "publish"}]
        /\ key \in [Clients -> Signature]
        /\ object \in {"absent", "torn", "whole"} /\ signers \subseteq Signature
    BY DEF Init, Signature
  <2>5. QED
    BY <2>1, <2>2, <2>3, <2>4, Zenon DEF TypeOK
<1>2. QED
  BY <1>1, StepTypeOK, PTL DEF Spec

-----------------------------------------------------------------------------
(* A registry nothing was added to has nothing to sign and nobody at work. *)
LEMMA InitRegistryInv == Init => RegistryInv
BY FS_EmptySet
   DEF Init, RegistryInv, SignaturesAreKnown, AloneInv, TogetherInv, Adding

(* A key is among the signers from the moment its add begins.              *)
LEMMA StepSignatures ==
  TypeOK /\ SignaturesAreKnown /\ [Next]_vars => SignaturesAreKnown'
<1> SUFFICES ASSUME TypeOK, SignaturesAreKnown, [Next]_vars PROVE SignaturesAreKnown'
  OBVIOUS
<1> USE DEF TypeOK, SignaturesAreKnown, Adding, Goto
<1>1. ASSUME NEW c \in Clients, Begin(c) PROVE SignaturesAreKnown'
  <2>1. PICK k \in Signature : /\ key' = [key EXCEPT ![c] = k]
                               /\ signers' = signers \cup {k}
    BY <1>1 DEF Begin
  <2>2. IsFiniteSet(signers')
    BY <2>1, FS_AddElement
  <2>3. QED
    BY <1>1, <2>1, <2>2 DEF Begin
<1>2. ASSUME NEW c \in Clients, Step(c) \/ Crash(c) PROVE SignaturesAreKnown'
  BY <1>2 DEF Step, Check, Exists, OpenObject, FillObject, OpenEntry, FillEntry,
              Crash
<1>3. CASE UNCHANGED vars
  BY <1>3 DEF vars
<1>4. QED
  BY <1>1, <1>2, <1>3 DEF Next

(* While adds come one at a time, each point of an add, the death of the   *)
(* client included, leaves the object as the next point, or the next add,  *)
(* relies on finding it.                                                   *)
LEMMA StepAlone == TypeOK /\ AloneInv /\ [Next]_vars => AloneInv'
<1> SUFFICES ASSUME TypeOK, AloneInv, [Next]_vars, ~overlapped' PROVE AloneInv'
  BY DEF AloneInv
<1> USE DEF TypeOK, AloneInv, Adding, Goto
<1>1. ASSUME NEW c \in Clients, Begin(c) PROVE AloneInv'
  BY <1>1 DEF Begin
<1>2. ASSUME NEW c \in Clients, Check(c) PROVE AloneInv'
  BY <1>2, SMTT(30) DEF Check
<1>3. ASSUME NEW c \in Clients, Exists(c) PROVE AloneInv'
  BY <1>3 DEF Exists
<1>4. ASSUME NEW c \in Clients, OpenObject(c) PROVE AloneInv'
  BY <1>4 DEF OpenObject
<1>5. ASSUME NEW c \in Clients, FillObject(c) PROVE AloneInv'
  BY <1>5 DEF FillObject
<1>6. ASSUME NEW c \in Clients, OpenEntry(c) PROVE AloneInv'
  BY <1>6 DEF OpenEntry
<1>7. ASSUME NEW c \in Clients, FillEntry(c) PROVE AloneInv'
  BY <1>7 DEF FillEntry
<1>8. ASSUME NEW c \in Clients, Crash(c) PROVE AloneInv'
  BY <1>8 DEF Crash
<1>9. CASE UNCHANGED vars
  BY <1>9 DEF vars
<1>10. QED
  BY <1>1, <1>2, <1>3, <1>4, <1>5, <1>6, <1>7, <1>8, <1>9 DEF Next, Step

(* Without crashes and with one signer, a client that tears a file is      *)
(* still there to fill it, and the one that is turned away because it met  *)
(* a torn object leaves the client that tore it behind.                    *)
LEMMA StepTogether ==
  TypeOK /\ SignaturesAreKnown /\ TogetherInv /\ [Next]_vars => TogetherInv'
<1> SUFFICES ASSUME TypeOK, SignaturesAreKnown, TogetherInv, [Next]_vars,
                    crashes' = 0, OneSigner'
             PROVE  TogetherInv'
  BY DEF TogetherInv
<1> USE DEF TypeOK, TogetherInv, Adding, Goto
<1>1. ASSUME NEW c \in Clients, Begin(c) PROVE TogetherInv'
  BY <1>1 DEF Begin, OneSigner
<1>2. ASSUME NEW c \in Clients, Check(c) PROVE TogetherInv'
  BY <1>2 DEF Check, OneSigner
<1>3. ASSUME NEW c \in Clients, Exists(c) PROVE TogetherInv'
  BY <1>3 DEF Exists, OneSigner
<1>4. ASSUME NEW c \in Clients, OpenObject(c) PROVE TogetherInv'
  BY <1>4 DEF OpenObject, OneSigner
<1>5. ASSUME NEW c \in Clients, FillObject(c) PROVE TogetherInv'
  BY <1>5 DEF FillObject, OneSigner
<1>6. ASSUME NEW c \in Clients, OpenEntry(c) PROVE TogetherInv'
  BY <1>6 DEF OpenEntry, OneSigner
<1>7. ASSUME NEW c \in Clients, FillEntry(c) PROVE TogetherInv'
  <2>1. ~Garbled(c)
    BY <1>7 DEF FillEntry, Garbled, SignaturesAreKnown, OneSigner
  <2>2. QED
    BY <1>7, <2>1 DEF FillEntry, OneSigner
<1>8. ASSUME NEW c \in Clients, Crash(c) PROVE FALSE
  BY <1>8 DEF Crash
<1>9. CASE UNCHANGED vars
  BY <1>9 DEF vars, OneSigner
<1>10. QED
  BY <1>1, <1>2, <1>3, <1>4, <1>5, <1>6, <1>7, <1>8, <1>9 DEF Next, Step

(* The inductive invariant of the registry: at every point of every add it *)
(* says what the files hold and who is going to repair what is torn.       *)
THEOREM RegistryInvariant == Spec => []RegistryInv
<1>1. RegistryInv /\ TypeOK /\ [Next]_vars => RegistryInv'
  BY StepSignatures, StepAlone, StepTogether DEF RegistryInv
<1>2. QED
  BY <1>1, InitRegistryInv, RegistryTypes, PTL DEF Spec

(* A reader finds the payload of every entry: while adds come one at a     *)
(* time whatever crashes, and after simultaneous ones of one signer, once  *)
(* all have ended (ContentAddressedRegistry.add, get and verify).          *)
THEOREM Readable == Spec => []RegistryIsReadable
<1>1. RegistryInv => EntryHasObject
  BY DEF RegistryInv, AloneInv, EntryHasObject, Gets
<1>2. TypeOK /\ RegistryInv => SettledRegistryIsWhole
  <2> SUFFICES ASSUME TypeOK, RegistryInv, Quiet, crashes = 0,
                      Cardinality(signers) = 1
               PROVE  Gets /\ \E k \in signers : Verifies(k)
    BY DEF SettledRegistryIsWhole
  <2>1. PICK k : signers = {k}
    BY FS_Singleton DEF RegistryInv, SignaturesAreKnown
  <2>2. Adding = {} /\ OneSigner
    BY <2>1 DEF Quiet, Adding, OneSigner
  <2>3. entry.file = "whole"
    BY <2>1, <2>2 DEF RegistryInv, TogetherInv
  <2>4. Gets
    BY <2>2, <2>3 DEF RegistryInv, TogetherInv, TypeOK, Gets, Adding
  <2>5. QED
    BY <2>3, <2>4 DEF RegistryInv, SignaturesAreKnown, Verifies
<1>3. QED
  BY <1>1, <1>2, RegistryTypes, RegistryInvariant, PTL DEF RegistryIsReadable
=============================================================================
