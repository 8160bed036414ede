------------------------------- MODULE Registry -------------------------------
(***************************************************************************)
(* ContentAddressedRegistry (auto_research/registry.py): one payload, its  *)
(* object file (the canonical encoding, stored under its own digest) and   *)
(* its entry file (the metadata with the optional detached HMAC).          *)
(* Payloads with different digests use different files and never meet.     *)
(*                                                                         *)
(* A client is a process running `ssm research-registry-add`, or a         *)
(* contract evaluation that registers its result.  Files are written in    *)
(* place: opened (and thereby emptied), then filled.  A client may die at  *)
(* any point.                                                              *)
(***************************************************************************)
EXTENDS Naturals, FiniteSets

CONSTANTS
  Clients,    (* processes that may add the payload at the same time        *)
  Keys,       (* signing keys                                               *)
  NoKey,      (* no signing key: an unsigned entry                          *)
  MaxAdds,    (* bound: adds begun                                          *)
  MaxCrashes  (* bound: clients that die                                    *)

ASSUME KeysAssumption == NoKey \notin Keys
ASSUME BoundsAssumption == MaxAdds \in Nat /\ MaxCrashes \in Nat

VARIABLES
  pc,       (* per client: "idle" or the point of add() it is at            *)
  key,      (* per client: the signing key of the add it is in              *)
  object,   (* "absent", "torn" or "whole"                                  *)
  entry,    (* likewise, with the key of the signature it carries           *)
  raised,   (* adds that ended with the collision-or-corruption error       *)
  signers,  (* history: keys of the adds that have begun                    *)
  overlapped, (* history: two adds have been under way at once              *)
  adds, crashes

vars == <<pc, key, object, entry, raised, signers, overlapped, adds, crashes>>

-----------------------------------------------------------------------------
Signature == Keys \cup {NoKey}

Init ==
  /\ pc = [c \in Clients |-> "idle"]
  /\ key = [c \in Clients |-> NoKey]
  /\ object = "absent"
  /\ entry = [file |-> "absent", signature |-> NoKey]
  /\ raised = 0
  /\ signers = {}
  /\ overlapped = FALSE
  /\ adds = 0
  /\ crashes = 0

Goto(c, point) == pc' = [pc EXCEPT ![c] = point]

Begin(c) ==
  /\ pc[c] = "idle" /\ adds < MaxAdds
  /\ \E k \in Signature :
       /\ key' = [key EXCEPT ![c] = k]
       /\ signers' = signers \cup {k}
  /\ overlapped' = (overlapped \/ \E d \in Clients : pc[d] # "idle")
  /\ adds' = adds + 1
  /\ Goto(c, "check")
  /\ UNCHANGED <<object, entry, raised, crashes>>

(* An object that is there must hold the same bytes.                       *)
Check(c) ==
  /\ pc[c] = "check"
  /\ IF object = "torn"
       THEN Goto(c, "idle") /\ raised' = raised + 1
       ELSE Goto(c, "exists") /\ UNCHANGED raised
  /\ UNCHANGED <<key, object, entry, signers, overlapped, adds, crashes>>

(* Faulty variant: the object is written unless it is missing.             *)
ExistsInverted(c) ==
  /\ pc[c] = "exists"
  /\ Goto(c, IF object = "absent" THEN "sign" ELSE "open")
  /\ UNCHANGED <<key, object, entry, raised, signers, overlapped, adds, crashes>>

(* The second look at the path decides whether to write.                   *)
Exists(c) ==
  /\ pc[c] = "exists"
  /\ Goto(c, IF object = "absent" THEN "open" ELSE "sign")
  /\ UNCHANGED <<key, object, entry, raised, signers, overlapped, adds, crashes>>

OpenObject(c) ==
  /\ pc[c] = "open"
  /\ object' = "torn"
  /\ Goto(c, "fill")
  /\ UNCHANGED <<key, entry, raised, signers, overlapped, adds, crashes>>

FillObject(c) ==
  /\ pc[c] = "fill"
  /\ object' = "whole"
  /\ Goto(c, "sign")
  /\ UNCHANGED <<key, entry, raised, signers, overlapped, adds, crashes>>

OpenEntry(c) ==
  /\ pc[c] = "sign"
  /\ entry' = [file |-> "torn", signature |-> NoKey]
  /\ Goto(c, "publish")
  /\ UNCHANGED <<key, object, raised, signers, overlapped, adds, crashes>>

(* Two clients may have opened the entry before either filled it.  The one *)
(* that fills last overwrites from the start of the file, so that an       *)
(* unsigned entry leaves the tail of a longer signed one behind.           *)
Garbled(c) ==
  /\ entry.file = "whole" /\ entry.signature # NoKey
  /\ key[c] = NoKey

FillEntry(c) ==
  /\ pc[c] = "publish"
  /\ entry' = [file |-> IF Garbled(c) THEN "torn" ELSE "whole",
                signature |-> key[c]]
  /\ Goto(c, "idle")
  /\ UNCHANGED <<key, object, raised, signers, overlapped, adds, crashes>>

Crash(c) ==
  /\ pc[c] # "idle" /\ crashes < MaxCrashes
  /\ crashes' = crashes + 1
  /\ Goto(c, "idle")
  /\ UNCHANGED <<key, object, entry, raised, signers, overlapped, adds>>

Step(c) ==
  \/ Check(c) \/ Exists(c) \/ OpenObject(c) \/ FillObject(c)
  \/ OpenEntry(c) \/ FillEntry(c)

Next == \E c \in Clients : Begin(c) \/ Step(c) \/ Crash(c)

Spec == Init /\ [][Next]_vars

(* A client that is not killed carries its add through.                    *)
FairSpec == Spec /\ \A c \in Clients : WF_vars(Step(c))

-----------------------------------------------------------------------------
(* get(): the stored bytes decode to a payload with the digest asked for.  *)
Gets == object = "whole"

(* verify(): with NoKey standing for a caller that has none.               *)
Verifies(k) ==
  /\ Gets
  /\ entry.file = "whole"
  /\ entry.signature = k

Quiet == \A c \in Clients : pc[c] = "idle"

(* Type invariant.                                                         *)
TypeOK ==
  /\ pc \in [Clients -> {"idle", "check", "exists", "open", "fill", "sign",
                         "publish"}]
  /\ key \in [Clients -> Signature]
  /\ object \in {"absent", "torn", "whole"}
  /\ entry \in [file : {"absent", "torn", "whole"}, signature : Signature]
  /\ signers \subseteq Signature /\ overlapped \in BOOLEAN
  /\ raised \in Nat /\ adds \in 0 .. MaxAdds /\ crashes \in 0 .. MaxCrashes

(* As long as adds come one at a time, an entry never exists without the   *)
(* object it describes, whatever crashes: a reader that finds an entry can *)
(* get its payload.                                                        *)
EntryHasObject == ~overlapped /\ entry.file # "absent" => Gets

(* Without crashes, even simultaneous adds with one and the same key leave *)
(* a readable object and a readable entry behind once all have ended, and  *)
(* even where one of them was turned away.                                 *)
SettledRegistryIsWhole ==
  Quiet /\ crashes = 0 /\ Cardinality(signers) = 1 =>
    Gets /\ \E k \in signers : Verifies(k)

(* A reader finds the payload of an entry: while adds come one at a time,  *)
(* whatever crashes, and after simultaneous ones, once all have ended.     *)
RegistryIsReadable == EntryHasObject /\ SettledRegistryIsWhole

-----------------------------------------------------------------------------
(* The inductive invariant behind RegistryIsReadable.                      *)
Adding == {c \in Clients : pc[c] # "idle"}

(* Whatever signs an entry, or is about to, is the key of some add.        *)
SignaturesAreKnown ==
  /\ IsFiniteSet(signers)
  /\ \A c \in Adding : key[c] \in signers
  /\ entry.file = "whole" => entry.signature \in signers

(* What the one add that may be under way relies on at each of its points. *)
(* A torn object that a crash left behind stays without an entry: the next *)
(* adds are turned away.                                                   *)
AloneInv == ~overlapped =>
  /\ \A c, d \in Adding : c = d
  /\ entry.file # "absent" => object = "whole"
  /\ \A c \in Clients :
       /\ pc[c] = "exists" => object # "torn"
       /\ pc[c] = "open" => object = "absent"
       /\ pc[c] = "fill" => entry.file = "absent"
       /\ pc[c] \in {"sign", "publish"} => object = "whole"

OneSigner == \A k, l \in signers : k = l

(* Simultaneous adds of one signer repair what they tear: a torn object    *)
(* still has a client that will fill it, an entry follows the object, and  *)
(* until the entry is whole somebody is at work.                           *)
TogetherInv == crashes = 0 /\ OneSigner =>
  /\ object = "torn" => \E c \in Clients : pc[c] = "fill"
  /\ object = "absent" =>
       /\ entry.file = "absent"
       /\ \A c \in Clients : pc[c] \notin {"fill", "sign", "publish"}
  /\ signers # {} => entry.file = "whole" \/ Adding # {}

RegistryInv == SignaturesAreKnown /\ AloneInv /\ TogetherInv
=============================================================================
