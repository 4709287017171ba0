------------------------------ MODULE MCPkcs11 ------------------------------
(* Cards for the runs of Pkcs11: activated, with full counters.              *)
EXTENDS Pkcs11, TLC

Fresh == [profile |-> [numbering |-> "citizen", scheme |-> "preset", flagged |-> PinSlots,
                       silent |-> {}, keeps |-> {}],
          fresh |-> {}, verified |-> {}, tries |-> [x \in FlooredCredentials |-> RetriesPristine]]

MCInitially == [c \in Cards |-> {Fresh}]

\* One wrong code from the floor.
MCSpent == [c \in Cards |-> {[Fresh EXCEPT !.tries["pin1"] = 3], Fresh}]

Symmetric == Permutations(Threads) \cup Permutations(Cards)

SameThreads == Permutations(Threads)

=============================================================================
