---------------------------- MODULE PairingStore ----------------------------
(* The pairing set every requester process of a user shares: the protected    *)
(* file of crates/refineid-windows-credential-store/src/pairing.rs under the  *)
(* lifecycle of crates/refineid-rapp-core/src/store.rs.                       *)
(*                                                                            *)
(* An instance is one ProtectedPairingStore, in this process or another.  It  *)
(* holds a copy of the records; a change re-reads the file and applies itself *)
(* to the copy in one action (Begin), then replaces the whole file in another *)
(* (Write).  No lock is held between the two.  A read may fail, a write may   *)
(* be refused, and a process may die between any two actions.                 *)
EXTENDS Naturals

CONSTANTS
  Instances,       \* store instances, of any process of the user
  Pairs,           \* pair identifiers; each is paired at most once
  MaxRefused,      \* bound: writes the file system refuses
  MaxUnreadable,   \* bound: reads that fail
  MaxCrashes       \* bound: processes that die

ASSUME StoreAssumption ==
  MaxRefused \in Nat /\ MaxUnreadable \in Nat /\ MaxCrashes \in Nat

VARIABLES
  file,        \* the stored set: the state of each pairing
  mem,         \* mem[s]: the records instance s holds
  job,         \* job[s]: what the caller of s is doing
  writing,     \* the instances with a set to write
  next,        \* next[s]: the set s writes
  unread,      \* the instances whose last read of the file failed
  refused, unreadable, crashes,   \* counts against the bounds
  peerStored,  \* pairings the phone stored and confirmed
  paired,      \* history: pairings complete_pairing returned
  ended        \* history: pairings whose end (forget, revocation, expiry) was written

counts == <<refused, unreadable, crashes>>
vars == <<file, mem, job, writing, next, unread, counts, peerStored, paired, ended>>

\* PairingState, and none for an identifier without a record.
States == {"none", "unconfirmed", "serving", "forgotten", "revoked"}
Sets == [Pairs -> States]
NoRecords == [i \in Pairs |-> "none"]

\* What the caller of an instance is doing: load's two loops and its last
\* write, the pairing ceremony, one change, and forget_every_pairing with the
\* attempts and the clearing that follow it.  A loaded instance has not been
\* used since its load.
Tasks == {"unloaded", "loaded", "idle", "removing", "expiring", "persisting", "insert",
          "await", "confirm", "undo", "change", "forget_all", "telling", "clear"}

\* left: the pairings a loop has still to visit; about: the pairing of a
\* ceremony; ending: the pairing the change at hand ends; changed: the
\* pairings load removed or expired.
Jobs == [task : Tasks, left : SUBSET Pairs, about : SUBSET Pairs,
         ending : SUBSET Pairs, changed : SUBSET Pairs]

Resting(task) == [task |-> task, left |-> {}, about |-> {}, ending |-> {}, changed |-> {}]

SetsTypeOK ==
  /\ file \in Sets /\ mem \in [Instances -> Sets] /\ next \in [Instances -> Sets]
  /\ writing \subseteq Instances /\ unread \subseteq Instances

CountsTypeOK ==
  refused \in 0..MaxRefused /\ unreadable \in 0..MaxUnreadable /\ crashes \in 0..MaxCrashes

HistoryTypeOK == peerStored \subseteq Pairs /\ paired \subseteq Pairs /\ ended \subseteq Pairs

TypeOK == SetsTypeOK /\ CountsTypeOK /\ HistoryTypeOK /\ job \in [Instances -> Jobs]

Init ==
  /\ file = NoRecords
  /\ mem = [s \in Instances |-> NoRecords] /\ next = [s \in Instances |-> NoRecords]
  /\ job = [s \in Instances |-> Resting("unloaded")]
  /\ writing = {} /\ unread = {}
  /\ refused = 0 /\ unreadable = 0 /\ crashes = 0
  /\ peerStored = {} /\ paired = {} /\ ended = {}

Is(s, task) == job[s].task = task /\ s \notin writing

\* The instance is loaded and its caller does nothing with it.
Free(s) == job[s].task \in {"loaded", "idle"} /\ s \notin writing

Becomes(s, value) == job' = [job EXCEPT ![s] = value]

Rests(s) == Becomes(s, Resting("idle"))

-----------------------------------------------------------------------------
(* One change: refresh and apply, then persist.                              *)

\* Mutant: a record is stored as if the phone had confirmed it.
ChangedInsertsServing(act, state) ==
  CASE act = "insert"  -> "serving"
    [] act = "remove"  -> "none"
    [] act = "confirm" -> IF state = "unconfirmed" THEN "serving" ELSE state
    [] act = "forget"  -> "forgotten"
    [] act = "revoke"  -> "revoked"
    [] act = "touch"   -> state

\* Mutant: a change that rebuilds the record loses the time it was forgotten.
ChangedUnforgets(act, state) ==
  CASE act = "insert"  -> "unconfirmed"
    [] act = "remove"  -> "none"
    [] act = "confirm" -> IF state = "unconfirmed" THEN "serving" ELSE state
    [] act = "forget"  -> "forgotten"
    [] act = "revoke"  -> "revoked"
    [] act = "touch"   -> IF state = "forgotten" THEN "serving" ELSE state

\* Mutant: a change that rebuilds the record loses the time it was revoked.
ChangedUnrevokes(act, state) ==
  CASE act = "insert"  -> "unconfirmed"
    [] act = "remove"  -> "none"
    [] act = "confirm" -> IF state = "unconfirmed" THEN "serving" ELSE state
    [] act = "forget"  -> "forgotten"
    [] act = "revoke"  -> "revoked"
    [] act = "touch"   -> IF state = "revoked" THEN "forgotten" ELSE state

\* What a change makes of a record: insert, remove, PairingRecord's
\* confirm_storage, forget and revoke, and touch for the changes that keep the
\* state (a certificate, the peer's name, the time of a session).
Changed(act, state) ==
  CASE act = "insert"  -> "unconfirmed"
    [] act = "remove"  -> "none"
    [] act = "confirm" -> IF state = "unconfirmed" THEN "serving" ELSE state
    [] act = "forget"  -> IF state \in {"unconfirmed", "serving"} THEN "forgotten" ELSE state
    [] act = "revoke"  -> "revoked"
    [] act = "touch"   -> state

\* Every change but insert answers Unknown when the record is gone.
Known(act, i) == act = "insert" \/ file[i] # "none"

\* change() up to its write.
Begin(s, act, i) ==
  /\ Known(act, i)
  /\ LET set == [file EXCEPT ![i] = Changed(act, file[i])]
     IN  mem' = [mem EXCEPT ![s] = set] /\ next' = [next EXCEPT ![s] = set]
  /\ writing' = writing \cup {s} /\ unread' = unread \ {s}
  /\ UNCHANGED <<file, counts>>

\* The record is gone: the copy is fresh and nothing is written.
BeginUnknown(s, act, i) ==
  /\ ~Known(act, i)
  /\ mem' = [mem EXCEPT ![s] = file]
  /\ unread' = unread \ {s}
  /\ UNCHANGED <<file, next, writing, counts>>

\* refresh fails: the copy stays as it was and nothing is written.
BeginUnreadable(s) ==
  /\ unreadable < MaxUnreadable /\ unreadable' = unreadable + 1
  /\ unread' = unread \cup {s}
  /\ UNCHANGED <<file, mem, next, writing, refused, crashes>>

BeginFails(s, act, i) == BeginUnknown(s, act, i) \/ BeginUnreadable(s)

\* The rename: the whole set replaces whatever the file holds by now.
Renamed(s) ==
  /\ s \in writing /\ writing' = writing \ {s}
  /\ file' = next[s] /\ mem' = [mem EXCEPT ![s] = next[s]]
  /\ ended' = ended \cup job[s].ending
  /\ UNCHANGED <<next, unread, counts, peerStored>>

\* The write is refused: the change stands in the copy until the next refresh.
WriteRefused(s) ==
  /\ s \in writing /\ writing' = writing \ {s}
  /\ refused < MaxRefused /\ refused' = refused + 1
  /\ UNCHANGED <<file, mem, next, unread, unreadable, crashes, peerStored, ended>>

-----------------------------------------------------------------------------
(* load_from.                                                                *)

Load(s) ==
  /\ Is(s, "unloaded") \/ Free(s)
  /\ mem' = [mem EXCEPT ![s] = file]
  /\ unread' = unread \ {s}
  /\ LET unconfirmed == {i \in Pairs : file[i] = "unconfirmed"}
     IN  Becomes(s, [Resting("removing") EXCEPT !.left = unconfirmed, !.changed = unconfirmed])
  /\ UNCHANGED <<file, next, writing, counts, peerStored, paired, ended>>

LoadUnreadable(s) ==
  /\ Is(s, "unloaded") \/ Free(s)
  /\ BeginUnreadable(s)
  /\ Becomes(s, Resting("unloaded"))
  /\ UNCHANGED <<peerStored, paired, ended>>

\* remove_unconfirmed: each record the load read as unconfirmed is removed as
\* it is by now; a failure is ignored.
RemoveUnconfirmed(s, i) ==
  /\ Is(s, "removing") /\ i \in job[s].left
  /\ Begin(s, "remove", i) \/ BeginFails(s, "remove", i)
  /\ Becomes(s, [job[s] EXCEPT !.left = @ \ {i}])
  /\ UNCHANGED <<peerStored, paired, ended>>

\* expire_revocation_notices: those of the forgotten pairings whose attempt's
\* bound passed, or that the clock was set back past.
FindExpired(s, expired) ==
  /\ Is(s, "removing") /\ job[s].left = {}
  /\ \A i \in expired : mem[s][i] = "forgotten"
  /\ Becomes(s, [job[s] EXCEPT !.task = "expiring", !.left = expired,
                               !.changed = @ \cup expired])
  /\ UNCHANGED <<file, mem, next, writing, unread, counts, peerStored, paired, ended>>

ExpireNotice(s, i) ==
  /\ Is(s, "expiring") /\ i \in job[s].left
  /\ Begin(s, "revoke", i) \/ BeginFails(s, "revoke", i)
  /\ Becomes(s, [job[s] EXCEPT !.left = @ \ {i}, !.ending = {i}])
  /\ UNCHANGED <<peerStored, paired, ended>>

\* After a change the records held here are written once more, as they are.
LoadPersists(s) ==
  /\ Is(s, "expiring") /\ job[s].left = {}
  /\ IF job[s].changed # {}
     THEN /\ writing' = writing \cup {s} /\ next' = [next EXCEPT ![s] = mem[s]]
          /\ Becomes(s, Resting("persisting"))
     ELSE UNCHANGED <<writing, next>> /\ Becomes(s, Resting("loaded"))
  /\ UNCHANGED <<file, mem, unread, counts, peerStored, paired, ended>>

\* The write of one of load's changes, and of the last one: a load whose last
\* write is refused fails.
LoadWrites(s) ==
  \/ /\ job[s].task \in {"removing", "expiring"}
     /\ Renamed(s) \/ WriteRefused(s)
     /\ UNCHANGED <<job, paired>>
  \/ /\ job[s].task = "persisting"
     /\ \/ Renamed(s) /\ Becomes(s, Resting("loaded"))
        \/ WriteRefused(s) /\ Becomes(s, Resting("unloaded"))
     /\ UNCHANGED paired

-----------------------------------------------------------------------------
(* complete_pairing: the record is stored unconfirmed, the phone stores its   *)
(* own, and the record is confirmed or removed.                               *)

Insert(s, i) ==
  /\ Free(s)
  /\ i \notin paired \cup ended \cup peerStored
  /\ \A t \in Instances : i \notin job[t].about /\ mem[t][i] = "none"
  /\ file[i] = "none"
  /\ \/ Begin(s, "insert", i) /\ Becomes(s, [Resting("insert") EXCEPT !.about = {i}])
     \/ BeginUnreadable(s) /\ UNCHANGED job
  /\ UNCHANGED <<peerStored, paired, ended>>

InsertWritten(s) ==
  /\ job[s].task = "insert"
  /\ \/ Renamed(s) /\ Becomes(s, [job[s] EXCEPT !.task = "await"])
     \/ WriteRefused(s) /\ Rests(s)
  /\ UNCHANGED paired

\* The phone's confirmation arrives.
PeerStores(s) ==
  /\ Is(s, "await")
  /\ peerStored' = peerStored \cup job[s].about
  /\ Becomes(s, [job[s] EXCEPT !.task = "confirm"])
  /\ UNCHANGED <<file, mem, next, writing, unread, counts, paired, ended>>

\* It does not arrive in time, whether or not the phone stored its record.
PeerFails(s) ==
  /\ Is(s, "await")
  /\ peerStored' \in {peerStored, peerStored \cup job[s].about}
  /\ Becomes(s, [job[s] EXCEPT !.task = "undo"])
  /\ UNCHANGED <<file, mem, next, writing, unread, counts, paired, ended>>

\* The record is confirmed; one that is gone or lost its keys is not.
Confirm(s) ==
  /\ Is(s, "confirm")
  /\ \E i \in job[s].about :
       \/ Begin(s, "confirm", i) /\ UNCHANGED job
       \/ BeginFails(s, "confirm", i) /\ Becomes(s, [job[s] EXCEPT !.task = "undo"])
  /\ UNCHANGED <<peerStored, paired, ended>>

\* Mutant: a confirmation that could not be written is reported as paired.
ConfirmWrittenUnseen(s) ==
  /\ job[s].task = "confirm"
  /\ Renamed(s) \/ WriteRefused(s)
  /\ paired' = paired \cup job[s].about /\ Rests(s)

ConfirmWritten(s) ==
  /\ job[s].task = "confirm" /\ s \in writing
  /\ \/ /\ Renamed(s)
        /\ IF \A i \in job[s].about : next[s][i] # "revoked"
           THEN paired' = paired \cup job[s].about /\ Rests(s)
           ELSE paired' = paired /\ Becomes(s, [job[s] EXCEPT !.task = "undo"])
     \/ WriteRefused(s) /\ paired' = paired /\ Becomes(s, [job[s] EXCEPT !.task = "undo"])

\* A pairing the peer never confirmed does not survive; failures are ignored.
Undo(s) ==
  /\ Is(s, "undo")
  /\ \E i \in job[s].about : Begin(s, "remove", i) \/ BeginFails(s, "remove", i)
  /\ Becomes(s, Resting("change"))
  /\ UNCHANGED <<peerStored, paired, ended>>

-----------------------------------------------------------------------------
(* Changes made by sessions, users and sweeps.                               *)

Ending(i) == [Resting("change") EXCEPT !.ending = {i}]

\* A change without an end: a certificate, a name, the time of a session.
Touch(s, i) ==
  /\ Free(s)
  /\ Begin(s, "touch", i) \/ BeginFails(s, "touch", i)
  /\ Becomes(s, Resting("change"))
  /\ UNCHANGED <<peerStored, paired, ended>>

\* revoke_pairing after the peer's close, or once the phone was told: the
\* session was opened from the record held here.
Revoke(s, i) ==
  /\ Free(s) /\ mem[s][i] \in {"serving", "forgotten"}
  /\ Begin(s, "revoke", i) \/ BeginFails(s, "revoke", i)
  /\ Becomes(s, Ending(i))
  /\ UNCHANGED <<peerStored, paired, ended>>

\* A sweep without a session after 30 days: the record held here changes only
\* once the write succeeded.
IdleExpires(s, i) ==
  /\ Free(s)
  /\ file[i] = "serving"
  /\ mem' = [mem EXCEPT ![s] = file]
  /\ next' = [next EXCEPT ![s] = [file EXCEPT ![i] = "revoked"]]
  /\ writing' = writing \cup {s} /\ unread' = unread \ {s}
  /\ Becomes(s, Ending(i))
  /\ UNCHANGED <<file, counts, peerStored, paired, ended>>

\* What forget_pairing does to a record, by the state the copy holds for it.
ForgetAct(state) == IF state = "serving" THEN "forget" ELSE "remove"

Forget(s, i) ==
  /\ Free(s) /\ mem[s][i] \notin {"none", "forgotten"}
  /\ LET act == ForgetAct(mem[s][i])
     IN  Begin(s, act, i) \/ BeginFails(s, act, i)
  /\ Becomes(s, Ending(i))
  /\ UNCHANGED <<peerStored, paired, ended>>

\* The write of one change; a change that failed has nothing to write.
ChangeWritten(s) ==
  /\ job[s].task = "change"
  /\ \/ (Renamed(s) \/ WriteRefused(s)) /\ Rests(s) /\ UNCHANGED paired
     \/ /\ s \notin writing /\ Rests(s)
        /\ UNCHANGED <<file, mem, next, writing, unread, counts, peerStored, paired, ended>>

-----------------------------------------------------------------------------
(* rapp-ffi's forget_every_pairing: a fresh load, every pairing forgotten, the *)
(* phones told, and what was revoked cleared.                                *)

Present(set) == {i \in Pairs : set[i] # "none"}

ForgetEvery(s) ==
  /\ Is(s, "loaded")
  /\ Becomes(s, [Resting("forget_all") EXCEPT !.left = Present(mem[s])])
  /\ UNCHANGED <<file, mem, next, writing, unread, counts, peerStored, paired, ended>>

Onward(s, i) == [job[s] EXCEPT !.left = @ \ {i}, !.ending = {i}]

\* One pairing is forgotten; the loop stops at its first failure.
ForgetNext(s, i) ==
  /\ Is(s, "forget_all") /\ i \in job[s].left
  /\ LET held == mem[s][i]
     IN  \/ /\ held = "forgotten" /\ Becomes(s, Onward(s, i))
            /\ UNCHANGED <<file, mem, next, writing, unread, counts>>
         \/ /\ held = "none" /\ Rests(s)
            /\ UNCHANGED <<file, mem, next, writing, unread, counts>>
         \/ /\ held \notin {"forgotten", "none"}
            /\ \/ Begin(s, ForgetAct(held), i) /\ Becomes(s, Onward(s, i))
               \/ BeginFails(s, ForgetAct(held), i) /\ Rests(s)
  /\ UNCHANGED <<peerStored, paired, ended>>

\* attempt_revocations: a forgotten pairing is revoked once its phone echoed
\* the close or the attempt's bound passed.
Tell(s, i) ==
  /\ Is(s, "telling") /\ mem[s][i] = "forgotten"
  /\ Begin(s, "revoke", i) \/ BeginFails(s, "revoke", i)
  /\ Becomes(s, [job[s] EXCEPT !.ending = {i}])
  /\ UNCHANGED <<peerStored, paired, ended>>

ClearRevoked(s) ==
  /\ Is(s, "telling")
  /\ Becomes(s, [Resting("clear") EXCEPT !.left = Present(mem[s])])
  /\ UNCHANGED <<file, mem, next, writing, unread, counts, peerStored, paired, ended>>

\* One pairing is cleared if the copy holds it revoked; a failure is ignored.
ClearNext(s, i) ==
  /\ Is(s, "clear") /\ i \in job[s].left
  /\ \/ mem[s][i] = "revoked" /\ (Begin(s, "remove", i) \/ BeginFails(s, "remove", i))
     \/ mem[s][i] # "revoked" /\ UNCHANGED <<file, mem, next, writing, unread, counts>>
  /\ Becomes(s, Onward(s, i))
  /\ UNCHANGED <<peerStored, paired, ended>>

LoopWrites(s) ==
  /\ job[s].task \in {"forget_all", "telling", "clear"}
  /\ \/ Renamed(s) /\ UNCHANGED job
     \/ /\ WriteRefused(s)
        /\ IF job[s].task = "forget_all" THEN Rests(s) ELSE UNCHANGED job
  /\ UNCHANGED paired

\* Mutant: the loop writes back the records it holds instead of deleting the set.
LoopEndsRewriting(s) ==
  /\ Is(s, "forget_all") \/ Is(s, "clear")
  /\ job[s].left = {}
  /\ file' = [i \in Present(mem[s]) |-> mem[s][i]] /\ Rests(s)
  /\ UNCHANGED <<mem, next, writing, unread, counts, peerStored, paired, ended>>

\* delete_pairing_set: the set is deleted once the copy held here is empty.
LoopEnds(s) ==
  /\ Is(s, "forget_all") \/ Is(s, "clear")
  /\ job[s].left = {}
  /\ LET empty == Present(mem[s]) = {}
     IN  /\ file' = IF empty THEN NoRecords ELSE file
         /\ IF job[s].task = "forget_all" /\ ~empty
            THEN Becomes(s, Resting("telling"))
            ELSE Rests(s)
  /\ UNCHANGED <<mem, next, writing, unread, counts, peerStored, paired, ended>>

-----------------------------------------------------------------------------
\* The process dies; what it had not renamed is lost.
Crash(s) ==
  /\ crashes < MaxCrashes /\ crashes' = crashes + 1
  /\ job[s].task # "unloaded"
  /\ Becomes(s, Resting("unloaded"))
  /\ writing' = writing \ {s}
  /\ UNCHANGED <<file, mem, next, unread, refused, unreadable, peerStored, paired, ended>>

Loading(s) ==
  \/ Load(s) \/ LoadUnreadable(s) \/ LoadPersists(s) \/ LoadWrites(s)
  \/ \E i \in Pairs : RemoveUnconfirmed(s, i) \/ ExpireNotice(s, i)
  \/ \E expired \in SUBSET Pairs : FindExpired(s, expired)

Pairing(s) ==
  \/ \E i \in Pairs : Insert(s, i)
  \/ InsertWritten(s) \/ PeerStores(s) \/ PeerFails(s)
  \/ Confirm(s) \/ ConfirmWritten(s) \/ Undo(s)

Changing(s) ==
  \/ \E i \in Pairs : Touch(s, i) \/ Revoke(s, i) \/ IdleExpires(s, i) \/ Forget(s, i)
  \/ ChangeWritten(s)

Looping(s) ==
  \/ ForgetEvery(s) \/ ClearRevoked(s) \/ LoopWrites(s) \/ LoopEnds(s)
  \/ \E i \in Pairs : ForgetNext(s, i) \/ Tell(s, i) \/ ClearNext(s, i)

Next == \E s \in Instances : Loading(s) \/ Pairing(s) \/ Changing(s) \/ Looping(s) \/ Crash(s)

Spec == Init /\ [][Next]_vars

-----------------------------------------------------------------------------
(* Properties *)

\* No pairing serves whose phone did not confirm its own storage, whatever sets
\* the instances write over each other (complete_pairing, remove_unconfirmed).
ServingWasConfirmed == \A i \in Pairs : file[i] = "serving" => i \in peerStored

\* A pairing that was forgotten, revoked or expired, and written so, never
\* serves again (refresh, change).
EndedStaysEnded == \A i \in ended : file[i] # "serving"

\* A pairing the ceremony returned serves until it is ended: no load, sweep or
\* deletion of the set takes it away (complete_pairing, load_from).
PairedIsKept == \A i \in paired \ ended : file[i] = "serving"

\* No change is written over a set that could not be read (change, load_from).
NeverWrittenUnread == writing \cap unread = {}

\* What the file holds, with what the phones stored and the callers were told,
\* is the life of each pairing.
Lifecycle == INSTANCE PairingLifecycle WITH
  record <- file, stored <- peerStored, given <- paired, over <- ended

\* Every rename of a whole set, refused write, failed read and death of the
\* process is one step of the lifecycle or none: no pairing goes back a state,
\* skips its confirmation, is given to a caller before it serves, or leaves
\* service without an end (change, load_from, complete_pairing, forget_pairing,
\* revoke_pairing, delete_pairing_set).
ImplementsLifecycle == Lifecycle!Spec
=============================================================================
