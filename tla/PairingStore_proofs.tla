------------------------ MODULE PairingStore_proofs ------------------------
(* Proofs about PairingStore for every set of instances and pairings.  What a  *)
(* pairing that serves rests on is carried by every copy of the set and by     *)
(* every set about to be written, since any of them may become the file.       *)
EXTENDS PairingStore, TLAPS

Acts == {"insert", "remove", "confirm", "forget", "revoke", "touch"}

\* The states of a pairing that can never serve again.
Over == {"none", "forgotten", "revoked"}

-----------------------------------------------------------------------------
(* The parts of the actions.                                                 *)

\* What PairingRecord's operations return: only a confirmation makes a record
\* serve, and an end is never taken back.
LEMMA ChangedFacts ==
  ASSUME NEW act \in Acts, NEW state \in States
  PROVE  /\ Changed(act, state) \in States
         /\ Changed(act, state) = "serving" => state = "serving" \/ act = "confirm"
         /\ act \in {"remove", "forget", "revoke"} => Changed(act, state) \in Over
         /\ act # "insert" /\ state \in Over => Changed(act, state) \in Over
<1>1. CASE act = "insert"
  BY <1>1 DEF Changed, States, Over
<1>2. CASE act = "remove"
  BY <1>2 DEF Changed, States, Over
<1>3. CASE act = "confirm"
  BY <1>3 DEF Changed, States, Over
<1>4. CASE act = "forget"
  BY <1>4 DEF Changed, States, Over
<1>5. CASE act = "revoke"
  BY <1>5 DEF Changed, States, Over
<1>6. CASE act = "touch"
  BY <1>6 DEF Changed, States, Over
<1> QED
  BY <1>1, <1>2, <1>3, <1>4, <1>5, <1>6 DEF Acts

\* A change that begins gives the instance a copy that differs from the file in
\* the one record it is about.
LEMMA BeginFacts ==
  ASSUME SetsTypeOK, CountsTypeOK, NEW s \in Instances, NEW i \in Pairs, NEW act \in Acts,
         Begin(s, act, i)
  PROVE  /\ SetsTypeOK' /\ CountsTypeOK'
         /\ file' = file /\ writing' = writing \cup {s}
         /\ \A j \in Pairs : mem'[s][j] = IF j = i THEN Changed(act, file[i]) ELSE file[j]
         /\ \A j \in Pairs : next'[s][j] = IF j = i THEN Changed(act, file[i]) ELSE file[j]
         /\ \A t \in Instances : t # s => mem'[t] = mem[t] /\ next'[t] = next[t]
<1> DEFINE set == [file EXCEPT ![i] = Changed(act, file[i])]
<1>1. Changed(act, file[i]) \in States
  BY ChangedFacts DEF SetsTypeOK, Sets
<1>2. set \in Sets
  BY <1>1 DEF SetsTypeOK, Sets
<1>3. /\ mem' = [mem EXCEPT ![s] = set] /\ next' = [next EXCEPT ![s] = set]
      /\ writing' = writing \cup {s} /\ unread' = unread \ {s}
      /\ file' = file /\ refused' = refused /\ unreadable' = unreadable /\ crashes' = crashes
  BY DEF Begin, counts
<1>4. \A j \in Pairs : set[j] = IF j = i THEN Changed(act, file[i]) ELSE file[j]
  BY DEF SetsTypeOK, Sets
<1> HIDE DEF set
<1>5. SetsTypeOK' /\ CountsTypeOK'
  BY <1>2, <1>3 DEF SetsTypeOK, CountsTypeOK
<1>6. mem'[s] = set /\ next'[s] = set
  BY <1>3 DEF SetsTypeOK
<1>7. \A t \in Instances : t # s => mem'[t] = mem[t] /\ next'[t] = next[t]
  BY <1>3 DEF SetsTypeOK
<1> QED
  BY <1>3, <1>4, <1>5, <1>6, <1>7

\* A change that fails at its start leaves the file and every set to write, and
\* the copy is as it was or fresh.
LEMMA BeginFailsFacts ==
  ASSUME SetsTypeOK, CountsTypeOK, StoreAssumption, NEW s \in Instances, NEW i \in Pairs,
         NEW act \in Acts, BeginFails(s, act, i)
  PROVE  /\ SetsTypeOK' /\ CountsTypeOK'
         /\ file' = file /\ writing' = writing /\ next' = next
         /\ \A t \in Instances : mem'[t] = mem[t] \/ mem'[t] = file
<1>1. CASE BeginUnknown(s, act, i)
  BY <1>1 DEF BeginUnknown, SetsTypeOK, CountsTypeOK, counts
<1>2. CASE BeginUnreadable(s)
  BY <1>2 DEF BeginUnreadable, SetsTypeOK, CountsTypeOK, StoreAssumption
<1> QED
  BY <1>1, <1>2 DEF BeginFails

\* A rename: the file becomes the set the instance had to write.
LEMMA RenamedFacts ==
  ASSUME SetsTypeOK, CountsTypeOK, NEW s \in Instances, Renamed(s)
  PROVE  /\ SetsTypeOK' /\ CountsTypeOK'
         /\ s \in writing /\ writing' = writing \ {s}
         /\ file' = next[s] /\ next' = next /\ peerStored' = peerStored
         /\ ended' = ended \cup job[s].ending
         /\ mem'[s] = next[s] /\ \A t \in Instances : t # s => mem'[t] = mem[t]
<1> QED
  BY DEF Renamed, SetsTypeOK, CountsTypeOK, counts

\* A refused write leaves everything but the set to write.
LEMMA WriteRefusedFacts ==
  ASSUME SetsTypeOK, CountsTypeOK, StoreAssumption, NEW s \in Instances, WriteRefused(s)
  PROVE  /\ SetsTypeOK' /\ CountsTypeOK'
         /\ s \in writing /\ writing' = writing \ {s}
         /\ file' = file /\ next' = next /\ mem' = mem
         /\ peerStored' = peerStored /\ ended' = ended
<1> QED
  BY DEF WriteRefused, SetsTypeOK, CountsTypeOK, StoreAssumption

-----------------------------------------------------------------------------
(* The invariant.                                                            *)

\* Every set that is or may become the file only serves confirmed pairings.
Backed ==
  /\ \A j \in Pairs : file[j] = "serving" => j \in peerStored
  /\ \A t \in Instances : \A j \in Pairs : mem[t][j] = "serving" => j \in peerStored
  /\ \A t \in Instances : \A j \in Pairs : next[t][j] = "serving" => j \in peerStored

\* A ceremony confirms its record only once the phone stored its own.
Told == \A t \in Instances : job[t].task = "confirm" => job[t].about \subseteq peerStored

\* Loads and ceremonies end no pairing.
Quiet == {"removing", "insert", "await", "confirm"}

QuietEndsNone == \A t \in Instances : job[t].task \in Quiet => job[t].ending = {}

ConfirmedInv == TypeOK /\ Backed /\ Told /\ QuietEndsNone

\* From the read of a change to its rename, and from that of a load to its last
\* write: what the instance holds may become the file.
Loads == {"removing", "expiring"}

Busy(t) == t \in writing \/ job[t].task \in Loads

\* No two instances are at it together, as a lock between the read and the rename
\* would have it.
Locked == \A s, t \in Instances : Busy(s) /\ Busy(t) => s = t

\* An ended pairing is over in every set that may become the file, and a set
\* being written to end a pairing ends it.
EndedOver ==
  \A j \in ended : /\ file[j] \in Over
                   /\ \A t \in Instances : Busy(t) => mem[t][j] \in Over
                   /\ \A t \in writing : next[t][j] \in Over

EndingOver == \A t \in writing : \A j \in job[t].ending : next[t][j] \in Over

EndedInv == EndedOver /\ EndingOver

OneInstance == \A s, t \in Instances : s = t

\* The instance takes up job v; a load begins with a fresh copy.
Took(s, v) ==
  /\ Becomes(s, v)
  /\ v \in Jobs
  /\ v.task = "confirm" => v.about \subseteq peerStored'
  /\ v.task \in Quiet => v.ending = {}
  /\ v.task \in Loads => job[s].task \in Loads \/ mem'[s] = file

\* Taking up a job leaves every other instance's job.
LEMMA TookFacts ==
  ASSUME TypeOK, Told, QuietEndsNone, NEW s \in Instances, NEW v, Took(s, v),
         peerStored \subseteq peerStored'
  PROVE  /\ job' \in [Instances -> Jobs]
         /\ job'[s] = v /\ \A t \in Instances : t # s => job'[t] = job[t]
         /\ Told'
         /\ QuietEndsNone'
<1>1. /\ job' \in [Instances -> Jobs]
      /\ job'[s] = v /\ \A t \in Instances : t # s => job'[t] = job[t]
  BY DEF Took, Becomes, TypeOK
<1>2. Told'
  BY <1>1 DEF Told, Took
<1>3. QuietEndsNone'
  BY <1>1 DEF QuietEndsNone, Took
<1> QED
  BY <1>1, <1>2, <1>3

\* An instance that keeps its job takes it up again.
LEMMA KeptJob ==
  ASSUME TypeOK, Told, QuietEndsNone, NEW s \in Instances, job' = job,
         peerStored \subseteq peerStored'
  PROVE  Took(s, job[s])
<1> QED
  BY DEF Took, Becomes, TypeOK, Told, QuietEndsNone

-----------------------------------------------------------------------------
(* The kinds of steps.                                                       *)

\* A change begins: the new set serves what the file served, and with one
\* instance an ended pairing stays over in it.
LEMMA AfterBegin ==
  ASSUME ConfirmedInv, StoreAssumption, NEW s \in Instances, NEW i \in Pairs, NEW act \in Acts,
         NEW v, Begin(s, act, i), Took(s, v),
         peerStored' = peerStored, paired' = paired, ended' = ended,
         act = "confirm" => i \in peerStored
  PROVE  /\ ConfirmedInv'
         /\ /\ EndedInv
            /\ act = "insert" => i \notin ended
            /\ v.ending # {} => v.ending = {i} /\ act \in {"remove", "forget", "revoke"}
            => EndedInv'
<1> USE DEF ConfirmedInv
<1>1. /\ SetsTypeOK' /\ CountsTypeOK'
      /\ file' = file /\ writing' = writing \cup {s}
      /\ \A j \in Pairs : mem'[s][j] = IF j = i THEN Changed(act, file[i]) ELSE file[j]
      /\ \A j \in Pairs : next'[s][j] = IF j = i THEN Changed(act, file[i]) ELSE file[j]
      /\ \A t \in Instances : t # s => mem'[t] = mem[t] /\ next'[t] = next[t]
  BY BeginFacts DEF TypeOK
<1>2. /\ job' \in [Instances -> Jobs]
      /\ job'[s] = v /\ \A t \in Instances : t # s => job'[t] = job[t]
      /\ Told'
      /\ QuietEndsNone'
  BY TookFacts
<1>3. file[i] \in States
  BY DEF TypeOK, SetsTypeOK, Sets
<1>4. /\ Changed(act, file[i]) = "serving" => file[i] = "serving" \/ act = "confirm"
      /\ act \in {"remove", "forget", "revoke"} => Changed(act, file[i]) \in Over
      /\ act # "insert" /\ file[i] \in Over => Changed(act, file[i]) \in Over
  BY <1>3, ChangedFacts
<1>5. Backed'
  BY <1>1, <1>4 DEF Backed
<1>6. TypeOK'
  BY <1>1, <1>2 DEF TypeOK, HistoryTypeOK
<1>7. ASSUME EndedInv, act = "insert" => i \notin ended,
             v.ending # {} => v.ending = {i} /\ act \in {"remove", "forget", "revoke"}
      PROVE  EndedInv'
  <2>1. ended \subseteq Pairs
    BY DEF TypeOK, HistoryTypeOK
  <2>2. EndedOver'
    BY <1>1, <1>2, <1>4, <1>7, <2>1 DEF EndedOver, EndedInv, Busy, TypeOK, SetsTypeOK
  <2>3. EndingOver'
    BY <1>1, <1>2, <1>4, <1>7 DEF EndingOver, EndedInv, TypeOK, SetsTypeOK
  <2> QED
    BY <1>2, <1>7, <2>2, <2>3 DEF EndedInv
<1> QED
  BY <1>2, <1>5, <1>6, <1>7

\* Nothing is written: a copy is as it was or fresh, and the phone may have
\* stored its record.
LEMMA AfterRead ==
  ASSUME ConfirmedInv, NEW s \in Instances, NEW v, Took(s, v), s \notin writing,
         SetsTypeOK', CountsTypeOK', file' = file, writing' = writing, next' = next,
         \A t \in Instances : mem'[t] = mem[t] \/ mem'[t] = file,
         peerStored \subseteq peerStored', peerStored' \subseteq Pairs,
         paired' = paired, ended' = ended
  PROVE  ConfirmedInv' /\ (EndedInv => EndedInv')
<1> USE DEF ConfirmedInv
<1>1. /\ job' \in [Instances -> Jobs]
      /\ job'[s] = v /\ \A t \in Instances : t # s => job'[t] = job[t]
      /\ Told'
      /\ QuietEndsNone'
  BY TookFacts
<1>2. Backed'
  BY DEF Backed
<1>3. TypeOK'
  BY <1>1 DEF TypeOK, HistoryTypeOK
<1>4. ASSUME EndedInv PROVE EndedInv'
  <2>1. EndedOver'
    BY <1>1, <1>4 DEF EndedOver, EndedInv, Busy, Took, TypeOK, SetsTypeOK
  <2>2. EndingOver'
    BY <1>1, <1>4 DEF EndingOver, EndedInv, TypeOK, SetsTypeOK
  <2> QED
    BY <1>1, <1>4, <2>1, <2>2 DEF EndedInv
<1> QED
  BY <1>1, <1>2, <1>3, <1>4

\* A rename: the set was backed when it was made and peerStored only grows; with
\* one instance nothing else was made from an older file.
LEMMA AfterRename ==
  ASSUME ConfirmedInv, NEW s \in Instances, NEW v, Renamed(s), Took(s, v), paired' \subseteq Pairs
  PROVE  ConfirmedInv' /\ (Locked /\ EndedInv => EndedInv')
<1> USE DEF ConfirmedInv
<1>1. /\ SetsTypeOK' /\ CountsTypeOK'
      /\ s \in writing /\ writing' = writing \ {s}
      /\ file' = next[s] /\ next' = next /\ peerStored' = peerStored
      /\ ended' = ended \cup job[s].ending
      /\ mem'[s] = next[s] /\ \A t \in Instances : t # s => mem'[t] = mem[t]
  BY RenamedFacts DEF TypeOK
<1>2. /\ job' \in [Instances -> Jobs]
      /\ job'[s] = v /\ \A t \in Instances : t # s => job'[t] = job[t]
      /\ Told'
      /\ QuietEndsNone'
  BY <1>1, TookFacts
<1>3. Backed'
  BY <1>1 DEF Backed
<1>4. job[s].ending \subseteq Pairs
  BY DEF TypeOK, Jobs
<1>5. TypeOK'
  BY <1>1, <1>2, <1>4 DEF TypeOK, HistoryTypeOK
<1>6. ASSUME Locked, EndedInv PROVE EndedInv'
  <2>1. EndedOver'
    <3>1. \A t \in Instances \ {s} : ~Busy(t) /\ ~Busy(t)' /\ t \notin writing
      BY <1>1, <1>2, <1>6 DEF Locked, Busy
    <3>2. \A j \in ended' : next[s][j] \in Over
      BY <1>1, <1>6 DEF EndedOver, EndingOver, EndedInv
    <3> QED
      BY <1>1, <3>1, <3>2 DEF EndedOver, TypeOK, SetsTypeOK
  <2>2. EndingOver'
    BY <1>1, <1>2, <1>6 DEF EndingOver, EndedInv, TypeOK, SetsTypeOK
  <2> QED
    BY <1>2, <1>6, <2>1, <2>2 DEF EndedInv
<1> QED
  BY <1>2, <1>3, <1>5, <1>6

\* A refused write.
LEMMA AfterRefused ==
  ASSUME ConfirmedInv, StoreAssumption, NEW s \in Instances, NEW v, WriteRefused(s), Took(s, v),
         paired' = paired
  PROVE  ConfirmedInv' /\ (EndedInv => EndedInv')
<1> USE DEF ConfirmedInv
<1>1. /\ SetsTypeOK' /\ CountsTypeOK'
      /\ s \in writing /\ writing' = writing \ {s}
      /\ file' = file /\ next' = next /\ mem' = mem
      /\ peerStored' = peerStored /\ ended' = ended
  BY WriteRefusedFacts DEF TypeOK
<1>2. /\ job' \in [Instances -> Jobs]
      /\ job'[s] = v /\ \A t \in Instances : t # s => job'[t] = job[t]
      /\ Told'
      /\ QuietEndsNone'
  BY <1>1, TookFacts
<1>3. Backed'
  BY <1>1 DEF Backed
<1>4. TypeOK'
  BY <1>1, <1>2 DEF TypeOK, HistoryTypeOK
<1>5. ASSUME EndedInv PROVE EndedInv'
  <2>1. EndedOver'
    BY <1>1, <1>2, <1>5 DEF EndedOver, EndedInv, Busy, TypeOK, SetsTypeOK
  <2>2. EndingOver'
    BY <1>1, <1>2, <1>5 DEF EndingOver, EndedInv, TypeOK, SetsTypeOK
  <2> QED
    BY <1>2, <1>5, <2>1, <2>2 DEF EndedInv
<1> QED
  BY <1>2, <1>3, <1>4, <1>5

-----------------------------------------------------------------------------
(* The actions.                                                              *)

\* What every step keeps.
Kept == ConfirmedInv' /\ (Locked /\ EndedInv => EndedInv')

\* One removal of load: a change of one record, or nothing.
LEMMA RemoveUnconfirmedKeeps ==
  ASSUME ConfirmedInv, StoreAssumption, NEW s \in Instances, NEW i \in Pairs, RemoveUnconfirmed(s, i)
  PROVE  Kept
<1> USE DEF Kept, ConfirmedInv, Is, Free, Acts
<1> job[s] \in Jobs
  BY DEF TypeOK
<1> DEFINE v == [job[s] EXCEPT !.left = @ \ {i}]
<1>1. Took(s, v) /\ peerStored' = peerStored /\ paired' = paired /\ ended' = ended /\ s \notin writing
  <2>1. Becomes(s, v) /\ peerStored' = peerStored /\ paired' = paired /\ ended' = ended /\ s \notin writing
    BY DEF RemoveUnconfirmed
  <2>2. v \in Jobs
    BY DEF Tasks, Jobs, Resting, Ending
  <2>3. v.task = "removing" /\ v.ending = job[s].ending
    BY DEF Jobs, Resting, Ending, RemoveUnconfirmed
  <2> QED
    BY <2>1, <2>2, <2>3 DEF Took, Loads, Quiet, QuietEndsNone
<1>2. v.ending # {} => v.ending = {i} /\ "remove" \in {"remove", "forget", "revoke"}
  BY DEF Ending, Resting, Quiet, RemoveUnconfirmed, ForgetAct, QuietEndsNone
<1> HIDE DEF v
<1>3. CASE Begin(s, "remove", i)
  BY <1>1, <1>2, <1>3, AfterBegin DEF ForgetAct
<1>4. CASE BeginFails(s, "remove", i)
  <2>1. /\ SetsTypeOK' /\ CountsTypeOK' /\ file' = file /\ writing' = writing /\ next' = next
        /\ \A t \in Instances : mem'[t] = mem[t] \/ mem'[t] = file
    BY <1>4, BeginFailsFacts DEF TypeOK, ForgetAct
  <2> QED
    BY <1>1, <2>1, AfterRead DEF TypeOK, HistoryTypeOK
<1> QED
  BY <1>3, <1>4 DEF RemoveUnconfirmed

\* One expiry of load: the record loses its keys, or nothing changes.
LEMMA ExpireNoticeKeeps ==
  ASSUME ConfirmedInv, StoreAssumption, NEW s \in Instances, NEW i \in Pairs, ExpireNotice(s, i)
  PROVE  Kept
<1> USE DEF Kept, ConfirmedInv, Is, Free, Acts
<1> job[s] \in Jobs
  BY DEF TypeOK
<1> DEFINE v == [job[s] EXCEPT !.left = @ \ {i}, !.ending = {i}]
<1>1. Took(s, v) /\ peerStored' = peerStored /\ paired' = paired /\ ended' = ended /\ s \notin writing
  <2>1. Becomes(s, v) /\ peerStored' = peerStored /\ paired' = paired /\ ended' = ended /\ s \notin writing
    BY DEF ExpireNotice
  <2>2. v \in Jobs
    BY DEF Tasks, Jobs, Resting, Ending
  <2>3. v.task = "expiring" /\ v.ending = {i}
    BY DEF Jobs, Resting, Ending, ExpireNotice
  <2> QED
    BY <2>1, <2>2, <2>3 DEF Took, Loads, Quiet, QuietEndsNone
<1>2. v.ending # {} => v.ending = {i} /\ "revoke" \in {"remove", "forget", "revoke"}
  BY DEF Ending, Resting, Quiet, ExpireNotice, ForgetAct, QuietEndsNone
<1> HIDE DEF v
<1>3. CASE Begin(s, "revoke", i)
  BY <1>1, <1>2, <1>3, AfterBegin DEF ForgetAct
<1>4. CASE BeginFails(s, "revoke", i)
  <2>1. /\ SetsTypeOK' /\ CountsTypeOK' /\ file' = file /\ writing' = writing /\ next' = next
        /\ \A t \in Instances : mem'[t] = mem[t] \/ mem'[t] = file
    BY <1>4, BeginFailsFacts DEF TypeOK, ForgetAct
  <2> QED
    BY <1>1, <2>1, AfterRead DEF TypeOK, HistoryTypeOK
<1> QED
  BY <1>3, <1>4 DEF ExpireNotice

\* A change that keeps the state of its record.
LEMMA TouchKeeps ==
  ASSUME ConfirmedInv, StoreAssumption, NEW s \in Instances, NEW i \in Pairs, Touch(s, i)
  PROVE  Kept
<1> USE DEF Kept, ConfirmedInv, Is, Free, Acts
<1> job[s] \in Jobs
  BY DEF TypeOK
<1> DEFINE v == Resting("change")
<1>1. Took(s, v) /\ peerStored' = peerStored /\ paired' = paired /\ ended' = ended /\ s \notin writing
  <2>1. Becomes(s, v) /\ peerStored' = peerStored /\ paired' = paired /\ ended' = ended /\ s \notin writing
    BY DEF Touch
  <2>2. v \in Jobs
    BY DEF Tasks, Jobs, Resting, Ending
  <2>3. v.task = "change" /\ v.ending = {}
    BY DEF Jobs, Resting, Ending, Touch
  <2> QED
    BY <2>1, <2>2, <2>3 DEF Took, Loads, Quiet, QuietEndsNone
<1>2. v.ending # {} => v.ending = {i} /\ "touch" \in {"remove", "forget", "revoke"}
  BY DEF Ending, Resting, Quiet, Touch, ForgetAct, QuietEndsNone
<1> HIDE DEF v
<1>3. CASE Begin(s, "touch", i)
  BY <1>1, <1>2, <1>3, AfterBegin DEF ForgetAct
<1>4. CASE BeginFails(s, "touch", i)
  <2>1. /\ SetsTypeOK' /\ CountsTypeOK' /\ file' = file /\ writing' = writing /\ next' = next
        /\ \A t \in Instances : mem'[t] = mem[t] \/ mem'[t] = file
    BY <1>4, BeginFailsFacts DEF TypeOK, ForgetAct
  <2> QED
    BY <1>1, <2>1, AfterRead DEF TypeOK, HistoryTypeOK
<1> QED
  BY <1>3, <1>4 DEF Touch

\* A revocation: a change that ends its pairing.
LEMMA RevokeKeeps ==
  ASSUME ConfirmedInv, StoreAssumption, NEW s \in Instances, NEW i \in Pairs, Revoke(s, i)
  PROVE  Kept
<1> USE DEF Kept, ConfirmedInv, Is, Free, Acts
<1> job[s] \in Jobs
  BY DEF TypeOK
<1> DEFINE v == Ending(i)
<1>1. Took(s, v) /\ peerStored' = peerStored /\ paired' = paired /\ ended' = ended /\ s \notin writing
  <2>1. Becomes(s, v) /\ peerStored' = peerStored /\ paired' = paired /\ ended' = ended /\ s \notin writing
    BY DEF Revoke
  <2>2. v \in Jobs
    BY DEF Tasks, Jobs, Resting, Ending
  <2>3. v.task = "change" /\ v.ending = {i}
    BY DEF Jobs, Resting, Ending, Revoke
  <2> QED
    BY <2>1, <2>2, <2>3 DEF Took, Loads, Quiet, QuietEndsNone
<1>2. v.ending # {} => v.ending = {i} /\ "revoke" \in {"remove", "forget", "revoke"}
  BY DEF Ending, Resting, Quiet, Revoke, ForgetAct, QuietEndsNone
<1> HIDE DEF v
<1>3. CASE Begin(s, "revoke", i)
  BY <1>1, <1>2, <1>3, AfterBegin DEF ForgetAct
<1>4. CASE BeginFails(s, "revoke", i)
  <2>1. /\ SetsTypeOK' /\ CountsTypeOK' /\ file' = file /\ writing' = writing /\ next' = next
        /\ \A t \in Instances : mem'[t] = mem[t] \/ mem'[t] = file
    BY <1>4, BeginFailsFacts DEF TypeOK, ForgetAct
  <2> QED
    BY <1>1, <2>1, AfterRead DEF TypeOK, HistoryTypeOK
<1> QED
  BY <1>3, <1>4 DEF Revoke

\* A forget, by the state the copy holds: it ends its pairing either way.
LEMMA ForgetKeeps ==
  ASSUME ConfirmedInv, StoreAssumption, NEW s \in Instances, NEW i \in Pairs, Forget(s, i)
  PROVE  Kept
<1> USE DEF Kept, ConfirmedInv, Is, Free, Acts
<1> job[s] \in Jobs
  BY DEF TypeOK
<1> DEFINE v == Ending(i)
<1>1. Took(s, v) /\ peerStored' = peerStored /\ paired' = paired /\ ended' = ended /\ s \notin writing
  <2>1. Becomes(s, v) /\ peerStored' = peerStored /\ paired' = paired /\ ended' = ended /\ s \notin writing
    BY DEF Forget
  <2>2. v \in Jobs
    BY DEF Tasks, Jobs, Resting, Ending
  <2>3. v.task = "change" /\ v.ending = {i}
    BY DEF Jobs, Resting, Ending, Forget
  <2> QED
    BY <2>1, <2>2, <2>3 DEF Took, Loads, Quiet, QuietEndsNone
<1>2. v.ending # {} => v.ending = {i} /\ ForgetAct(mem[s][i]) \in {"remove", "forget", "revoke"}
  BY DEF Ending, Resting, Quiet, Forget, ForgetAct, QuietEndsNone
<1> HIDE DEF v
<1>3. CASE Begin(s, ForgetAct(mem[s][i]), i)
  BY <1>1, <1>2, <1>3, AfterBegin DEF ForgetAct
<1>4. CASE BeginFails(s, ForgetAct(mem[s][i]), i)
  <2>1. /\ SetsTypeOK' /\ CountsTypeOK' /\ file' = file /\ writing' = writing /\ next' = next
        /\ \A t \in Instances : mem'[t] = mem[t] \/ mem'[t] = file
    BY <1>4, BeginFailsFacts DEF TypeOK, ForgetAct
  <2> QED
    BY <1>1, <2>1, AfterRead DEF TypeOK, HistoryTypeOK
<1> QED
  BY <1>3, <1>4 DEF Forget

\* An attempt that told the phone, or whose bound passed.
LEMMA TellKeeps ==
  ASSUME ConfirmedInv, StoreAssumption, NEW s \in Instances, NEW i \in Pairs, Tell(s, i)
  PROVE  Kept
<1> USE DEF Kept, ConfirmedInv, Is, Free, Acts
<1> job[s] \in Jobs
  BY DEF TypeOK
<1> DEFINE v == [job[s] EXCEPT !.ending = {i}]
<1>1. Took(s, v) /\ peerStored' = peerStored /\ paired' = paired /\ ended' = ended /\ s \notin writing
  <2>1. Becomes(s, v) /\ peerStored' = peerStored /\ paired' = paired /\ ended' = ended /\ s \notin writing
    BY DEF Tell
  <2>2. v \in Jobs
    BY DEF Tasks, Jobs, Resting, Ending
  <2>3. v.task = "telling" /\ v.ending = {i}
    BY DEF Jobs, Resting, Ending, Tell
  <2> QED
    BY <2>1, <2>2, <2>3 DEF Took, Loads, Quiet, QuietEndsNone
<1>2. v.ending # {} => v.ending = {i} /\ "revoke" \in {"remove", "forget", "revoke"}
  BY DEF Ending, Resting, Quiet, Tell, ForgetAct, QuietEndsNone
<1> HIDE DEF v
<1>3. CASE Begin(s, "revoke", i)
  BY <1>1, <1>2, <1>3, AfterBegin DEF ForgetAct
<1>4. CASE BeginFails(s, "revoke", i)
  <2>1. /\ SetsTypeOK' /\ CountsTypeOK' /\ file' = file /\ writing' = writing /\ next' = next
        /\ \A t \in Instances : mem'[t] = mem[t] \/ mem'[t] = file
    BY <1>4, BeginFailsFacts DEF TypeOK, ForgetAct
  <2> QED
    BY <1>1, <2>1, AfterRead DEF TypeOK, HistoryTypeOK
<1> QED
  BY <1>3, <1>4 DEF Tell

\* A load reads the file and ends nothing.
LEMMA LoadKeeps ==
  ASSUME ConfirmedInv, StoreAssumption, NEW s \in Instances, Load(s)
  PROVE  Kept
<1> USE DEF Kept, ConfirmedInv, Is, Free, Acts
<1> job[s] \in Jobs
  BY DEF TypeOK
<1> DEFINE unconfirmed == {i \in Pairs : file[i] = "unconfirmed"}
           v == [Resting("removing") EXCEPT !.left = unconfirmed, !.changed = unconfirmed]
<1>1. Took(s, v)
  <2>1. Becomes(s, v)
    BY DEF Load
  <2>2. v \in Jobs /\ v.task = "removing" /\ v.ending = {}
    BY DEF Tasks, Jobs, Resting
  <2>3. mem'[s] = file
    BY DEF Load, TypeOK, SetsTypeOK
  <2> QED
    BY <2>1, <2>2, <2>3 DEF Took, Loads, Quiet
<1> HIDE DEF v
<1>2. s \notin writing
  BY DEF Load
<1>3. peerStored' = peerStored /\ paired' = paired /\ ended' = ended
  BY DEF Load
<1>4. /\ SetsTypeOK' /\ CountsTypeOK' /\ file' = file /\ writing' = writing /\ next' = next
      /\ \A t \in Instances : mem'[t] = mem[t] \/ mem'[t] = file
  BY DEF Load, TypeOK, SetsTypeOK, CountsTypeOK, counts
<1> QED
  BY <1>1, <1>2, <1>3, <1>4, AfterRead DEF TypeOK, HistoryTypeOK

\* A load that cannot read changes no set.
LEMMA LoadUnreadableKeeps ==
  ASSUME ConfirmedInv, StoreAssumption, NEW s \in Instances, LoadUnreadable(s)
  PROVE  Kept
<1> USE DEF Kept, ConfirmedInv, Is, Free, Acts
<1> job[s] \in Jobs
  BY DEF TypeOK
<1>1. Took(s, Resting("unloaded"))
  <2>1. Becomes(s, Resting("unloaded"))
    BY DEF LoadUnreadable
  <2>2. Resting("unloaded") \in Jobs
    BY DEF Tasks, Jobs, Resting, Ending, Onward
  <2>3. (Resting("unloaded")).task = "unloaded" /\ (Resting("unloaded")).ending = {}
    BY DEF Jobs, Resting, Ending, Onward, LoadUnreadable
  <2> QED
    BY <2>1, <2>2, <2>3 DEF Took, Loads, Quiet, QuietEndsNone
<1>2. peerStored' = peerStored /\ paired' = paired /\ ended' = ended /\ s \notin writing
  BY DEF LoadUnreadable
<1>3. /\ SetsTypeOK' /\ CountsTypeOK' /\ file' = file /\ writing' = writing /\ next' = next
      /\ mem' = mem
  BY DEF LoadUnreadable, BeginUnreadable, TypeOK, SetsTypeOK, CountsTypeOK, StoreAssumption
<1> QED
  BY <1>1, <1>2, <1>3, AfterRead DEF TypeOK, HistoryTypeOK

\* Collecting the expired notices changes no set.
LEMMA FindExpiredKeeps ==
  ASSUME ConfirmedInv, StoreAssumption, NEW s \in Instances, NEW expired \in SUBSET Pairs, FindExpired(s, expired)
  PROVE  Kept
<1> USE DEF Kept, ConfirmedInv, Is, Free, Acts
<1> job[s] \in Jobs
  BY DEF TypeOK
<1>1. Took(s, [job[s] EXCEPT !.task = "expiring", !.left = expired, !.changed = @ \cup expired])
  <2>1. Becomes(s, [job[s] EXCEPT !.task = "expiring", !.left = expired, !.changed = @ \cup expired])
    BY DEF FindExpired
  <2>2. [job[s] EXCEPT !.task = "expiring", !.left = expired, !.changed = @ \cup expired] \in Jobs
    BY DEF Tasks, Jobs, Resting, Ending, Onward
  <2>3. ([job[s] EXCEPT !.task = "expiring", !.left = expired, !.changed = @ \cup expired]).task = "expiring" /\ ([job[s] EXCEPT !.task = "expiring", !.left = expired, !.changed = @ \cup expired]).ending = job[s].ending
    BY DEF Jobs, Resting, Ending, Onward, FindExpired
  <2>4. job[s].task = "removing"
    BY DEF FindExpired
  <2> QED
    BY <2>1, <2>2, <2>3, <2>4 DEF Took, Loads, Quiet, QuietEndsNone
<1>2. peerStored' = peerStored /\ paired' = paired /\ ended' = ended /\ s \notin writing
  BY DEF FindExpired
<1>3. /\ SetsTypeOK' /\ CountsTypeOK' /\ file' = file /\ writing' = writing /\ next' = next
      /\ \A t \in Instances : mem'[t] = mem[t] \/ mem'[t] = file
  BY DEF FindExpired, TypeOK, SetsTypeOK, CountsTypeOK, counts
<1> QED
  BY <1>1, <1>2, <1>3, AfterRead DEF TypeOK, HistoryTypeOK

\* load's last write sends out the copy as it is.
LEMMA LoadPersistsKeeps ==
  ASSUME ConfirmedInv, StoreAssumption, NEW s \in Instances, LoadPersists(s)
  PROVE  Kept
<1> USE DEF Kept, ConfirmedInv, Is, Free, Acts
<1> job[s] \in Jobs
  BY DEF TypeOK
<1>1. CASE job[s].changed # {}
  <2>1. Took(s, Resting("persisting"))
    BY <1>1 DEF Took, Loads, LoadPersists, Resting, Jobs, Tasks, Quiet
  <2>2. /\ file' = file /\ mem' = mem /\ writing' = writing \cup {s}
        /\ next' = [next EXCEPT ![s] = mem[s]]
        /\ peerStored' = peerStored /\ paired' = paired /\ ended' = ended
        /\ SetsTypeOK' /\ CountsTypeOK'
    BY <1>1 DEF LoadPersists, TypeOK, SetsTypeOK, CountsTypeOK, counts
  <2>3. /\ job' \in [Instances -> Jobs]
        /\ job'[s] = Resting("persisting")
        /\ \A t \in Instances : t # s => job'[t] = job[t]
        /\ Told'
        /\ QuietEndsNone'
    BY <2>1, <2>2, TookFacts
  <2>4. next'[s] = mem[s] /\ \A t \in Instances : t # s => next'[t] = next[t]
    BY <2>2 DEF TypeOK, SetsTypeOK
  <2>5. TypeOK' /\ Backed'
    BY <2>2, <2>3, <2>4 DEF TypeOK, HistoryTypeOK, Backed
  <2>6. ASSUME EndedInv PROVE EndedInv'
    <3>1. EndedOver'
      BY <2>2, <2>3, <2>4, <2>6 DEF EndedInv, EndedOver, Busy, Loads, LoadPersists, TypeOK, SetsTypeOK
    <3>2. Resting("persisting").ending = {}
      BY DEF Resting
    <3>3. EndingOver'
      BY <2>2, <2>3, <2>4, <2>6, <3>2 DEF EndedInv, EndingOver, TypeOK, SetsTypeOK
    <3> QED
      BY <3>1, <3>3 DEF EndedInv
  <2> QED
    BY <2>3, <2>5, <2>6
<1>2. CASE job[s].changed = {}
  <2>1. Took(s, Resting("loaded"))
    BY <1>2 DEF Took, Loads, LoadPersists, Resting, Jobs, Tasks, Quiet
  <2>2. /\ peerStored' = peerStored /\ paired' = paired /\ ended' = ended /\ s \notin writing
        /\ SetsTypeOK' /\ CountsTypeOK' /\ file' = file /\ writing' = writing /\ next' = next
        /\ mem' = mem
    BY <1>2 DEF LoadPersists, TypeOK, SetsTypeOK, CountsTypeOK, counts
  <2> QED
    BY <2>1, <2>2, AfterRead DEF TypeOK, HistoryTypeOK
<1> QED
  BY <1>1, <1>2

\* The writes of a load.
LEMMA LoadWritesKeeps ==
  ASSUME ConfirmedInv, StoreAssumption, NEW s \in Instances, LoadWrites(s)
  PROVE  Kept
<1> USE DEF Kept, ConfirmedInv, Is, Free, Acts
<1> job[s] \in Jobs
  BY DEF TypeOK
<1>1. CASE Renamed(s) /\ job' = job /\ paired' = paired
  <2>1. peerStored' = peerStored
    BY <1>1 DEF Renamed
  <2>2. Took(s, job[s])
    BY <1>1, <2>1, KeptJob
  <2> QED
    BY <1>1, <2>2, AfterRename DEF TypeOK, HistoryTypeOK
<1>2. CASE WriteRefused(s) /\ job' = job /\ paired' = paired
  <2>1. peerStored' = peerStored
    BY <1>2 DEF WriteRefused
  <2>2. Took(s, job[s])
    BY <1>2, <2>1, KeptJob
  <2> QED
    BY <1>2, <2>2, AfterRefused DEF TypeOK, HistoryTypeOK
<1>3. CASE Renamed(s) /\ Becomes(s, Resting("loaded")) /\ paired' \subseteq Pairs
  <2>1. Took(s, Resting("loaded"))
    BY <1>3 DEF Took, Loads, Resting, Jobs, Tasks, Quiet
  <2> QED
    BY <1>3, <2>1, AfterRename
<1>4. CASE WriteRefused(s) /\ Becomes(s, Resting("unloaded")) /\ paired' = paired
  <2>1. Took(s, Resting("unloaded"))
    BY <1>4 DEF Took, Loads, Resting, Jobs, Tasks, Quiet
  <2> QED
    BY <1>4, <2>1, AfterRefused
<1> QED
  BY <1>1, <1>2, <1>3, <1>4 DEF LoadWrites, Rests, TypeOK, HistoryTypeOK

\* The ceremony goes on once its record is written.
LEMMA InsertWrittenKeeps ==
  ASSUME ConfirmedInv, StoreAssumption, NEW s \in Instances, InsertWritten(s)
  PROVE  Kept
<1> USE DEF Kept, ConfirmedInv, Is, Free, Acts
<1> job[s] \in Jobs
  BY DEF TypeOK
<1>1. CASE Renamed(s) /\ Becomes(s, [job[s] EXCEPT !.task = "await"]) /\ paired' = paired /\ job[s].task = "insert"
  <2>1. ([job[s] EXCEPT !.task = "await"]) \in Jobs /\ ([job[s] EXCEPT !.task = "await"]).task = "await" /\ ([job[s] EXCEPT !.task = "await"]).ending = job[s].ending
    BY DEF Jobs, Tasks
  <2>2. Took(s, [job[s] EXCEPT !.task = "await"])
    BY <1>1, <2>1 DEF Took, Loads, Quiet, QuietEndsNone
  <2> QED
    BY <1>1, <2>2, AfterRename DEF TypeOK, HistoryTypeOK
<1>2. CASE WriteRefused(s) /\ Becomes(s, Resting("idle")) /\ paired' = paired
  <2>1. Took(s, Resting("idle"))
    BY <1>2 DEF Took, Loads, Resting, Jobs, Tasks, Quiet
  <2> QED
    BY <1>2, <2>1, AfterRefused
<1> QED
  BY <1>1, <1>2 DEF InsertWritten, Rests

\* The record of a new pairing is stored unconfirmed, so it does not serve.
LEMMA InsertKeeps ==
  ASSUME ConfirmedInv, StoreAssumption, NEW s \in Instances, NEW i \in Pairs, Insert(s, i)
  PROVE  Kept
<1> USE DEF Kept, ConfirmedInv, Is, Free, Acts
<1> job[s] \in Jobs
  BY DEF TypeOK
<1> DEFINE v == [Resting("insert") EXCEPT !.about = {i}]
<1>1. peerStored' = peerStored /\ paired' = paired /\ ended' = ended /\ s \notin writing /\ i \notin ended
  BY DEF Insert
<1>2. CASE Begin(s, "insert", i) /\ Becomes(s, v)
  <2>1. v \in Jobs /\ v.task = "insert" /\ v.ending = {}
    BY DEF Jobs, Tasks, Resting
  <2>2. Took(s, v)
    BY <1>2, <2>1 DEF Took, Loads
  <2> HIDE DEF v
  <2> QED
    BY <1>1, <1>2, <2>1, <2>2, AfterBegin
<1>3. CASE BeginUnreadable(s) /\ job' = job
  <2>1. Took(s, job[s])
    BY <1>1, <1>3, KeptJob
  <2>2. /\ SetsTypeOK' /\ CountsTypeOK' /\ file' = file /\ writing' = writing /\ next' = next
        /\ mem' = mem
    BY <1>3 DEF BeginUnreadable, TypeOK, SetsTypeOK, CountsTypeOK, StoreAssumption
  <2> QED
    BY <1>1, <2>1, <2>2, AfterRead DEF TypeOK, HistoryTypeOK
<1> QED
  BY <1>2, <1>3 DEF Insert

\* The phone stored its record: the ceremony may confirm its own.
LEMMA PeerStoresKeeps ==
  ASSUME ConfirmedInv, StoreAssumption, NEW s \in Instances, PeerStores(s)
  PROVE  Kept
<1> USE DEF Kept, ConfirmedInv, Is, Free, Acts
<1> job[s] \in Jobs
  BY DEF TypeOK
<1> DEFINE v == [job[s] EXCEPT !.task = "confirm"]
<1>1. /\ Becomes(s, v) /\ s \notin writing /\ job[s].task = "await"
      /\ paired' = paired /\ ended' = ended /\ peerStored \subseteq peerStored'
      /\ peerStored' \subseteq peerStored \cup job[s].about
  BY DEF PeerStores
<1>2. /\ v \in Jobs /\ v.task = "confirm" /\ v.ending = job[s].ending /\ v.about = job[s].about
      /\ job[s].about \subseteq Pairs
  BY DEF Jobs, Tasks
<1>3. v.task = "confirm" => v.about \subseteq peerStored'
  BY <1>2 DEF PeerStores
<1> HIDE DEF v
<1>4. Took(s, v)
  BY <1>1, <1>2, <1>3 DEF Took, Loads, Quiet, QuietEndsNone
<1>5. /\ SetsTypeOK' /\ CountsTypeOK' /\ file' = file /\ writing' = writing /\ next' = next
      /\ mem' = mem
  BY DEF PeerStores, TypeOK, SetsTypeOK, CountsTypeOK, counts
<1>6. peerStored' \subseteq Pairs
  BY <1>1, <1>2 DEF TypeOK, HistoryTypeOK
<1> QED
  BY <1>1, <1>4, <1>5, <1>6, AfterRead

\* The phone's confirmation did not come: the ceremony undoes.
LEMMA PeerFailsKeeps ==
  ASSUME ConfirmedInv, StoreAssumption, NEW s \in Instances, PeerFails(s)
  PROVE  Kept
<1> USE DEF Kept, ConfirmedInv, Is, Free, Acts
<1> job[s] \in Jobs
  BY DEF TypeOK
<1> DEFINE v == [job[s] EXCEPT !.task = "undo"]
<1>1. /\ Becomes(s, v) /\ s \notin writing /\ job[s].task = "await"
      /\ paired' = paired /\ ended' = ended /\ peerStored \subseteq peerStored'
      /\ peerStored' \subseteq peerStored \cup job[s].about
  BY DEF PeerFails
<1>2. /\ v \in Jobs /\ v.task = "undo" /\ v.ending = job[s].ending /\ v.about = job[s].about
      /\ job[s].about \subseteq Pairs
  BY DEF Jobs, Tasks
<1>3. v.task = "confirm" => v.about \subseteq peerStored'
  BY <1>2 DEF PeerFails
<1> HIDE DEF v
<1>4. Took(s, v)
  BY <1>1, <1>2, <1>3 DEF Took, Loads, Quiet, QuietEndsNone
<1>5. /\ SetsTypeOK' /\ CountsTypeOK' /\ file' = file /\ writing' = writing /\ next' = next
      /\ mem' = mem
  BY DEF PeerFails, TypeOK, SetsTypeOK, CountsTypeOK, counts
<1>6. peerStored' \subseteq Pairs
  BY <1>1, <1>2 DEF TypeOK, HistoryTypeOK
<1> QED
  BY <1>1, <1>4, <1>5, <1>6, AfterRead

\* The record is confirmed only after the phone stored its own.
LEMMA ConfirmKeeps ==
  ASSUME ConfirmedInv, StoreAssumption, NEW s \in Instances, Confirm(s)
  PROVE  Kept
<1> USE DEF Kept, ConfirmedInv, Is, Free, Acts
<1> job[s] \in Jobs
  BY DEF TypeOK
<1> DEFINE v == [job[s] EXCEPT !.task = "undo"]
<1>1. peerStored' = peerStored /\ paired' = paired /\ ended' = ended /\ s \notin writing /\ job[s].task = "confirm"
  BY DEF Confirm
<1>2. job[s].about \subseteq Pairs /\ job[s].about \subseteq peerStored /\ job[s].ending = {}
  BY <1>1 DEF Jobs, Told, Quiet, QuietEndsNone
<1>3. PICK i \in job[s].about :
        \/ Begin(s, "confirm", i) /\ job' = job
        \/ BeginFails(s, "confirm", i) /\ Becomes(s, v)
  BY DEF Confirm
<1>4. i \in Pairs /\ i \in peerStored
  BY <1>2
<1>5. CASE Begin(s, "confirm", i) /\ job' = job
  <2>1. Took(s, job[s])
    BY <1>1, <1>5, KeptJob
  <2> QED
    BY <1>1, <1>2, <1>4, <1>5, <2>1, AfterBegin
<1>6. CASE BeginFails(s, "confirm", i) /\ Becomes(s, v)
  <2>1. v \in Jobs /\ v.task = "undo"
    BY DEF Jobs, Tasks
  <2>2. Took(s, v)
    BY <1>6, <2>1 DEF Took, Loads, Quiet
  <2> HIDE DEF v
  <2>3. /\ SetsTypeOK' /\ CountsTypeOK' /\ file' = file /\ writing' = writing /\ next' = next
        /\ \A t \in Instances : mem'[t] = mem[t] \/ mem'[t] = file
    BY <1>4, <1>6, BeginFailsFacts DEF TypeOK
  <2> QED
    BY <1>1, <2>2, <2>3, AfterRead DEF TypeOK, HistoryTypeOK
<1> QED
  BY <1>3, <1>5, <1>6

\* The confirmation is written, or the ceremony undoes.
LEMMA ConfirmWrittenKeeps ==
  ASSUME ConfirmedInv, StoreAssumption, NEW s \in Instances, ConfirmWritten(s)
  PROVE  Kept
<1> USE DEF Kept, ConfirmedInv, Is, Free, Acts
<1> job[s] \in Jobs
  BY DEF TypeOK
<1> DEFINE v == [job[s] EXCEPT !.task = "undo"]
<1>1. v \in Jobs /\ v.task = "undo" /\ job[s].about \subseteq Pairs
  BY DEF Jobs, Tasks
<1>2. CASE Renamed(s) /\ Becomes(s, Resting("idle")) /\ paired' = paired \cup job[s].about
  <2>1. Took(s, Resting("idle"))
    BY <1>2 DEF Took, Loads, Resting, Jobs, Tasks, Quiet
  <2> QED
    BY <1>1, <1>2, <2>1, AfterRename DEF TypeOK, HistoryTypeOK
<1>3. CASE Renamed(s) /\ Becomes(s, v) /\ paired' = paired
  <2>1. Took(s, v)
    BY <1>1, <1>3 DEF Took, Loads, Quiet
  <2> HIDE DEF v
  <2> QED
    BY <1>3, <2>1, AfterRename DEF TypeOK, HistoryTypeOK
<1>4. CASE WriteRefused(s) /\ Becomes(s, v) /\ paired' = paired
  <2>1. Took(s, v)
    BY <1>1, <1>4 DEF Took, Loads, Quiet
  <2> HIDE DEF v
  <2> QED
    BY <1>4, <2>1, AfterRefused
<1> QED
  BY <1>2, <1>3, <1>4 DEF ConfirmWritten, Rests

\* The record of a ceremony that failed is removed.
LEMMA UndoKeeps ==
  ASSUME ConfirmedInv, StoreAssumption, NEW s \in Instances, Undo(s)
  PROVE  Kept
<1> USE DEF Kept, ConfirmedInv, Is, Free, Acts
<1> job[s] \in Jobs
  BY DEF TypeOK
<1>1. peerStored' = peerStored /\ paired' = paired /\ ended' = ended /\ s \notin writing
  BY DEF Undo
<1>2. Took(s, Resting("change")) /\ Resting("change").ending = {}
  BY DEF Undo, Took, Loads, Resting, Jobs, Tasks, Quiet
<1>3. PICK i \in job[s].about : Begin(s, "remove", i) \/ BeginFails(s, "remove", i)
  BY DEF Undo
<1>4. i \in Pairs
  BY DEF Jobs
<1>5. CASE Begin(s, "remove", i)
  BY <1>1, <1>2, <1>4, <1>5, AfterBegin
<1>6. CASE BeginFails(s, "remove", i)
  <2>1. /\ SetsTypeOK' /\ CountsTypeOK' /\ file' = file /\ writing' = writing /\ next' = next
        /\ \A t \in Instances : mem'[t] = mem[t] \/ mem'[t] = file
    BY <1>4, <1>6, BeginFailsFacts DEF TypeOK
  <2> QED
    BY <1>1, <1>2, <2>1, AfterRead DEF TypeOK, HistoryTypeOK
<1> QED
  BY <1>3, <1>5, <1>6

\* The idle expiry revokes one record in the set it writes.
LEMMA IdleExpiresKeeps ==
  ASSUME ConfirmedInv, StoreAssumption, NEW s \in Instances, NEW i \in Pairs, IdleExpires(s, i)
  PROVE  Kept
<1> USE DEF Kept, ConfirmedInv, Is, Free, Acts
<1> job[s] \in Jobs
  BY DEF TypeOK
<1>1. /\ file' = file /\ mem' = [mem EXCEPT ![s] = file]
      /\ next' = [next EXCEPT ![s] = [file EXCEPT ![i] = "revoked"]]
      /\ writing' = writing \cup {s} /\ unread' = unread \ {s}
      /\ refused' = refused /\ unreadable' = unreadable /\ crashes' = crashes
      /\ peerStored' = peerStored /\ paired' = paired /\ ended' = ended
  BY DEF IdleExpires, counts
<1>2. Took(s, Ending(i)) /\ Ending(i).ending = {i}
  BY DEF IdleExpires, Took, Loads, Ending, Resting, Jobs, Tasks, Quiet
<1>3. /\ job' \in [Instances -> Jobs]
      /\ job'[s] = Ending(i) /\ \A t \in Instances : t # s => job'[t] = job[t]
      /\ Told'
      /\ QuietEndsNone'
  BY <1>1, <1>2, TookFacts
<1>4. [file EXCEPT ![i] = "revoked"] \in Sets
  BY DEF TypeOK, SetsTypeOK, Sets, States
<1>5. SetsTypeOK' /\ CountsTypeOK'
  BY <1>1, <1>4 DEF TypeOK, SetsTypeOK, CountsTypeOK
<1>6. /\ mem'[s] = file /\ \A t \in Instances : t # s => mem'[t] = mem[t] /\ next'[t] = next[t]
      /\ \A j \in Pairs : next'[s][j] = IF j = i THEN "revoked" ELSE file[j]
  BY <1>1 DEF TypeOK, SetsTypeOK, Sets
<1>7. TypeOK' /\ Backed'
  BY <1>1, <1>3, <1>5, <1>6 DEF TypeOK, HistoryTypeOK, Backed
<1>8. ASSUME EndedInv PROVE EndedInv'
  <2>1. ended \subseteq Pairs
    BY DEF TypeOK, HistoryTypeOK
  <2>2. EndedOver'
    BY <1>1, <1>2, <1>3, <1>6, <1>8, <2>1 DEF EndedInv, EndedOver, Over, Busy, TypeOK, SetsTypeOK
  <2>3. EndingOver'
    BY <1>1, <1>2, <1>3, <1>6, <1>8 DEF EndedInv, EndingOver, Over, OneInstance, TypeOK, SetsTypeOK
  <2> QED
    BY <2>2, <2>3 DEF EndedInv
<1> QED
  BY <1>3, <1>7, <1>8

\* The write of one change.
LEMMA ChangeWrittenKeeps ==
  ASSUME ConfirmedInv, StoreAssumption, NEW s \in Instances, ChangeWritten(s)
  PROVE  Kept
<1> USE DEF Kept, ConfirmedInv, Is, Free, Acts
<1> job[s] \in Jobs
  BY DEF TypeOK
<1>1. Took(s, Resting("idle"))
  BY DEF ChangeWritten, Rests, Took, Loads, Resting, Jobs, Tasks, Quiet
<1>2. CASE Renamed(s) /\ paired' = paired
  BY <1>1, <1>2, AfterRename DEF TypeOK, HistoryTypeOK
<1>3. CASE WriteRefused(s) /\ paired' = paired
  BY <1>1, <1>3, AfterRefused
<1>4. CASE /\ s \notin writing
           /\ UNCHANGED <<file, mem, next, writing, unread, counts, peerStored, paired, ended>>
  <2>1. SetsTypeOK' /\ CountsTypeOK' /\ mem' = mem /\ peerStored' = peerStored
    BY <1>4 DEF TypeOK, SetsTypeOK, CountsTypeOK, counts
  <2> QED
    BY <1>1, <1>4, <2>1, AfterRead DEF TypeOK, HistoryTypeOK
<1> QED
  BY <1>2, <1>3, <1>4 DEF ChangeWritten

\* Collecting what is to be forgotten changes no set.
LEMMA ForgetEveryKeeps ==
  ASSUME ConfirmedInv, StoreAssumption, NEW s \in Instances, ForgetEvery(s)
  PROVE  Kept
<1> USE DEF Kept, ConfirmedInv, Is, Free, Acts
<1> job[s] \in Jobs
  BY DEF TypeOK
<1>1. Took(s, [Resting("forget_all") EXCEPT !.left = Present(mem[s])])
  <2>1. Becomes(s, [Resting("forget_all") EXCEPT !.left = Present(mem[s])])
    BY DEF ForgetEvery
  <2>2. [Resting("forget_all") EXCEPT !.left = Present(mem[s])] \in Jobs
    BY DEF Tasks, Jobs, Resting, Present
  <2>3. ([Resting("forget_all") EXCEPT !.left = Present(mem[s])]).task = "forget_all" /\ ([Resting("forget_all") EXCEPT !.left = Present(mem[s])]).ending = {}
    BY DEF Jobs, Resting, Ending, Onward, ForgetEvery
  <2> QED
    BY <2>1, <2>2, <2>3 DEF Took, Loads, Quiet, QuietEndsNone
<1>2. peerStored' = peerStored /\ paired' = paired /\ ended' = ended /\ s \notin writing
  BY DEF ForgetEvery
<1>3. /\ SetsTypeOK' /\ CountsTypeOK' /\ file' = file /\ writing' = writing /\ next' = next
      /\ \A t \in Instances : mem'[t] = mem[t] \/ mem'[t] = file
  BY DEF ForgetEvery, TypeOK, SetsTypeOK, CountsTypeOK, counts
<1> QED
  BY <1>1, <1>2, <1>3, AfterRead DEF TypeOK, HistoryTypeOK

\* Collecting what is to be cleared changes no set.
LEMMA ClearRevokedKeeps ==
  ASSUME ConfirmedInv, StoreAssumption, NEW s \in Instances, ClearRevoked(s)
  PROVE  Kept
<1> USE DEF Kept, ConfirmedInv, Is, Free, Acts
<1> job[s] \in Jobs
  BY DEF TypeOK
<1>1. Took(s, [Resting("clear") EXCEPT !.left = Present(mem[s])])
  <2>1. Becomes(s, [Resting("clear") EXCEPT !.left = Present(mem[s])])
    BY DEF ClearRevoked
  <2>2. [Resting("clear") EXCEPT !.left = Present(mem[s])] \in Jobs
    BY DEF Tasks, Jobs, Resting, Present
  <2>3. ([Resting("clear") EXCEPT !.left = Present(mem[s])]).task = "clear" /\ ([Resting("clear") EXCEPT !.left = Present(mem[s])]).ending = {}
    BY DEF Jobs, Resting, Ending, Onward, ClearRevoked
  <2> QED
    BY <2>1, <2>2, <2>3 DEF Took, Loads, Quiet, QuietEndsNone
<1>2. peerStored' = peerStored /\ paired' = paired /\ ended' = ended /\ s \notin writing
  BY DEF ClearRevoked
<1>3. /\ SetsTypeOK' /\ CountsTypeOK' /\ file' = file /\ writing' = writing /\ next' = next
      /\ \A t \in Instances : mem'[t] = mem[t] \/ mem'[t] = file
  BY DEF ClearRevoked, TypeOK, SetsTypeOK, CountsTypeOK, counts
<1> QED
  BY <1>1, <1>2, <1>3, AfterRead DEF TypeOK, HistoryTypeOK

\* One forget of the loop.
LEMMA ForgetNextKeeps ==
  ASSUME ConfirmedInv, StoreAssumption, NEW s \in Instances, NEW i \in Pairs, ForgetNext(s, i)
  PROVE  Kept
<1> USE DEF Kept, ConfirmedInv, Is, Free, Acts
<1> job[s] \in Jobs
  BY DEF TypeOK
<1> DEFINE v == Onward(s, i)
           act == ForgetAct(mem[s][i])
<1>1. peerStored' = peerStored /\ paired' = paired /\ ended' = ended /\ s \notin writing /\ job[s].task = "forget_all"
  BY DEF ForgetNext
<1>2. v \in Jobs /\ v.task = "forget_all" /\ v.ending = {i}
  BY <1>1 DEF Onward, Jobs
<1>3. act \in {"forget", "remove"}
  BY DEF ForgetAct
<1>4. Becomes(s, v) => Took(s, v)
  BY <1>2 DEF Took, Loads, Quiet
<1>5. Rests(s) => Took(s, Resting("idle"))
  BY DEF Rests, Took, Loads, Quiet, Resting, Jobs, Tasks
<1>6. /\ Becomes(s, v) \/ Rests(s)
      /\ \/ UNCHANGED <<file, mem, next, writing, unread, counts>>
         \/ Begin(s, act, i) /\ Becomes(s, v)
         \/ BeginFails(s, act, i)
  BY DEF ForgetNext
<1> HIDE DEF v, act
<1>7. CASE UNCHANGED <<file, mem, next, writing, unread, counts>>
  <2>1. /\ SetsTypeOK' /\ CountsTypeOK' /\ file' = file /\ writing' = writing /\ next' = next
        /\ \A t \in Instances : mem'[t] = mem[t] \/ mem'[t] = file
    BY <1>7 DEF TypeOK, SetsTypeOK, CountsTypeOK, counts
  <2> QED
    BY <1>1, <1>4, <1>5, <1>6, <2>1, AfterRead DEF TypeOK, HistoryTypeOK
<1>8. CASE Begin(s, act, i) /\ Becomes(s, v)
  BY <1>1, <1>2, <1>3, <1>4, <1>8, AfterBegin
<1>9. CASE BeginFails(s, act, i)
  <2>1. /\ SetsTypeOK' /\ CountsTypeOK' /\ file' = file /\ writing' = writing /\ next' = next
        /\ \A t \in Instances : mem'[t] = mem[t] \/ mem'[t] = file
    BY <1>3, <1>9, BeginFailsFacts DEF TypeOK
  <2> QED
    BY <1>1, <1>4, <1>5, <1>6, <2>1, AfterRead DEF TypeOK, HistoryTypeOK
<1> QED
  BY <1>6, <1>7, <1>8, <1>9

\* One removal of the loop.
LEMMA ClearNextKeeps ==
  ASSUME ConfirmedInv, StoreAssumption, NEW s \in Instances, NEW i \in Pairs, ClearNext(s, i)
  PROVE  Kept
<1> USE DEF Kept, ConfirmedInv, Is, Free, Acts
<1> job[s] \in Jobs
  BY DEF TypeOK
<1> DEFINE v == Onward(s, i)
<1>1. peerStored' = peerStored /\ paired' = paired /\ ended' = ended /\ s \notin writing /\ job[s].task = "clear" /\ Becomes(s, v)
  BY DEF ClearNext
<1>2. v \in Jobs /\ v.task = "clear" /\ v.ending = {i}
  BY <1>1 DEF Onward, Jobs
<1> HIDE DEF v
<1>3. Took(s, v)
  BY <1>1, <1>2 DEF Took, Loads, Quiet
<1>4. CASE UNCHANGED <<file, mem, next, writing, unread, counts>>
  <2>1. /\ SetsTypeOK' /\ CountsTypeOK' /\ file' = file /\ writing' = writing /\ next' = next
        /\ \A t \in Instances : mem'[t] = mem[t] \/ mem'[t] = file
    BY <1>4 DEF TypeOK, SetsTypeOK, CountsTypeOK, counts
  <2> QED
    BY <1>1, <1>3, <2>1, AfterRead DEF TypeOK, HistoryTypeOK
<1>5. CASE Begin(s, "remove", i)
  BY <1>1, <1>2, <1>3, <1>5, AfterBegin
<1>6. CASE BeginFails(s, "remove", i)
  <2>1. /\ SetsTypeOK' /\ CountsTypeOK' /\ file' = file /\ writing' = writing /\ next' = next
        /\ \A t \in Instances : mem'[t] = mem[t] \/ mem'[t] = file
    BY <1>6, BeginFailsFacts DEF TypeOK
  <2> QED
    BY <1>1, <1>3, <2>1, AfterRead DEF TypeOK, HistoryTypeOK
<1> QED
  BY <1>4, <1>5, <1>6 DEF ClearNext

\* The writes of the loops.
LEMMA LoopWritesKeeps ==
  ASSUME ConfirmedInv, StoreAssumption, NEW s \in Instances, LoopWrites(s)
  PROVE  Kept
<1> USE DEF Kept, ConfirmedInv, Is, Free, Acts
<1> job[s] \in Jobs
  BY DEF TypeOK
<1>1. CASE Renamed(s) /\ job' = job /\ paired' = paired
  <2>1. peerStored' = peerStored
    BY <1>1 DEF Renamed
  <2>2. Took(s, job[s])
    BY <1>1, <2>1, KeptJob
  <2> QED
    BY <1>1, <2>2, AfterRename DEF TypeOK, HistoryTypeOK
<1>2. CASE WriteRefused(s) /\ job' = job /\ paired' = paired
  <2>1. peerStored' = peerStored
    BY <1>2 DEF WriteRefused
  <2>2. Took(s, job[s])
    BY <1>2, <2>1, KeptJob
  <2> QED
    BY <1>2, <2>2, AfterRefused DEF TypeOK, HistoryTypeOK
<1>3. CASE WriteRefused(s) /\ Becomes(s, Resting("idle")) /\ paired' = paired
  <2>1. Took(s, Resting("idle"))
    BY <1>3 DEF Took, Loads, Resting, Jobs, Tasks, Quiet
  <2> QED
    BY <1>3, <2>1, AfterRefused
<1> QED
  BY <1>1, <1>2, <1>3 DEF LoopWrites, Rests, TypeOK, HistoryTypeOK

\* Deleting the set takes pairings away and brings none back.
LEMMA LoopEndsKeeps ==
  ASSUME ConfirmedInv, StoreAssumption, NEW s \in Instances, LoopEnds(s)
  PROVE  Kept
<1> USE DEF Kept, ConfirmedInv, Is, Free, Acts
<1> job[s] \in Jobs
  BY DEF TypeOK
<1>1. \/ Took(s, Resting("telling"))
      \/ Took(s, Resting("idle"))
  BY DEF LoopEnds, Rests, Took, Loads, Quiet, Resting, Jobs, Tasks
<1>2. PICK v : Took(s, v) /\ v.task \notin Loads
  BY <1>1 DEF Resting, Loads
<1>3. /\ mem' = mem /\ next' = next /\ writing' = writing /\ unread' = unread
      /\ refused' = refused /\ unreadable' = unreadable /\ crashes' = crashes
      /\ peerStored' = peerStored /\ paired' = paired /\ ended' = ended /\ s \notin writing
  BY DEF LoopEnds, counts
<1>4. file' = file \/ file' = NoRecords
  BY DEF LoopEnds
<1>5. SetsTypeOK' /\ CountsTypeOK'
  BY <1>3, <1>4 DEF TypeOK, SetsTypeOK, CountsTypeOK, NoRecords, Sets, States
<1>6. /\ job' \in [Instances -> Jobs]
      /\ job'[s] = v /\ \A t \in Instances : t # s => job'[t] = job[t]
      /\ Told'
      /\ QuietEndsNone'
  BY <1>2, <1>3, TookFacts
<1>7. TypeOK' /\ Backed'
  BY <1>3, <1>4, <1>5, <1>6 DEF TypeOK, HistoryTypeOK, Backed, NoRecords
<1>8. ASSUME EndedInv PROVE EndedInv'
  <2>1. ended \subseteq Pairs
    BY DEF TypeOK, HistoryTypeOK
  <2>2. EndedOver'
    <3>1. \A t \in Instances : Busy(t)' => Busy(t)
      BY <1>2, <1>3, <1>6 DEF Busy
    <3>2. \A j \in ended : file'[j] \in Over
      BY <1>4, <1>8, <2>1 DEF EndedInv, EndedOver, Over, NoRecords
    <3> QED
      BY <1>3, <1>8, <3>1, <3>2 DEF EndedInv, EndedOver
  <2>3. EndingOver'
    BY <1>3, <1>6, <1>8 DEF EndedInv, EndingOver, TypeOK, SetsTypeOK
  <2> QED
    BY <2>2, <2>3 DEF EndedInv
<1> QED
  BY <1>6, <1>7, <1>8

\* A crash loses what was not written.
LEMMA CrashKeeps ==
  ASSUME ConfirmedInv, StoreAssumption, NEW s \in Instances, Crash(s)
  PROVE  Kept
<1> USE DEF Kept, ConfirmedInv, Is, Free, Acts
<1> job[s] \in Jobs
  BY DEF TypeOK
<1>1. /\ file' = file /\ mem' = mem /\ next' = next /\ writing' = writing \ {s}
      /\ unread' = unread /\ refused' = refused /\ unreadable' = unreadable
      /\ crashes < MaxCrashes /\ crashes' = crashes + 1
      /\ peerStored' = peerStored /\ paired' = paired /\ ended' = ended
  BY DEF Crash
<1>2. Took(s, Resting("unloaded"))
  BY DEF Crash, Took, Loads, Quiet, Resting, Jobs, Tasks
<1>3. /\ job' \in [Instances -> Jobs]
      /\ job'[s] = Resting("unloaded") /\ \A t \in Instances : t # s => job'[t] = job[t]
      /\ Told'
      /\ QuietEndsNone'
  BY <1>1, <1>2, TookFacts
<1>4. SetsTypeOK' /\ CountsTypeOK'
  BY <1>1 DEF TypeOK, SetsTypeOK, CountsTypeOK, StoreAssumption
<1>5. TypeOK' /\ Backed'
  BY <1>1, <1>3, <1>4 DEF TypeOK, HistoryTypeOK, Backed
<1>6. ASSUME EndedInv PROVE EndedInv'
  BY <1>1, <1>3, <1>6 DEF EndedInv, EndedOver, EndingOver, Busy, Loads, Resting, TypeOK, SetsTypeOK
<1> QED
  BY <1>3, <1>5, <1>6

-----------------------------------------------------------------------------
(* The invariants.                                                           *)

\* Before the first load nothing is stored, held or ended.
LEMMA ConfirmedInit == Init => ConfirmedInv /\ EndedInv
<1> SUFFICES ASSUME Init PROVE ConfirmedInv /\ EndedInv
  OBVIOUS
<1> USE DEF Init
<1>1. NoRecords \in Sets /\ \A j \in Pairs : NoRecords[j] = "none"
  BY DEF NoRecords, Sets, States
<1>2. /\ Resting("unloaded") \in Jobs /\ Resting("unloaded").task = "unloaded"
      /\ Resting("unloaded").ending = {}
  BY DEF Resting, Jobs, Tasks
<1>3. TypeOK
  BY <1>1, <1>2, StoreAssumption DEF TypeOK, SetsTypeOK, CountsTypeOK, HistoryTypeOK, StoreAssumption
<1>4. Backed /\ Told /\ QuietEndsNone
  BY <1>1, <1>2 DEF Backed, Told, QuietEndsNone
<1>5. EndedInv
  BY DEF EndedInv, EndedOver, EndingOver
<1> QED
  BY <1>3, <1>4, <1>5 DEF ConfirmedInv

\* Every step keeps both invariants, the second one with one instance.
LEMMA ConfirmedStep == ConfirmedInv /\ [Next]_vars => Kept
<1> SUFFICES ASSUME ConfirmedInv, [Next]_vars PROVE Kept
  OBVIOUS
<1>1. CASE UNCHANGED vars
  <2>1. ConfirmedInv'
    BY <1>1 DEF vars, counts, ConfirmedInv, TypeOK, SetsTypeOK, CountsTypeOK, HistoryTypeOK,
                Backed, Told, QuietEndsNone
  <2>2. EndedInv => EndedInv'
    BY <1>1 DEF vars, EndedInv, EndedOver, EndingOver, Busy
  <2> QED
    BY <2>1, <2>2 DEF Kept
<1>2. CASE Next
  <2>1. PICK s \in Instances : Loading(s) \/ Pairing(s) \/ Changing(s) \/ Looping(s) \/ Crash(s)
    BY <1>2 DEF Next
  <2>2. CASE Loading(s)
    BY <2>2, StoreAssumption, LoadKeeps, LoadUnreadableKeeps, LoadPersistsKeeps, LoadWritesKeeps, RemoveUnconfirmedKeeps, ExpireNoticeKeeps, FindExpiredKeeps
       DEF Loading
  <2>3. CASE Pairing(s)
    BY <2>3, StoreAssumption, InsertKeeps, InsertWrittenKeeps, PeerStoresKeeps, PeerFailsKeeps, ConfirmKeeps, ConfirmWrittenKeeps, UndoKeeps
       DEF Pairing
  <2>4. CASE Changing(s)
    BY <2>4, StoreAssumption, TouchKeeps, RevokeKeeps, IdleExpiresKeeps, ForgetKeeps, ChangeWrittenKeeps
       DEF Changing
  <2>5. CASE Looping(s)
    BY <2>5, StoreAssumption, ForgetEveryKeeps, ClearRevokedKeeps, LoopWritesKeeps, LoopEndsKeeps, ForgetNextKeeps, TellKeeps, ClearNextKeeps
       DEF Looping
  <2>6. CASE Crash(s)
    BY <2>6, StoreAssumption, CrashKeeps
  <2> QED
    BY <2>1, <2>2, <2>3, <2>4, <2>5, <2>6
<1> QED
  BY <1>1, <1>2

-----------------------------------------------------------------------------
(* With one instance the file follows the life of each pairing.              *)

\* A set that differs from the file in one record at most.
OneOff(set) == \A i, j \in Pairs : set[i] # file[i] /\ set[j] # file[j] => i = j

\* The file knows a pairing as over only once it was ended.
EndsKnown == \A i \in Pairs : file[i] \in {"forgotten", "revoked"} => i \in ended

\* The copy held here is the file's set but for a change whose write is pending
\* or was refused; what load and the clearing may have changed is bounded.
CopyOK(s) ==
  /\ OneOff(mem[s])
  /\ job[s].task \in {"loaded", "forget_all"} /\ s \notin writing =>
       \A i \in Pairs : mem[s][i] = file[i]
  /\ job[s].task \in {"removing", "expiring"} =>
       \A i \in Pairs : mem[s][i] # file[i] =>
         /\ i \in job[s].changed
         /\ \/ file[i] = "unconfirmed" /\ mem[s][i] = "none"
            \/ file[i] = "forgotten" /\ mem[s][i] = "revoked"
  /\ job[s].task \in {"telling", "clear"} =>
       \A i \in Pairs : mem[s][i] # file[i] => file[i] \in {"forgotten", "revoked"}

\* The one record a pending write changes is one the task at hand may change.
Allowed(s, i) ==
  \/ i \in job[s].ending /\ next[s][i] \in Over /\ (file[i] = "revoked" => next[s][i] = "none")
  \/ /\ job[s].task = "insert" /\ i \notin peerStored
     /\ file[i] = "none" /\ next[s][i] = "unconfirmed"
  \/ /\ job[s].task = "confirm" /\ job[s].about = {i}
     /\ file[i] = "unconfirmed" /\ next[s][i] = "serving"
  \/ /\ job[s].task \in {"removing", "persisting", "change"}
     /\ file[i] = "unconfirmed" /\ next[s][i] = "none"
  \/ job[s].task = "persisting" /\ file[i] = "forgotten" /\ next[s][i] = "revoked"

WriteOK(s) ==
  s \in writing =>
    /\ OneOff(next[s])
    /\ \A i \in Pairs : next[s][i] # file[i] => Allowed(s, i)
    /\ \A i \in job[s].ending : file[i] # "none" /\ \A j \in Pairs : next[s][j] # file[j] => j = i
    /\ job[s].task \in {"removing", "expiring"} => \A i \in job[s].left : next[s][i] = file[i]

\* A ceremony is about one pairing, and its record waits in the file.
CeremonyOK(s) ==
  /\ job[s].task \in {"insert", "await", "confirm", "undo"} => \A i, j \in job[s].about : i = j
  /\ job[s].task = "insert" => \A i \in job[s].about : next[s][i] = "unconfirmed"
  /\ job[s].task \in {"await", "confirm", "undo"} => \A i \in job[s].about : file[i] = "unconfirmed"
  /\ job[s].task = "confirm" /\ s \in writing => \A i \in job[s].about : next[s][i] = "serving"

\* What load has still to remove or to expire is as it was read.
LoadOK(s) ==
  /\ job[s].task \in {"removing", "expiring"} => job[s].left \subseteq job[s].changed
  /\ job[s].task = "removing" => \A i \in job[s].left : file[i] = "unconfirmed"
  /\ job[s].task = "expiring" => \A i \in job[s].left : file[i] = "forgotten"

Fits(s) == CopyOK(s) /\ WriteOK(s) /\ CeremonyOK(s) /\ LoadOK(s)

LifeInv == EndsKnown /\ PairedIsKept /\ \A s \in Instances : Fits(s)

\* A step of the lifecycle, or none.
Lives == [Lifecycle!Next]_(Lifecycle!vars)

\* What is known before a step.
Settled == OneInstance /\ ConfirmedInv /\ EndedInv /\ LifeInv

\* A step that leaves the file and the histories is none of the lifecycle.
LEMMA SameLives ==
  ASSUME file' = file, peerStored' = peerStored, paired' = paired, ended' = ended
  PROVE  Lives
<1> QED
  BY DEF Lives, Lifecycle!vars

\* The job an instance takes up.
LEMMA NowJob ==
  ASSUME ConfirmedInv, NEW s \in Instances, NEW v, Becomes(s, v)
  PROVE  job'[s] = v
<1> QED
  BY DEF Becomes, ConfirmedInv, TypeOK

\* A job that may begin a change of one record, by its task.
Suits(s, v, act, i) ==
  \/ /\ v.task = "removing" /\ act = "remove" /\ file[i] = "unconfirmed" /\ v.ending = {}
     /\ i \in v.changed /\ v.left \subseteq v.changed
     /\ \A j \in v.left : j # i /\ j \in Pairs /\ file[j] = "unconfirmed"
  \/ /\ v.task = "expiring" /\ act = "revoke" /\ file[i] = "forgotten" /\ v.ending = {i}
     /\ i \in v.changed /\ v.left \subseteq v.changed
     /\ \A j \in v.left : j # i /\ j \in Pairs /\ file[j] = "forgotten"
  \/ /\ v.task \in {"telling", "clear"} /\ act \in {"revoke", "remove"}
     /\ file[i] \in {"forgotten", "revoked"} /\ v.ending = {i}
  \/ /\ v.task \in {"change", "forget_all"} /\ act \in {"remove", "forget", "revoke"} /\ v.ending = {i}
  \/ v.task = "change" /\ v.ending = {} /\ act = "touch"
  \/ v.task = "change" /\ v.ending = {} /\ act = "remove" /\ file[i] = "unconfirmed"
  \/ /\ v.task = "insert" /\ act = "insert" /\ v.about = {i} /\ v.ending = {}
     /\ file[i] = "none" /\ i \notin peerStored
  \/ /\ v.task = "confirm" /\ act = "confirm" /\ v.about = {i} /\ v.ending = {}
     /\ file[i] = "unconfirmed"

\* A change begins.
LEMMA LifeBegin ==
  ASSUME Settled, NEW s \in Instances, NEW i \in Pairs, NEW act \in Acts, NEW v,
         Begin(s, act, i), Becomes(s, v), Suits(s, v, act, i),
         peerStored' = peerStored, paired' = paired, ended' = ended
  PROVE  Fits(s)' /\ Lives
<1>1. ConfirmedInv
  BY DEF Settled
<1>2. /\ file' = file /\ writing' = writing \cup {s}
      /\ \A j \in Pairs : mem'[s][j] = IF j = i THEN Changed(act, file[i]) ELSE file[j]
      /\ \A j \in Pairs : next'[s][j] = IF j = i THEN Changed(act, file[i]) ELSE file[j]
  BY <1>1, BeginFacts DEF ConfirmedInv, TypeOK
<1>3. job'[s] = v
  BY <1>1, NowJob
<1>4. act # "insert" => file[i] # "none"
  BY DEF Begin, Known
<1>5. file[i] \in States
  BY <1>1 DEF ConfirmedInv, TypeOK, SetsTypeOK, Sets
<1> DEFINE c == Changed(act, file[i])
<1>6. /\ act = "insert" => c = "unconfirmed"
      /\ act = "remove" => c = "none"
      /\ act = "confirm" /\ file[i] = "unconfirmed" => c = "serving"
      /\ act = "touch" => c = file[i]
      /\ act = "revoke" => c = "revoked"
      /\ act \in {"remove", "forget", "revoke"} => c \in Over
      /\ act \in {"remove", "forget", "revoke"} /\ file[i] = "revoked" => c \in {"revoked", "none"}
  BY <1>5 DEF Changed, Acts, States, Over
<1> HIDE DEF c
<1>7. /\ \A j \in Pairs : mem'[s][j] = IF j = i THEN c ELSE file[j]
      /\ \A j \in Pairs : next'[s][j] = IF j = i THEN c ELSE file[j]
  BY <1>2 DEF c
<1>8. CopyOK(s)'
  BY <1>2, <1>3, <1>6, <1>7 DEF CopyOK, OneOff, Suits
<1>9. CeremonyOK(s)' /\ LoadOK(s)'
  BY <1>2, <1>3, <1>6, <1>7 DEF CeremonyOK, LoadOK, Suits
<1>10. WriteOK(s)'
  <2>1. OneOff(next[s])'
    BY <1>2, <1>7 DEF OneOff
  <2>2. next'[s][i] # file[i] => Allowed(s, i)'
    BY <1>2, <1>3, <1>4, <1>6, <1>7 DEF Allowed, Suits
  <2>3. \A k \in v.ending : k = i /\ act # "insert"
    BY DEF Suits
  <2>4. v.task \in {"removing", "expiring"} => \A j \in v.left : j \in Pairs /\ j # i
    BY DEF Suits
  <2> QED
    BY <1>2, <1>3, <1>4, <1>7, <2>1, <2>2, <2>3, <2>4 DEF WriteOK
<1>11. Lives
  BY <1>2, SameLives
<1> QED
  BY <1>8, <1>9, <1>10, <1>11 DEF Fits

\* A job that may follow the one at hand when nothing is written.
Follows(s, v) ==
  LET old == job[s] IN
  \/ v.task \in {"unloaded", "idle", "change"}
  \/ /\ v.task = old.task /\ v.about = old.about /\ v.changed = old.changed
     /\ v.left \subseteq old.left
  \/ /\ v.task = "removing" /\ mem'[s] = file /\ v.left \subseteq v.changed
     /\ \A i \in v.left : file[i] = "unconfirmed"
  \/ /\ v.task = "expiring" /\ old.task = "removing" /\ mem'[s] = mem[s]
     /\ old.changed \cup v.left \subseteq v.changed
     /\ \A i \in v.left : i \in Pairs /\ mem[s][i] = "forgotten"
  \/ v.task = "loaded" /\ old.task = "expiring" /\ old.changed = {} /\ mem'[s] = mem[s]
  \/ /\ <<old.task, v.task>> \in {<<"loaded", "forget_all">>, <<"forget_all", "telling">>,
                                  <<"telling", "clear">>}
     /\ mem'[s] = mem[s]
  \/ /\ old.task \in {"await", "confirm"} /\ v.task \in {"confirm", "undo"} /\ v.about = old.about

\* Nothing is written: the copy is as it was or fresh.
LEMMA LifeRead ==
  ASSUME Settled, NEW s \in Instances, NEW v, job'[s] = v, Follows(s, v), s \notin writing,
         file' = file, writing' = writing, next' = next, mem'[s] = mem[s] \/ mem'[s] = file
  PROVE  Fits(s)'
<1>1. CopyOK(s) /\ CeremonyOK(s) /\ LoadOK(s)
  BY DEF Settled, LifeInv, Fits
<1>2. OneOff(mem[s])'
  BY <1>1 DEF CopyOK, OneOff
<1>3. \A i \in Pairs : mem'[s][i] # file[i] => mem'[s] = mem[s]
  OBVIOUS
<1>4. v.task \in {"loaded", "forget_all"} => \A i \in Pairs : mem'[s][i] = file[i]
  BY <1>1, <1>3 DEF CopyOK, Follows
<1>5. v.task \in {"removing", "expiring"} =>
        \A i \in Pairs : mem'[s][i] # file[i] =>
          /\ i \in v.changed
          /\ \/ file[i] = "unconfirmed" /\ mem'[s][i] = "none"
             \/ file[i] = "forgotten" /\ mem'[s][i] = "revoked"
  BY <1>1, <1>3 DEF CopyOK, Follows
<1>6. v.task \in {"telling", "clear"} =>
        \A i \in Pairs : mem'[s][i] # file[i] => file[i] \in {"forgotten", "revoked"}
  BY <1>1, <1>3 DEF CopyOK, Follows
<1>7. CopyOK(s)'
  BY <1>2, <1>4, <1>5, <1>6 DEF CopyOK
<1>8. CeremonyOK(s)'
  BY <1>1 DEF CeremonyOK, Follows
<1>9. LoadOK(s)'
  BY <1>1 DEF LoadOK, CopyOK, Follows
<1>10. WriteOK(s)'
  BY DEF WriteOK
<1> QED
  BY <1>7, <1>8, <1>9, <1>10 DEF Fits

\* What a rename does to the life of its pairing: the set differs from the file
\* in one record, and the task at hand says which step that is.
LEMMA RenameLives ==
  ASSUME Settled, NEW s \in Instances, Renamed(s),
         paired' = IF job[s].task = "confirm" THEN paired \cup job[s].about ELSE paired
  PROVE  Lives
<1>1. /\ s \in writing /\ file' = next[s] /\ peerStored' = peerStored
      /\ ended' = ended \cup job[s].ending
  BY RenamedFacts DEF Settled, ConfirmedInv, TypeOK
<1>2. WriteOK(s) /\ CeremonyOK(s) /\ EndsKnown
  BY DEF Settled, LifeInv, Fits
<1>3. file \in Sets /\ next[s] \in Sets /\ job[s].about \subseteq Pairs /\ job[s].ending \subseteq Pairs
  BY DEF Settled, ConfirmedInv, TypeOK, SetsTypeOK, Jobs
<1>4. \A i \in job[s].ending : next[s][i] \in Over /\ file[i] # "none"
  BY <1>1, <1>2 DEF Settled, EndedInv, EndingOver, WriteOK
<1>5. CASE \A i \in Pairs : next[s][i] = file[i]
  <2>1. next[s] = file
    BY <1>3, <1>5 DEF Sets
  <2>2. job[s].ending \subseteq ended
    BY <1>2, <1>3, <1>4, <1>5 DEF EndsKnown, Over
  <2>3. job[s].task = "confirm" => job[s].about = {}
    BY <1>1, <1>2, <1>3, <1>5 DEF CeremonyOK
  <2> QED
    BY <1>1, <2>1, <2>2, <2>3, SameLives
<1>6. CASE \E i \in Pairs : next[s][i] # file[i]
  <2>1. PICK i \in Pairs : next[s][i] # file[i]
    BY <1>6
  <2>2. \A j \in Pairs : j # i => next[s][j] = file[j]
    BY <1>1, <1>2, <2>1 DEF WriteOK, OneOff
  <2>3. next[s] = [file EXCEPT ![i] = next[s][i]]
    BY <1>3, <2>2 DEF Sets
  <2>4. Allowed(s, i) /\ job[s].ending \subseteq {i}
    BY <1>1, <1>2, <2>1 DEF WriteOK
  <2>5. file[i] \in States
    BY <1>3 DEF Sets
  <2>6. i \in ended => file[i] \in Over /\ next[s][i] \in Over
    BY <1>1 DEF Settled, EndedInv, EndedOver
  <2> DEFINE to == next[s][i]
  <2>7. file' = [file EXCEPT ![i] = to]
    BY <1>1, <2>3
  <2>8. /\ to # file[i]
        /\ i \in job[s].ending => job[s].task # "confirm" /\ ended' = ended \cup {i}
    BY <1>1, <2>1, <2>4 DEF Settled, ConfirmedInv, QuietEndsNone, Quiet
  <2> HIDE DEF to
  <2>9. CASE /\ i \in job[s].ending /\ to \in Over /\ (file[i] = "revoked" => to = "none")
    <3>1. file[i] # "none" /\ paired' = paired /\ ended' = ended \cup {i}
      BY <1>4, <2>8, <2>9
    <3>2. CASE file[i] = "revoked"
      <4>1. i \in ended /\ ended' = ended
        BY <1>2, <3>1, <3>2 DEF EndsKnown
      <4>2. file' = [j \in Pairs |-> IF j \in {i} THEN "none" ELSE file[j]]
        BY <1>3, <2>7, <2>9, <3>2 DEF Sets
      <4>3. Lifecycle!Clear({i})
        BY <1>1, <3>1, <3>2, <4>1, <4>2 DEF Lifecycle!Clear
      <4> QED
        BY <4>3 DEF Lives, Lifecycle!Next
    <3>3. CASE file[i] # "revoked"
      <4>1. file[i] \in {"unconfirmed", "serving", "forgotten"} /\ to \in {"forgotten", "revoked", "none"}
        BY <2>5, <2>9, <3>1, <3>3 DEF States, Over
      <4>2. Lifecycle!End(i)
        BY <1>1, <2>7, <3>1, <4>1 DEF Lifecycle!End, Lifecycle!Becomes
      <4> QED
        BY <4>2 DEF Lives, Lifecycle!Next
    <3> QED
      BY <3>2, <3>3
  <2>10. CASE i \notin job[s].ending
    <3>1. ended' = ended
      BY <1>1, <2>4, <2>10
    <3>2. CASE /\ job[s].task = "insert" /\ i \notin peerStored
               /\ file[i] = "none" /\ to = "unconfirmed"
      <4>1. Lifecycle!Wait(i)
        BY <1>1, <2>6, <2>7, <3>1, <3>2 DEF Lifecycle!Wait, Lifecycle!Becomes, Over, to
      <4> QED
        BY <4>1 DEF Lives, Lifecycle!Next
    <3>3. CASE /\ job[s].task = "confirm" /\ job[s].about = {i}
               /\ file[i] = "unconfirmed" /\ to = "serving"
      <4>1. i \in peerStored
        BY <3>3 DEF Settled, ConfirmedInv, Told
      <4>2. Lifecycle!Serve(i)
        BY <1>1, <2>6, <2>7, <3>1, <3>3, <4>1 DEF Lifecycle!Serve, Lifecycle!Becomes, Over
      <4> QED
        BY <4>2 DEF Lives, Lifecycle!Next
    <3>4. CASE /\ job[s].task \in {"removing", "persisting", "change"}
               /\ file[i] = "unconfirmed" /\ to = "none"
      <4>1. Lifecycle!Abandon(i)
        BY <1>1, <2>7, <3>1, <3>4 DEF Lifecycle!Abandon, Lifecycle!Becomes
      <4> QED
        BY <4>1 DEF Lives, Lifecycle!Next
    <3>5. CASE job[s].task = "persisting" /\ file[i] = "forgotten" /\ to = "revoked"
      <4>1. i \in ended
        BY <1>2, <3>5 DEF EndsKnown
      <4>2. Lifecycle!End(i)
        BY <1>1, <2>7, <3>1, <3>5, <4>1 DEF Lifecycle!End, Lifecycle!Becomes
      <4> QED
        BY <4>2 DEF Lives, Lifecycle!Next
    <3> QED
      BY <2>4, <2>10, <3>2, <3>3, <3>4, <3>5 DEF Allowed, to
  <2> QED
    BY <1>4, <2>4, <2>9, <2>10 DEF Allowed, to
<1> QED
  BY <1>5, <1>6

\* A rename leaves the copy as the file is.
LEMMA LifeRename ==
  ASSUME Settled, NEW s \in Instances, NEW v, job'[s] = v, Renamed(s),
         \/ v.task \in {"idle", "loaded"}
         \/ v = job[s] /\ v.task \in {"removing", "expiring", "forget_all", "telling", "clear"}
         \/ job[s].task = "insert" /\ v.task = "await" /\ v.about = job[s].about
  PROVE  Fits(s)'
<1>1. /\ s \in writing /\ writing' = writing \ {s} /\ file' = next[s] /\ mem'[s] = next[s]
  BY RenamedFacts DEF Settled, ConfirmedInv, TypeOK
<1>2. WriteOK(s) /\ CeremonyOK(s) /\ LoadOK(s)
  BY DEF Settled, LifeInv, Fits
<1>3. CopyOK(s)'
  BY <1>1 DEF CopyOK, OneOff
<1>4. CeremonyOK(s)'
  BY <1>1, <1>2 DEF CeremonyOK
<1>5. LoadOK(s)'
  BY <1>1, <1>2 DEF LoadOK, WriteOK
<1> QED
  BY <1>1, <1>3, <1>4, <1>5 DEF Fits, WriteOK

\* A refused write leaves the file; the change stands in the copy.
LEMMA LifeRefused ==
  ASSUME Settled, NEW s \in Instances, NEW v, job'[s] = v, WriteRefused(s), paired' = paired,
         \/ v.task \in {"idle", "unloaded"}
         \/ v = job[s] /\ v.task \in {"removing", "expiring", "telling", "clear"}
         \/ job[s].task = "confirm" /\ v.task = "undo" /\ v.about = job[s].about
  PROVE  Fits(s)' /\ Lives
<1>1. /\ s \in writing /\ writing' = writing \ {s} /\ file' = file /\ mem' = mem
      /\ peerStored' = peerStored /\ ended' = ended
  BY WriteRefusedFacts, StoreAssumption DEF Settled, ConfirmedInv, TypeOK
<1>2. CopyOK(s) /\ CeremonyOK(s) /\ LoadOK(s)
  BY DEF Settled, LifeInv, Fits
<1>3. CopyOK(s)'
  BY <1>1, <1>2 DEF CopyOK, OneOff
<1>4. CeremonyOK(s)' /\ LoadOK(s)'
  BY <1>1, <1>2 DEF CeremonyOK, LoadOK
<1> QED
  BY <1>1, <1>3, <1>4, SameLives DEF Fits, WriteOK

-----------------------------------------------------------------------------
(* The actions, with one instance.                                           *)

\* What every step does.
Goes(s) == Fits(s)' /\ Lives

\* A change that fails at its start: the copy is as it was or fresh.
LEMMA LifeFails ==
  ASSUME Settled, NEW s \in Instances, NEW i \in Pairs, NEW act \in Acts, NEW v,
         BeginFails(s, act, i), job'[s] = v, Follows(s, v), s \notin writing,
         peerStored' = peerStored, paired' = paired, ended' = ended
  PROVE  Goes(s)
<1>1. /\ file' = file /\ writing' = writing /\ next' = next
      /\ \A t \in Instances : mem'[t] = mem[t] \/ mem'[t] = file
  BY BeginFailsFacts, StoreAssumption DEF Settled, ConfirmedInv, TypeOK
<1> QED
  BY <1>1, LifeRead, SameLives DEF Goes

\* A load: reading, removing what waits, expiring notices and the last write.
LEMMA LoadingLives ==
  ASSUME Settled, NEW s \in Instances, Loading(s)
  PROVE  Goes(s)
<1> USE DEF Goes
<1>1. ConfirmedInv /\ job[s] \in Jobs /\ Fits(s) /\ mem \in [Instances -> Sets]
  BY DEF Settled, ConfirmedInv, TypeOK, SetsTypeOK, LifeInv
<1>2. CASE Load(s)
  <2> DEFINE unconfirmed == {i \in Pairs : file[i] = "unconfirmed"}
             v == [Resting("removing") EXCEPT !.left = unconfirmed, !.changed = unconfirmed]
  <2>1. v.task = "removing" /\ v.left = unconfirmed /\ v.changed = unconfirmed
    BY DEF Resting
  <2>2. /\ Becomes(s, v) /\ s \notin writing /\ mem' = [mem EXCEPT ![s] = file]
        /\ UNCHANGED <<file, next, writing, peerStored, paired, ended>>
    BY <1>2 DEF Load, Is, Free
  <2> HIDE DEF v
  <2>3. mem'[s] = file
    BY <1>1, <2>2
  <2>4. job'[s] = v
    BY <1>1, <2>2, NowJob
  <2>5. Follows(s, v)
    BY <2>1, <2>3 DEF Follows
  <2> QED
    BY <2>2, <2>3, <2>4, <2>5, LifeRead, SameLives
<1>3. CASE LoadUnreadable(s)
  <2>1. /\ job'[s] = Resting("unloaded") /\ s \notin writing
        /\ UNCHANGED <<file, mem, next, writing, peerStored, paired, ended>>
    BY <1>1, <1>3, NowJob DEF LoadUnreadable, BeginUnreadable, Is, Free
  <2>2. Follows(s, Resting("unloaded"))
    BY DEF Follows, Resting
  <2> QED
    BY <2>1, <2>2, LifeRead, SameLives
<1>4. CASE LoadPersists(s)
  <2>1. /\ job[s].task = "expiring" /\ s \notin writing
        /\ UNCHANGED <<file, mem, peerStored, paired, ended>>
    BY <1>4 DEF LoadPersists, Is
  <2>2. CASE job[s].changed # {}
    <3>1. /\ job'[s] = Resting("persisting") /\ next'[s] = mem[s] /\ writing' = writing \cup {s}
      BY <1>1, <1>4, <2>2, NowJob DEF LoadPersists, Settled, ConfirmedInv, TypeOK, SetsTypeOK
    <3>2. Resting("persisting").task = "persisting" /\ Resting("persisting").ending = {}
      BY DEF Resting
    <3>3. CopyOK(s)' /\ CeremonyOK(s)' /\ LoadOK(s)'
      BY <1>1, <2>1, <3>1, <3>2 DEF Fits, CopyOK, OneOff, CeremonyOK, LoadOK
    <3>4. WriteOK(s)'
      BY <1>1, <2>1, <3>1, <3>2 DEF Fits, CopyOK, OneOff, WriteOK, Allowed
    <3> QED
      BY <2>1, <3>3, <3>4, SameLives DEF Fits
  <2>3. CASE job[s].changed = {}
    <3>1. job'[s] = Resting("loaded") /\ UNCHANGED <<next, writing>>
      BY <1>1, <1>4, <2>3, NowJob DEF LoadPersists
    <3>2. Follows(s, Resting("loaded"))
      BY <2>1, <2>3 DEF Follows, Resting
    <3> QED
      BY <2>1, <3>1, <3>2, LifeRead, SameLives
  <2> QED
    BY <2>2, <2>3
<1>5. CASE LoadWrites(s)
  <2>1. CASE job[s].task \in {"removing", "expiring"} /\ Renamed(s) /\ UNCHANGED <<job, paired>>
    BY <2>1, LifeRename, RenameLives
  <2>2. CASE job[s].task \in {"removing", "expiring"} /\ WriteRefused(s) /\ UNCHANGED <<job, paired>>
    BY <2>2, LifeRefused
  <2>3. CASE job[s].task = "persisting" /\ Renamed(s) /\ Becomes(s, Resting("loaded")) /\ paired' = paired
    <3>1. job'[s] = Resting("loaded") /\ Resting("loaded").task = "loaded"
      BY <1>1, <2>3, NowJob DEF Resting
    <3> QED
      BY <2>3, <3>1, LifeRename, RenameLives
  <2>4. CASE job[s].task = "persisting" /\ WriteRefused(s) /\ Becomes(s, Resting("unloaded")) /\ paired' = paired
    <3>1. job'[s] = Resting("unloaded") /\ Resting("unloaded").task = "unloaded"
      BY <1>1, <2>4, NowJob DEF Resting
    <3> QED
      BY <2>4, <3>1, LifeRefused
  <2> QED
    BY <1>5, <2>1, <2>2, <2>3, <2>4 DEF LoadWrites
<1>6. ASSUME NEW i \in Pairs, RemoveUnconfirmed(s, i) PROVE Goes(s)
  <2> DEFINE v == [job[s] EXCEPT !.left = @ \ {i}]
  <2>1. /\ v.task = job[s].task /\ v.left = job[s].left \ {i} /\ v.ending = job[s].ending
        /\ v.about = job[s].about /\ v.changed = job[s].changed
    BY <1>1 DEF Jobs
  <2>2. /\ job[s].task = "removing" /\ s \notin writing /\ i \in job[s].left /\ Becomes(s, v)
        /\ Begin(s, "remove", i) \/ BeginFails(s, "remove", i)
        /\ UNCHANGED <<peerStored, paired, ended>>
    BY <1>6 DEF RemoveUnconfirmed, Is
  <2> HIDE DEF v
  <2>3. job'[s] = v
    BY <1>1, <2>2, NowJob
  <2>4. CASE Begin(s, "remove", i)
    <3>1. job[s].ending = {} /\ job[s].left \subseteq Pairs
      BY <1>1, <2>2 DEF ConfirmedInv, QuietEndsNone, Quiet, Jobs
    <3>2. Suits(s, v, "remove", i)
      BY <1>1, <2>1, <2>2, <3>1 DEF Suits, Fits, LoadOK
    <3> QED
      BY <2>2, <2>4, <3>2, LifeBegin DEF Acts
  <2>5. CASE BeginFails(s, "remove", i)
    <3>1. Follows(s, v)
      BY <2>1 DEF Follows
    <3> QED
      BY <2>2, <2>3, <2>5, <3>1, LifeFails DEF Acts
  <2> QED
    BY <2>2, <2>4, <2>5
<1>7. ASSUME NEW i \in Pairs, ExpireNotice(s, i) PROVE Goes(s)
  <2> DEFINE v == [job[s] EXCEPT !.left = @ \ {i}, !.ending = {i}]
  <2>1. /\ v.task = job[s].task /\ v.left = job[s].left \ {i} /\ v.ending = {i}
        /\ v.about = job[s].about /\ v.changed = job[s].changed
    BY <1>1 DEF Jobs
  <2>2. /\ job[s].task = "expiring" /\ s \notin writing /\ i \in job[s].left /\ Becomes(s, v)
        /\ Begin(s, "revoke", i) \/ BeginFails(s, "revoke", i)
        /\ UNCHANGED <<peerStored, paired, ended>>
    BY <1>7 DEF ExpireNotice, Is
  <2> HIDE DEF v
  <2>3. job'[s] = v
    BY <1>1, <2>2, NowJob
  <2>4. CASE Begin(s, "revoke", i)
    <3>1. job[s].left \subseteq Pairs
      BY <1>1 DEF Jobs
    <3>2. Suits(s, v, "revoke", i)
      BY <1>1, <2>1, <2>2, <3>1 DEF Suits, Fits, LoadOK
    <3> QED
      BY <2>2, <2>4, <3>2, LifeBegin DEF Acts
  <2>5. CASE BeginFails(s, "revoke", i)
    <3>1. Follows(s, v)
      BY <2>1 DEF Follows
    <3> QED
      BY <2>2, <2>3, <2>5, <3>1, LifeFails DEF Acts
  <2> QED
    BY <2>2, <2>4, <2>5
<1>8. ASSUME NEW expired \in SUBSET Pairs, FindExpired(s, expired) PROVE Goes(s)
  <2> DEFINE v == [job[s] EXCEPT !.task = "expiring", !.left = expired, !.changed = @ \cup expired]
  <2>1. v.task = "expiring" /\ v.left = expired /\ v.changed = job[s].changed \cup expired
    BY <1>1 DEF Jobs
  <2>2. /\ job[s].task = "removing" /\ s \notin writing /\ Becomes(s, v)
        /\ \A i \in expired : mem[s][i] = "forgotten"
        /\ UNCHANGED <<file, mem, next, writing, peerStored, paired, ended>>
    BY <1>8 DEF FindExpired, Is
  <2> HIDE DEF v
  <2>3. job'[s] = v
    BY <1>1, <2>2, NowJob
  <2>4. Follows(s, v)
    BY <2>1, <2>2 DEF Follows
  <2> QED
    BY <2>2, <2>3, <2>4, LifeRead, SameLives
<1> QED
  BY <1>2, <1>3, <1>4, <1>5, <1>6, <1>7, <1>8 DEF Loading

\* The ceremony.
LEMMA PairingLives ==
  ASSUME Settled, NEW s \in Instances, Pairing(s)
  PROVE  Goes(s)
<1> USE DEF Goes
<1>1. ConfirmedInv /\ job[s] \in Jobs /\ Fits(s) /\ job[s].about \subseteq Pairs
  BY DEF Settled, ConfirmedInv, TypeOK, LifeInv, Jobs
<1>2. ASSUME NEW i \in Pairs, Insert(s, i) PROVE Goes(s)
  <2> DEFINE v == [Resting("insert") EXCEPT !.about = {i}]
  <2>1. v.task = "insert" /\ v.about = {i} /\ v.ending = {}
    BY DEF Resting
  <2>2. /\ s \notin writing /\ i \notin peerStored /\ file[i] = "none"
        /\ UNCHANGED <<peerStored, paired, ended>>
    BY <1>2 DEF Insert, Free
  <2>3. CASE Begin(s, "insert", i) /\ Becomes(s, v)
    <3> HIDE DEF v
    <3>1. Suits(s, v, "insert", i)
      BY <2>1, <2>2 DEF Suits
    <3> QED
      BY <2>2, <2>3, <3>1, LifeBegin DEF Acts
  <2>4. CASE BeginUnreadable(s) /\ UNCHANGED job
    <3>1. Follows(s, job[s])
      BY DEF Follows
    <3>2. BeginFails(s, "insert", i)
      BY <2>4 DEF BeginFails
    <3> QED
      BY <2>2, <2>4, <3>1, <3>2, LifeFails DEF Acts
  <2> QED
    BY <1>2, <2>3, <2>4 DEF Insert
<1>3. CASE InsertWritten(s)
  <2> DEFINE v == [job[s] EXCEPT !.task = "await"]
  <2>1. v.task = "await" /\ v.about = job[s].about
    BY <1>1 DEF Jobs
  <2>2. CASE Renamed(s) /\ Becomes(s, v) /\ paired' = paired /\ job[s].task = "insert"
    <3> HIDE DEF v
    <3>1. job'[s] = v
      BY <1>1, <2>2, NowJob
    <3> QED
      BY <2>1, <2>2, <3>1, LifeRename, RenameLives
  <2>3. CASE WriteRefused(s) /\ Rests(s) /\ paired' = paired
    <3>1. job'[s] = Resting("idle") /\ Resting("idle").task = "idle"
      BY <1>1, <2>3, NowJob DEF Rests, Resting
    <3> QED
      BY <2>3, <3>1, LifeRefused
  <2> QED
    BY <1>3, <2>2, <2>3 DEF InsertWritten
<1>4. CASE PeerStores(s) \/ PeerFails(s)
  <2>1. PICK task \in {"confirm", "undo"} : Becomes(s, [job[s] EXCEPT !.task = task])
    BY <1>4 DEF PeerStores, PeerFails
  <2> DEFINE v == [job[s] EXCEPT !.task = task]
  <2>2. v.task = task /\ v.about = job[s].about
    BY <1>1 DEF Jobs
  <2>3. /\ job[s].task = "await" /\ s \notin writing
        /\ peerStored' \in {peerStored, peerStored \cup job[s].about}
        /\ UNCHANGED <<file, mem, next, writing, paired, ended>>
    BY <1>4 DEF PeerStores, PeerFails, Is
  <2>4. job'[s] = v
    BY <1>1, <2>1, NowJob
  <2> HIDE DEF v
  <2>5. Follows(s, v)
    BY <2>2, <2>3 DEF Follows
  <2>6. Lives
    <3>1. CASE peerStored' = peerStored
      BY <2>3, <3>1, SameLives
    <3>2. CASE peerStored' # peerStored
      <4>1. PICK i \in job[s].about : TRUE
        BY <2>3, <3>2
      <4>2. job[s].about = {i}
        BY <1>1, <2>3 DEF Fits, CeremonyOK
      <4>3. Lifecycle!PhoneStores(i)
        BY <2>3, <3>2, <4>2 DEF Lifecycle!PhoneStores
      <4> QED
        BY <1>1, <4>1, <4>3 DEF Lives, Lifecycle!Next
    <3> QED
      BY <3>1, <3>2
  <2> QED
    BY <2>3, <2>4, <2>5, <2>6, LifeRead
<1>5. CASE Confirm(s)
  <2>1. PICK i \in job[s].about :
          \/ Begin(s, "confirm", i) /\ UNCHANGED job
          \/ BeginFails(s, "confirm", i) /\ Becomes(s, [job[s] EXCEPT !.task = "undo"])
    BY <1>5 DEF Confirm
  <2>2. /\ job[s].task = "confirm" /\ s \notin writing /\ i \in Pairs
        /\ UNCHANGED <<peerStored, paired, ended>>
    BY <1>1, <1>5 DEF Confirm, Is
  <2>3. CASE Begin(s, "confirm", i) /\ UNCHANGED job
    <3>1. job[s].ending = {} /\ Becomes(s, job[s])
      BY <1>1, <2>2, <2>3 DEF ConfirmedInv, QuietEndsNone, Quiet, Becomes, TypeOK
    <3>2. Suits(s, job[s], "confirm", i)
      BY <1>1, <2>2, <3>1 DEF Suits, Fits, CeremonyOK
    <3> QED
      BY <2>2, <2>3, <3>1, <3>2, LifeBegin DEF Acts
  <2>4. CASE BeginFails(s, "confirm", i) /\ Becomes(s, [job[s] EXCEPT !.task = "undo"])
    <3> DEFINE v == [job[s] EXCEPT !.task = "undo"]
    <3>1. v.task = "undo" /\ v.about = job[s].about
      BY <1>1 DEF Jobs
    <3>2. job'[s] = v
      BY <1>1, <2>4, NowJob
    <3> HIDE DEF v
    <3>3. Follows(s, v)
      BY <2>2, <3>1 DEF Follows
    <3> QED
      BY <2>2, <2>4, <3>2, <3>3, LifeFails DEF Acts
  <2> QED
    BY <2>1, <2>3, <2>4
<1>6. CASE ConfirmWritten(s)
  <2>1. job[s].task = "confirm" /\ s \in writing
    BY <1>6 DEF ConfirmWritten
  <2>2. \A i \in job[s].about : next[s][i] = "serving"
    BY <1>1, <2>1 DEF Fits, CeremonyOK
  <2>3. CASE Renamed(s) /\ paired' = paired \cup job[s].about /\ Rests(s)
    <3>1. job'[s] = Resting("idle") /\ Resting("idle").task = "idle"
      BY <1>1, <2>3, NowJob DEF Rests, Resting
    <3> QED
      BY <2>1, <2>3, <3>1, LifeRename, RenameLives
  <2>4. CASE WriteRefused(s) /\ paired' = paired /\ Becomes(s, [job[s] EXCEPT !.task = "undo"])
    <3> DEFINE v == [job[s] EXCEPT !.task = "undo"]
    <3>1. v.task = "undo" /\ v.about = job[s].about
      BY <1>1 DEF Jobs
    <3>2. job'[s] = v
      BY <1>1, <2>4, NowJob
    <3> HIDE DEF v
    <3> QED
      BY <2>1, <2>4, <3>1, <3>2, LifeRefused
  <2> QED
    BY <1>6, <2>2, <2>3, <2>4 DEF ConfirmWritten
<1>7. CASE Undo(s)
  <2>1. PICK i \in job[s].about : Begin(s, "remove", i) \/ BeginFails(s, "remove", i)
    BY <1>7 DEF Undo
  <2>2. /\ job[s].task = "undo" /\ s \notin writing /\ i \in Pairs /\ Becomes(s, Resting("change"))
        /\ file[i] = "unconfirmed" /\ UNCHANGED <<peerStored, paired, ended>>
    BY <1>1, <1>7 DEF Undo, Is, Fits, CeremonyOK
  <2>3. job'[s] = Resting("change")
    BY <1>1, <2>2, NowJob
  <2>4. /\ Suits(s, Resting("change"), "remove", i)
        /\ Follows(s, Resting("change"))
    BY <2>2 DEF Suits, Follows, Resting
  <2> QED
    BY <2>1, <2>2, <2>3, <2>4, LifeBegin, LifeFails DEF Acts
<1> QED
  BY <1>2, <1>3, <1>4, <1>5, <1>6, <1>7 DEF Pairing

\* The changes of sessions, users and sweeps.
LEMMA ChangingLives ==
  ASSUME Settled, NEW s \in Instances, Changing(s)
  PROVE  Goes(s)
<1> USE DEF Goes
<1>1. ConfirmedInv /\ job[s] \in Jobs /\ Fits(s)
  BY DEF Settled, ConfirmedInv, TypeOK, LifeInv
<1>2. \A i \in Pairs : Ending(i).task = "change" /\ Ending(i).ending = {i}
  BY DEF Ending, Resting
<1>3. ASSUME NEW i \in Pairs, Touch(s, i) PROVE Goes(s)
  <2>1. /\ s \notin writing /\ Becomes(s, Resting("change")) /\ UNCHANGED <<peerStored, paired, ended>>
        /\ Begin(s, "touch", i) \/ BeginFails(s, "touch", i)
    BY <1>3 DEF Touch, Free
  <2>2. job'[s] = Resting("change")
    BY <1>1, <2>1, NowJob
  <2>3. Resting("change").task = "change" /\ Resting("change").ending = {}
    BY DEF Resting
  <2>4. Suits(s, Resting("change"), "touch", i)
    BY <2>3 DEF Suits
  <2>5. Follows(s, Resting("change"))
    BY <2>3 DEF Follows
  <2> QED
    BY <2>1, <2>2, <2>4, <2>5, LifeBegin, LifeFails DEF Acts
<1>4. ASSUME NEW i \in Pairs, Revoke(s, i) \/ Forget(s, i) PROVE Goes(s)
  <2>1. PICK act \in {"revoke", "remove", "forget"} : Begin(s, act, i) \/ BeginFails(s, act, i)
    BY <1>4 DEF Revoke, Forget, ForgetAct
  <2>2. /\ s \notin writing /\ Becomes(s, Ending(i)) /\ UNCHANGED <<peerStored, paired, ended>>
    BY <1>4 DEF Revoke, Forget, Free
  <2>3. job'[s] = Ending(i)
    BY <1>1, <2>2, NowJob
  <2>4. Suits(s, Ending(i), act, i) /\ Follows(s, Ending(i))
    BY <1>2 DEF Suits, Follows
  <2>5. act \in Acts
    BY DEF Acts
  <2> QED
    BY <2>1, <2>2, <2>3, <2>4, <2>5, LifeBegin, LifeFails
<1>5. ASSUME NEW i \in Pairs, IdleExpires(s, i) PROVE Goes(s)
  <2>1. /\ s \notin writing /\ file[i] = "serving" /\ mem' = [mem EXCEPT ![s] = file]
        /\ next' = [next EXCEPT ![s] = [file EXCEPT ![i] = "revoked"]]
        /\ writing' = writing \cup {s} /\ Becomes(s, Ending(i))
        /\ UNCHANGED <<file, peerStored, paired, ended>>
    BY <1>5 DEF IdleExpires, Free
  <2>2. job'[s] = Ending(i)
    BY <1>1, <2>1, NowJob
  <2>3. /\ mem'[s] = file
        /\ \A j \in Pairs : next'[s][j] = IF j = i THEN "revoked" ELSE file[j]
    BY <1>1, <2>1 DEF ConfirmedInv, TypeOK, SetsTypeOK, Sets
  <2>4. CopyOK(s)' /\ CeremonyOK(s)' /\ LoadOK(s)'
    BY <1>2, <2>1, <2>2, <2>3 DEF CopyOK, OneOff, CeremonyOK, LoadOK
  <2>5. WriteOK(s)'
    BY <1>2, <2>1, <2>2, <2>3 DEF WriteOK, OneOff, Allowed, Over
  <2> QED
    BY <2>1, <2>4, <2>5, SameLives DEF Fits
<1>6. CASE ChangeWritten(s)
  <2>1. job[s].task = "change" /\ job'[s] = Resting("idle") /\ Resting("idle").task = "idle"
    BY <1>1, <1>6, NowJob DEF ChangeWritten, Rests, Resting
  <2>2. CASE Renamed(s) /\ UNCHANGED paired
    BY <2>1, <2>2, LifeRename, RenameLives
  <2>3. CASE WriteRefused(s) /\ UNCHANGED paired
    BY <2>1, <2>3, LifeRefused
  <2>4. CASE s \notin writing /\ UNCHANGED <<file, mem, next, writing, peerStored, paired, ended>>
    <3>1. Follows(s, Resting("idle"))
      BY <2>1 DEF Follows
    <3> QED
      BY <2>1, <2>4, <3>1, LifeRead, SameLives
  <2> QED
    BY <1>6, <2>2, <2>3, <2>4 DEF ChangeWritten
<1> QED
  BY <1>3, <1>4, <1>5, <1>6 DEF Changing

\* The loops that forget, tell and clear, and the deletion of an empty set.
LEMMA LoopingLives ==
  ASSUME Settled, NEW s \in Instances, Looping(s)
  PROVE  Goes(s)
<1> USE DEF Goes
<1>1. ConfirmedInv /\ job[s] \in Jobs /\ Fits(s) /\ file \in Sets
  BY DEF Settled, ConfirmedInv, TypeOK, SetsTypeOK, LifeInv
<1>2. Resting("idle").task = "idle" /\ Follows(s, Resting("idle"))
  BY DEF Resting, Follows
<1>3. CASE ForgetEvery(s) \/ ClearRevoked(s)
  <2>1. PICK task \in {"forget_all", "clear"} :
          /\ <<job[s].task, task>> \in {<<"loaded", "forget_all">>, <<"telling", "clear">>}
          /\ Becomes(s, [Resting(task) EXCEPT !.left = Present(mem[s])])
    BY <1>3 DEF ForgetEvery, ClearRevoked, Is
  <2> DEFINE v == [Resting(task) EXCEPT !.left = Present(mem[s])]
  <2>2. v.task = task
    BY DEF Resting
  <2>3. s \notin writing /\ UNCHANGED <<file, mem, next, writing, peerStored, paired, ended>>
    BY <1>3 DEF ForgetEvery, ClearRevoked, Is
  <2>4. job'[s] = v
    BY <1>1, <2>1, NowJob
  <2> HIDE DEF v
  <2>5. Follows(s, v)
    BY <2>1, <2>2, <2>3 DEF Follows
  <2> QED
    BY <2>3, <2>4, <2>5, LifeRead, SameLives
<1>4. CASE LoopWrites(s)
  <2>1. job[s].task \in {"forget_all", "telling", "clear"} /\ paired' = paired
    BY <1>4 DEF LoopWrites
  <2>2. CASE Renamed(s) /\ UNCHANGED job
    BY <2>1, <2>2, LifeRename, RenameLives
  <2>3. CASE WriteRefused(s) /\ job[s].task # "forget_all" /\ UNCHANGED job
    BY <2>1, <2>3, LifeRefused
  <2>4. CASE WriteRefused(s) /\ Rests(s)
    <3>1. job'[s] = Resting("idle")
      BY <1>1, <2>4, NowJob DEF Rests
    <3> QED
      BY <1>2, <2>1, <2>4, <3>1, LifeRefused
  <2> QED
    BY <1>4, <2>2, <2>3, <2>4 DEF LoopWrites
<1>5. CASE LoopEnds(s)
  <2>1. /\ job[s].task \in {"forget_all", "clear"} /\ s \notin writing
        /\ UNCHANGED <<mem, next, writing, peerStored, paired, ended>>
        /\ Rests(s) \/ (job[s].task = "forget_all" /\ Becomes(s, Resting("telling")))
        /\ file' = IF Present(mem[s]) = {} THEN NoRecords ELSE file
    BY <1>5 DEF LoopEnds, Is
  <2>2. PICK v \in {Resting("idle"), Resting("telling")} :
          job'[s] = v /\ (v = Resting("idle") \/ job[s].task = "forget_all")
    BY <1>1, <2>1, NowJob DEF Rests
  <2>3. CASE Present(mem[s]) # {}
    <3>1. Follows(s, v)
      BY <2>1, <2>2 DEF Follows, Resting
    <3> QED
      BY <2>1, <2>2, <2>3, <3>1, LifeRead, SameLives
  <2>4. CASE Present(mem[s]) = {}
    <3>1. /\ \A i \in Pairs : mem[s][i] = "none"
          /\ file' = [i \in Pairs |-> "none"]
      BY <2>1, <2>4 DEF Present, NoRecords
    <3>2. v.task \in {"idle", "telling"}
      BY <2>2 DEF Resting
    <3>3. Fits(s)'
      BY <2>1, <2>2, <3>1, <3>2 DEF Fits, CopyOK, OneOff, CeremonyOK, LoadOK, WriteOK
    <3> DEFINE gone == {i \in Pairs : file[i] # "none"}
    <3>4. \A i \in gone : file[i] \in {"forgotten", "revoked"}
      BY <1>1, <2>1, <3>1 DEF Fits, CopyOK
    <3>5. gone \subseteq ended
      BY <3>4 DEF Settled, LifeInv, EndsKnown
    <3>6. file' = [i \in Pairs |-> IF i \in gone THEN "none" ELSE file[i]]
      BY <3>1
    <3>7. Lifecycle!Clear(gone)
      BY <2>1, <3>4, <3>5, <3>6 DEF Lifecycle!Clear
    <3>8. gone \in SUBSET Pairs
      OBVIOUS
    <3> QED
      BY <3>3, <3>7, <3>8 DEF Lives, Lifecycle!Next
  <2> QED
    BY <2>3, <2>4
<1>6. ASSUME NEW i \in Pairs, ForgetNext(s, i) PROVE Goes(s)
  <2> DEFINE act == ForgetAct(mem[s][i])
  <2>1. /\ job[s].task = "forget_all" /\ s \notin writing
        /\ UNCHANGED <<peerStored, paired, ended>> /\ act \in {"forget", "remove"}
    BY <1>6 DEF ForgetNext, Is, ForgetAct
  <2>2. /\ Onward(s, i).task = job[s].task /\ Onward(s, i).ending = {i}
        /\ Onward(s, i).about = job[s].about /\ Onward(s, i).changed = job[s].changed
        /\ Onward(s, i).left \subseteq job[s].left
    BY <1>1 DEF Onward, Jobs
  <2>3. /\ Becomes(s, Onward(s, i)) => job'[s] = Onward(s, i)
        /\ Rests(s) => job'[s] = Resting("idle")
    BY <1>1, NowJob DEF Rests
  <2>4. Follows(s, Onward(s, i)) /\ Suits(s, Onward(s, i), act, i)
    BY <2>1, <2>2 DEF Follows, Suits
  <2>5. CASE /\ Becomes(s, Onward(s, i)) \/ Rests(s)
             /\ UNCHANGED <<file, mem, next, writing, unread, counts>>
    BY <1>2, <2>1, <2>3, <2>4, <2>5, LifeRead, SameLives
  <2>6. CASE Begin(s, act, i) /\ Becomes(s, Onward(s, i))
    BY <2>1, <2>4, <2>6, LifeBegin DEF Acts
  <2>7. CASE BeginFails(s, act, i) /\ Rests(s)
    BY <1>2, <2>1, <2>3, <2>7, LifeFails DEF Acts
  <2> QED
    BY <1>6, <2>5, <2>6, <2>7 DEF ForgetNext
<1>7. ASSUME NEW i \in Pairs, Tell(s, i) PROVE Goes(s)
  <2> DEFINE v == [job[s] EXCEPT !.ending = {i}]
  <2>1. /\ v.task = job[s].task /\ v.left = job[s].left /\ v.ending = {i}
        /\ v.about = job[s].about /\ v.changed = job[s].changed
    BY <1>1 DEF Jobs
  <2>2. /\ job[s].task = "telling" /\ s \notin writing /\ mem[s][i] = "forgotten" /\ Becomes(s, v)
        /\ Begin(s, "revoke", i) \/ BeginFails(s, "revoke", i)
        /\ UNCHANGED <<peerStored, paired, ended>>
    BY <1>7 DEF Tell, Is
  <2> HIDE DEF v
  <2>3. job'[s] = v
    BY <1>1, <2>2, NowJob
  <2>4. file[i] \in {"forgotten", "revoked"}
    BY <1>1, <2>2 DEF Fits, CopyOK
  <2>5. Follows(s, v) /\ Suits(s, v, "revoke", i)
    BY <2>1, <2>2, <2>4 DEF Follows, Suits
  <2> QED
    BY <2>2, <2>3, <2>5, LifeBegin, LifeFails DEF Acts
<1>8. ASSUME NEW i \in Pairs, ClearNext(s, i) PROVE Goes(s)
  <2>1. /\ job[s].task = "clear" /\ s \notin writing /\ Becomes(s, Onward(s, i))
        /\ UNCHANGED <<peerStored, paired, ended>>
    BY <1>8 DEF ClearNext, Is
  <2>2. /\ Onward(s, i).task = job[s].task /\ Onward(s, i).ending = {i}
        /\ Onward(s, i).about = job[s].about /\ Onward(s, i).changed = job[s].changed
        /\ Onward(s, i).left \subseteq job[s].left
    BY <1>1 DEF Onward, Jobs
  <2>3. job'[s] = Onward(s, i) /\ Follows(s, Onward(s, i))
    BY <1>1, <2>1, <2>2, NowJob DEF Follows
  <2>4. CASE mem[s][i] = "revoked" /\ (Begin(s, "remove", i) \/ BeginFails(s, "remove", i))
    <3>1. file[i] \in {"forgotten", "revoked"}
      BY <1>1, <2>1, <2>4 DEF Fits, CopyOK
    <3>2. Suits(s, Onward(s, i), "remove", i)
      BY <2>1, <2>2, <3>1 DEF Suits
    <3> QED
      BY <2>1, <2>3, <2>4, <3>2, LifeBegin, LifeFails DEF Acts
  <2>5. CASE UNCHANGED <<file, mem, next, writing, unread, counts>>
    BY <2>1, <2>3, <2>5, LifeRead, SameLives
  <2> QED
    BY <1>8, <2>4, <2>5 DEF ClearNext
<1> QED
  BY <1>3, <1>4, <1>5, <1>6, <1>7, <1>8 DEF Looping

\* A crash loses what was not written; the copy is of no use until a load.
LEMMA CrashLives ==
  ASSUME Settled, NEW s \in Instances, Crash(s)
  PROVE  Goes(s)
<1>1. /\ job'[s] = Resting("unloaded") /\ writing' = writing \ {s}
      /\ UNCHANGED <<file, mem, peerStored, paired, ended>>
  BY NowJob DEF Crash, Settled
<1>2. Resting("unloaded").task = "unloaded"
  BY DEF Resting
<1>3. CopyOK(s)
  BY DEF Settled, LifeInv, Fits
<1>4. Fits(s)'
  BY <1>1, <1>2, <1>3 DEF Fits, CopyOK, OneOff, CeremonyOK, LoadOK, WriteOK
<1> QED
  BY <1>1, <1>4, SameLives DEF Goes

\* A step of the lifecycle takes no pairing a caller was given out of service
\* without its end, and ends none unnoticed.
LEMMA LivesKeeps ==
  ASSUME EndsKnown, PairedIsKept, file \in Sets, paired \subseteq Pairs, Lives
  PROVE  EndsKnown' /\ PairedIsKept'
<1> USE DEF EndsKnown, PairedIsKept, Sets
<1>1. CASE UNCHANGED Lifecycle!vars
  BY <1>1 DEF Lifecycle!vars
<1>2. ASSUME NEW i \in Pairs,
             Lifecycle!Wait(i) \/ Lifecycle!PhoneStores(i) \/ Lifecycle!Serve(i) \/ Lifecycle!Abandon(i)
      PROVE  EndsKnown' /\ PairedIsKept'
  BY <1>2 DEF Lifecycle!Wait, Lifecycle!PhoneStores, Lifecycle!Serve, Lifecycle!Abandon, Lifecycle!Becomes
<1>3. ASSUME NEW i \in Pairs, Lifecycle!End(i) PROVE EndsKnown' /\ PairedIsKept'
  BY <1>3 DEF Lifecycle!End, Lifecycle!Becomes
<1>4. ASSUME NEW gone \in SUBSET Pairs, Lifecycle!Clear(gone) PROVE EndsKnown' /\ PairedIsKept'
  BY <1>4 DEF Lifecycle!Clear
<1> QED
  BY <1>1, <1>2, <1>3, <1>4 DEF Lives, Lifecycle!Next

\* Before the first load.
LEMMA LifeInit == Init => LifeInv
<1> SUFFICES ASSUME Init PROVE LifeInv
  OBVIOUS
<1>1. \A s \in Instances : job[s].task = "unloaded" /\ s \notin writing /\ mem[s] = file
  BY DEF Init, Resting
<1>2. \A s \in Instances : Fits(s)
  BY <1>1 DEF Fits, CopyOK, OneOff, WriteOK, CeremonyOK, LoadOK
<1> QED
  BY <1>2 DEF LifeInv, EndsKnown, PairedIsKept, Init, NoRecords

\* With one instance every step is a step of the lifecycle, or none.
LEMMA LifeStep == Settled /\ [Next]_vars => LifeInv' /\ Lives
<1> SUFFICES ASSUME Settled, [Next]_vars PROVE LifeInv' /\ Lives
  OBVIOUS
<1>1. CASE UNCHANGED vars
  BY <1>1, SameLives DEF vars, Settled, LifeInv, EndsKnown, PairedIsKept, Fits, CopyOK, OneOff, WriteOK,
                         Allowed, CeremonyOK, LoadOK
<1>2. CASE Next
  <2>1. PICK s \in Instances : Loading(s) \/ Pairing(s) \/ Changing(s) \/ Looping(s) \/ Crash(s)
    BY <1>2 DEF Next
  <2>2. Goes(s)
    BY <2>1, LoadingLives, PairingLives, ChangingLives, LoopingLives, CrashLives
  <2>3. \A t \in Instances : t = s
    BY DEF Settled, OneInstance
  <2>4. \A t \in Instances : Fits(t)'
    BY <2>2, <2>3 DEF Goes
  <2>5. EndsKnown' /\ PairedIsKept'
    BY <2>2, LivesKeeps DEF Goes, Settled, ConfirmedInv, TypeOK, SetsTypeOK, HistoryTypeOK, LifeInv
  <2> QED
    BY <2>2, <2>4, <2>5 DEF Goes, LifeInv
<1> QED
  BY <1>1, <1>2

-----------------------------------------------------------------------------
(* The theorems.                                                             *)

\* Every step keeps the sets, the jobs and the counts well-formed.
THEOREM StoreTyped == Spec => []TypeOK
<1>1. Init => ConfirmedInv
  BY ConfirmedInit
<1>2. ConfirmedInv /\ [Next]_vars => ConfirmedInv'
  BY ConfirmedStep DEF Kept
<1>3. ConfirmedInv => TypeOK
  BY DEF ConfirmedInv
<1> QED
  BY <1>1, <1>2, <1>3, PTL DEF Spec

\* However many instances write over each other, and whatever fails between a
\* read and a write, the file serves no pairing whose phone did not store it.
THEOREM OnlyConfirmedServe == Spec => []ServingWasConfirmed
<1>1. Init => ConfirmedInv
  BY ConfirmedInit
<1>2. ConfirmedInv /\ [Next]_vars => ConfirmedInv'
  BY ConfirmedStep DEF Kept
<1>3. ConfirmedInv => ServingWasConfirmed
  BY DEF ConfirmedInv, Backed, ServingWasConfirmed
<1> QED
  BY <1>1, <1>2, <1>3, PTL DEF Spec

\* While no two instances change the set together, each from its read to its
\* rename, a pairing that ended never serves again, however many processes of the
\* user hold a copy.  The code holds no lock there: the run Store_resurrected
\* shows two instances that bring a pairing back.
THEOREM EndsLast == Spec /\ []Locked => []EndedStaysEnded
<1>1. Init => ConfirmedInv /\ EndedInv
  BY ConfirmedInit
<1>2. ConfirmedInv /\ EndedInv /\ Locked /\ [Next]_vars => ConfirmedInv' /\ EndedInv'
  BY ConfirmedStep DEF Kept
<1>3. EndedInv => EndedStaysEnded
  BY DEF EndedInv, EndedOver, EndedStaysEnded, Over
<1> QED
  BY <1>1, <1>2, <1>3, PTL DEF Spec

\* One instance is never in its own way.
LEMMA OneIsLocked == OneInstance => Locked
BY DEF OneInstance, Locked

\* With one instance a pairing that ended never serves again.
THEOREM EndsLastAlone == OneInstance => (Spec => []EndedStaysEnded)
<1> SUFFICES ASSUME OneInstance PROVE Spec => []EndedStaysEnded
  OBVIOUS
<1>1. Locked
  BY OneIsLocked
<1> QED
  BY <1>1, EndsLast, PTL

\* With one instance a pairing a caller was given serves until it is ended: no
\* load, refused write, unreadable file or death of the process takes it away.
THEOREM GivenIsKept == OneInstance => (Spec => []PairedIsKept)
<1> SUFFICES ASSUME OneInstance PROVE Spec => []PairedIsKept
  OBVIOUS
<1>1. Init => ConfirmedInv /\ EndedInv /\ LifeInv
  BY ConfirmedInit, LifeInit
<1>2. ConfirmedInv /\ EndedInv /\ LifeInv /\ [Next]_vars => ConfirmedInv' /\ EndedInv' /\ LifeInv'
  BY ConfirmedStep, LifeStep, OneIsLocked DEF Kept, Settled
<1>3. LifeInv => PairedIsKept
  BY DEF LifeInv
<1> QED
  BY <1>1, <1>2, <1>3, PTL DEF Spec

\* With one instance the store implements the lifecycle: the file, what the
\* phones stored and what the callers were told go through its steps, whatever
\* is refused, unreadable or lost between a read and a write.
THEOREM FollowsLifecycle == OneInstance => (Spec => ImplementsLifecycle)
<1> SUFFICES ASSUME OneInstance PROVE Spec => ImplementsLifecycle
  OBVIOUS
<1>1. Init => ConfirmedInv /\ EndedInv /\ LifeInv
  BY ConfirmedInit, LifeInit
<1>2. ConfirmedInv /\ EndedInv /\ LifeInv /\ [Next]_vars => ConfirmedInv' /\ EndedInv' /\ LifeInv'
  BY ConfirmedStep, LifeStep, OneIsLocked DEF Kept, Settled
<1>3. Init => Lifecycle!Init
  BY DEF Init, Lifecycle!Init, NoRecords
<1>4. ConfirmedInv /\ EndedInv /\ LifeInv /\ [Next]_vars => [Lifecycle!Next]_(Lifecycle!vars)
  BY LifeStep DEF Settled, Lives
<1> QED
  BY <1>1, <1>2, <1>3, <1>4, PTL DEF Spec, ImplementsLifecycle, Lifecycle!Spec
=============================================================================
