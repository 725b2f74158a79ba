------------------------- MODULE EvidenceStore_proofs -------------------------
(***************************************************************************)
(* For any writers and payloads, and without the bounds of the model:      *)
(* appenders never run into one another, an untouched chain is intact, and *)
(* an audit that passes vouches for every record up to a checkpoint.       *)
(*                                                                         *)
(* At the end, for any sessions, calls and manifests: what the MCP gateway *)
(* answers, and what its guard trusts (Mcp).                               *)
(***************************************************************************)
EXTENDS EvidenceStore, FiniteSetTheorems, WellFoundedInduction, TLAPS

(* No row is the absence of a row, nobody is not a writer, and the bounds  *)
(* of the model are numbers.                                               *)
StoreWellFormed ==
    /\ ~IsRow(NoRow) /\ NoOne \notin Writers
    /\ MaxSeq \in Nat /\ MaxMeddles \in Nat /\ MaxDamages \in Nat

-----------------------------------------------------------------------------
(* Numbers *)

(* The least-number principle, for a set instead of a predicate: this is   *)
(* how induction over the positions of the chain is done below.            *)
LEMMA LeastNumber ==
    ASSUME NEW T, T \subseteq Nat, T # {}
    PROVE  \E m \in T : \A n \in T : m <= n
<1>1. PICK Less : IsWellFoundedOn(Less, Nat) /\ \A m, n \in Nat : <<m, n>> \in Less <=> m < n
  <2> DEFINE L == OpToRel(<, Nat)
  <2>1. IsWellFoundedOn(L, Nat)
    BY NatLessThanWellFounded
  <2>2. \A m, n \in Nat : <<m, n>> \in L <=> m < n
    BY DEF OpToRel
  <2> QED
    BY <2>1, <2>2
<1>2. IsWellFoundedOn(Less, Nat)
  BY <1>1
<1>3. \E m \in T : \A n \in T : ~(<<n, m>> \in Less)
  BY ONLY <1>2, WFMin, T \subseteq Nat, T # {}, Zenon
<1>4. PICK m \in T : \A n \in T : ~(<<n, m>> \in Less)
  BY <1>3
<1>5. \A n \in T : m <= n
  <2> SUFFICES ASSUME NEW n \in T PROVE m <= n
    OBVIOUS
  <2>1. m \in Nat /\ n \in Nat /\ ~(<<n, m>> \in Less)
    BY <1>4
  <2>2. ~(n < m)
    BY <1>1, <2>1
  <2> QED
    BY <2>1, <2>2
<1> QED
  BY <1>5

(* What is bounded has a greatest element. *)
LEMMA GreatestNumber ==
    ASSUME NEW b \in Nat, NEW T, T \subseteq 0..b, T # {}
    PROVE  \E m \in T : \A n \in T : n <= m
<1> DEFINE U == {u \in Nat : u <= b /\ b - u \in T}
<1>1. PICK t \in T : TRUE
  OBVIOUS
<1>2. b - t \in U
  <2>1. t \in 0..b /\ b - t \in Nat /\ b - t <= b /\ b - (b - t) = t
    OBVIOUS
  <2> QED
    BY <2>1
<1>3. PICK m \in U : \A n \in U : m <= n
  <2>1. U \subseteq Nat /\ U # {}
    BY <1>2
  <2> HIDE DEF U
  <2> QED
    BY <2>1, LeastNumber
<1>4. m \in Nat /\ b - m \in T
  BY <1>3
<1>5. ASSUME NEW n \in T PROVE n <= b - m
  <2>1. n \in 0..b /\ b - n \in Nat /\ b - n <= b /\ b - (b - n) = n
    OBVIOUS
  <2>2. b - n \in U
    BY <2>1
  <2> QED
    BY <1>3, <1>4, <2>1, <2>2
<1> QED
  BY <1>4, <1>5

-----------------------------------------------------------------------------
(* The state *)

Record == [prev : Seq(Contents), content : Contents, hash : Seq(Contents)]

Appender == [pc : {"idle", "locking", "reading", "inserting", "committing", "done"},
             seq : Nat, prev : Seq(Contents), outcome : Outcomes]

Typed ==
    /\ rows \in [Seqs -> Record \cup {NoRow}]
    /\ checkpoints \subseteq [seq : Seqs, root : Seq(Contents)]
    /\ lock \in Writers \cup {NoOne}
    /\ writer \in [Writers -> Appender]
    /\ meddles \in 0..MaxMeddles /\ damages \in 0..MaxDamages

(* The advisory lock: whoever is past it holds it. *)
PastTheLock(w) == writer[w].pc \in {"reading", "inserting", "committing"}
LockIsHeld == \A w \in Writers : PastTheLock(w) => lock = w

(* Only a transaction that is over has an outcome. *)
OutcomesAreFinal ==
    \A w \in Writers : writer[w].outcome # "none" => writer[w].pc = "done"

(* Who is about to commit has room for its record. *)
CommittersFit ==
    \A w \in Writers : writer[w].pc = "committing" => writer[w].seq \in Seqs

Untouched == meddles = 0 /\ damages = 0

(* A hash covers as many records as its position says: no two are equal. *)
HashesGrow == \A q \in Written : Len(rows[q].hash) = q + 1

(* What a transaction read under the lock is still the end of the chain. *)
AtTheEnd(w) ==
    /\ \A q \in Written : q < writer[w].seq
    /\ writer[w].seq = 0 \/ writer[w].seq - 1 \in Written
    /\ writer[w].prev = IF writer[w].seq = 0 THEN Genesis ELSE rows[writer[w].seq - 1].hash

ReadersAtTheEnd ==
    \A w \in Writers : writer[w].pc \in {"inserting", "committing"} => AtTheEnd(w)

(* What callers were told is in its place, and nobody lost. *)
AppendedStays ==
    \A w \in Writers :
        /\ writer[w].outcome \notin {"fork_detected", "already_present"}
        /\ writer[w].outcome = "appended"
              => writer[w].seq \in Written /\ rows[writer[w].seq] = Sealed(w)

CheckpointsHold ==
    \A c \in checkpoints : c.seq \in Written /\ rows[c.seq].hash = c.root

ChainInv ==
    BundleVerifies /\ HashesGrow /\ ReadersAtTheEnd /\ AppendedStays /\ CheckpointsHold

EvidenceInv ==
    /\ Typed /\ LockIsHeld /\ OutcomesAreFinal /\ CommittersFit
    /\ Untouched => ChainInv

-----------------------------------------------------------------------------
(* Records *)

LEMMA RecordsAreRows == ASSUME StoreWellFormed, NEW r \in Record PROVE r # NoRow /\ IsRow(r)
<1>1. IsRow(r)
  BY DEF Record, IsRow
<1> QED
  BY <1>1 DEF StoreWellFormed

LEMMA RowIsRecord ==
    ASSUME NEW prev \in Seq(Contents), NEW content \in Contents
    PROVE  Row(prev, content) \in Record
<1>1. Append(prev, content) \in Seq(Contents)
  OBVIOUS
<1> QED
  BY <1>1 DEF Row, RecordHash, Record

LEMMA SealedIsRecord ==
    ASSUME StoreWellFormed, Typed, NEW w \in Writers
    PROVE  /\ Sealed(w) \in Record /\ Sealed(w) # NoRow
           /\ Sealed(w).prev = writer[w].prev
           /\ Sealed(w).hash = RecordHash(Sealed(w).prev, Sealed(w).content)
           /\ Len(Sealed(w).hash) = Len(writer[w].prev) + 1
<1>1. writer[w].prev \in Seq(Contents) /\ ContentOf[w] \in Contents
  BY DEF Typed, Appender, Contents
<1>2. Sealed(w) \in Record
  BY <1>1, RowIsRecord DEF Sealed
<1>3. Sealed(w) # NoRow
  BY <1>2, RecordsAreRows
<1>4. Len(Append(writer[w].prev, ContentOf[w])) = Len(writer[w].prev) + 1
  BY <1>1
<1> QED
  BY <1>2, <1>3, <1>4 DEF Sealed, Row, RecordHash

LEMMA WrittenRows ==
    ASSUME StoreWellFormed, Typed
    PROVE  Written \subseteq Seqs /\ \A q \in Written : rows[q] \in Record
BY DEF Typed, Written

-----------------------------------------------------------------------------
(* Steps of the store *)

LEMMA InitChain == ASSUME StoreWellFormed, Init PROVE EvidenceInv
<1>1. Written = {}
  BY DEF Init, Written
<1>2. Genesis \in Seq(Contents)
  BY DEF Genesis
<1>3. Typed
  BY <1>2 DEF StoreWellFormed, Init, Typed, Appender, Outcomes
<1>4. LockIsHeld /\ OutcomesAreFinal /\ CommittersFit
  BY DEF Init, LockIsHeld, PastTheLock, OutcomesAreFinal, CommittersFit
<1>5. ChainInv
  BY <1>1 DEF Init, ChainInv, BundleVerifies, HashesGrow, ReadersAtTheEnd, AppendedStays,
              CheckpointsHold
<1> QED
  BY <1>3, <1>4, <1>5 DEF EvidenceInv

(* A transaction that moves on and leaves the tables alone keeps the       *)
(* chain, if it knows the end of it when it is about to insert.            *)
LEMMA MovingOn ==
    ASSUME StoreWellFormed, EvidenceInv, NEW w \in Writers, NEW new \in Appender,
           writer' = [writer EXCEPT ![w] = new],
           lock' \in Writers \cup {NoOne},
           UNCHANGED <<tables, meddles, damages>>,
           \A v \in Writers \ {w} : PastTheLock(v) => lock' = v,
           new.pc \in {"reading", "inserting", "committing"} => lock' = w,
           new.outcome # "none" => new.pc = "done",
           new.pc = "committing" => new.seq \in Seqs,
           Untouched => new.outcome \notin {"fork_detected", "already_present", "appended"},
           Untouched /\ new.pc \in {"inserting", "committing"} => AtTheEnd(w)'
    PROVE  EvidenceInv'
<1>1. \A v \in Writers : writer'[v] = IF v = w THEN new ELSE writer[v]
  BY DEF EvidenceInv, Typed
<1>2. Written' = Written /\ rows' = rows /\ checkpoints' = checkpoints
  BY DEF tables, Written
<1>3. Typed'
  BY <1>2 DEF EvidenceInv, Typed, tables
<1>4. LockIsHeld' /\ OutcomesAreFinal' /\ CommittersFit'
  BY <1>1 DEF EvidenceInv, LockIsHeld, PastTheLock, OutcomesAreFinal, CommittersFit
<1>5. ASSUME Untouched' PROVE ChainInv'
  <2>1. Untouched /\ ChainInv
    BY <1>5 DEF Untouched, EvidenceInv
  <2>2. BundleVerifies' /\ HashesGrow' /\ CheckpointsHold'
    BY <1>2, <2>1 DEF ChainInv, BundleVerifies, HashesGrow, CheckpointsHold
  <2>3. ReadersAtTheEnd'
    BY <1>1, <1>2, <2>1 DEF ChainInv, ReadersAtTheEnd, AtTheEnd
  <2>4. AppendedStays'
    BY <1>1, <1>2, <2>1 DEF ChainInv, AppendedStays, Sealed
  <2> QED
    BY <2>2, <2>3, <2>4 DEF ChainInv
<1> QED
  BY <1>3, <1>4, <1>5 DEF EvidenceInv

(* Under the lock, and with nobody writing past the store, nothing is      *)
(* where the record will go.                                               *)
LEMMA NotTaken ==
    ASSUME StoreWellFormed, EvidenceInv, Untouched, NEW w \in Writers,
           writer[w].pc \in {"inserting", "committing"}
    PROVE  ~Taken(w)
<1>1. AtTheEnd(w) /\ HashesGrow /\ writer[w].seq \in Nat
  BY DEF EvidenceInv, ChainInv, ReadersAtTheEnd, Typed, Appender
<1>2. writer[w].seq \notin Written
  BY <1>1 DEF AtTheEnd, EvidenceInv, Typed, Written, Seqs
<1>3. Len(writer[w].prev) = writer[w].seq
  BY <1>1 DEF AtTheEnd, HashesGrow, Genesis
<1>4. Len(Sealed(w).hash) = writer[w].seq + 1
  BY <1>3, SealedIsRecord DEF EvidenceInv
<1>5. ASSUME NEW q \in Written PROVE rows[q].hash # Sealed(w).hash
  <2>1. Len(rows[q].hash) = q + 1 /\ q < writer[w].seq /\ q \in Nat
    BY <1>1 DEF AtTheEnd, HashesGrow, Written, Seqs
  <2> QED
    BY <1>1, <1>4, <2>1
<1> QED
  BY <1>2, <1>5 DEF Taken

LEMMA BeginChain ==
    ASSUME StoreWellFormed, EvidenceInv, NEW w \in Writers, Begin(w) PROVE EvidenceInv'
<1> DEFINE new == [writer[w] EXCEPT !.pc = "locking"]
<1>1. /\ new \in Appender /\ writer' = [writer EXCEPT ![w] = new]
      /\ new.pc = "locking" /\ new.outcome = "none"
  BY DEF Begin, Goto, EvidenceInv, Typed, Appender, OutcomesAreFinal
<1>2. \A v \in Writers \ {w} : PastTheLock(v) => lock' = v
  BY DEF Begin, EvidenceInv, LockIsHeld
<1>3. lock' \in Writers \cup {NoOne} /\ UNCHANGED <<tables, meddles, damages>>
  BY DEF Begin, EvidenceInv, Typed
<1> HIDE DEF new
<1> QED
  BY <1>1, <1>2, <1>3, MovingOn

LEMMA LockChain ==
    ASSUME StoreWellFormed, EvidenceInv, NEW w \in Writers, LockTenant(w) PROVE EvidenceInv'
<1> DEFINE new == [writer[w] EXCEPT !.pc = "reading"]
<1>1. /\ new \in Appender /\ writer' = [writer EXCEPT ![w] = new]
      /\ new.pc = "reading" /\ new.outcome = "none"
  BY DEF LockTenant, Goto, EvidenceInv, Typed, Appender, OutcomesAreFinal
<1>2. \A v \in Writers : ~PastTheLock(v)
  BY DEF LockTenant, EvidenceInv, LockIsHeld, StoreWellFormed
<1>3. lock' = w /\ UNCHANGED <<tables, meddles, damages>>
  BY DEF LockTenant
<1> HIDE DEF new
<1> QED
  BY <1>1, <1>2, <1>3, MovingOn

(* A statement after the lock reads the end of the chain. *)
LEMMA ReadChain ==
    ASSUME StoreWellFormed, EvidenceInv, NEW w \in Writers, ReadHead(w) PROVE EvidenceInv'
<1> DEFINE seq == IF Written = {} THEN 0 ELSE LastSeq + 1
           prev == IF Written = {} THEN Genesis ELSE rows[LastSeq].hash
           new == [writer[w] EXCEPT !.pc = "inserting", !.seq = seq, !.prev = prev]
<1>1. Written # {} => LastSeq \in Written /\ \A q \in Written : q <= LastSeq
  <2>1. Written \subseteq 0..MaxSeq /\ MaxSeq \in Nat
    BY WrittenRows DEF Seqs, EvidenceInv, StoreWellFormed
  <2> SUFFICES ASSUME Written # {}
               PROVE  LastSeq \in Written /\ \A q \in Written : q <= LastSeq
    OBVIOUS
  <2>2. \E m \in Written : \A n \in Written : n <= m
    BY <2>1, GreatestNumber
  <2> QED
    BY <2>2 DEF LastSeq
<1>2. seq \in Nat /\ prev \in Seq(Contents)
  <2>1. CASE Written = {}
    BY <2>1 DEF Genesis
  <2>2. CASE Written # {}
    BY <1>1, <2>2, WrittenRows DEF EvidenceInv, Seqs, Record
  <2> QED
    BY <2>1, <2>2
<1>3. /\ \A q \in Written : q < seq
      /\ seq = 0 \/ seq - 1 \in Written
      /\ prev = IF seq = 0 THEN Genesis ELSE rows[seq - 1].hash
  <2>1. CASE Written = {}
    BY <2>1
  <2>2. CASE Written # {}
    <3>1. LastSeq \in Nat /\ \A q \in Written : q \in Nat
      BY <1>1, <2>2, WrittenRows DEF EvidenceInv, Seqs
    <3>2. seq = LastSeq + 1 /\ seq # 0 /\ seq - 1 = LastSeq /\ prev = rows[LastSeq].hash
      BY <2>2, <3>1
    <3>3. \A q \in Written : q < LastSeq + 1
      BY <1>1, <2>2, <3>1
    <3> HIDE DEF seq, prev
    <3> QED
      BY <1>1, <2>2, <3>2, <3>3
  <2> QED
    BY <2>1, <2>2
<1>4. writer' = [writer EXCEPT ![w] = new] /\ UNCHANGED <<tables, lock, meddles, damages>>
  BY DEF ReadHead
<1> HIDE DEF seq, prev
<1>5. /\ new \in Appender /\ new.pc = "inserting" /\ new.outcome = "none"
      /\ new.seq = seq /\ new.prev = prev
  BY <1>2 DEF ReadHead, EvidenceInv, Typed, Appender, OutcomesAreFinal
<1>6. lock = w /\ \A v \in Writers \ {w} : ~PastTheLock(v)
  BY DEF ReadHead, EvidenceInv, LockIsHeld, PastTheLock
<1>7. AtTheEnd(w)'
  <2>1. writer'[w] = new /\ rows' = rows /\ Written' = Written
    BY <1>4 DEF EvidenceInv, Typed, tables, Written
  <2> HIDE DEF new
  <2> QED
    BY <1>3, <1>5, <2>1 DEF AtTheEnd
<1> HIDE DEF new
<1> QED
  BY <1>4, <1>5, <1>6, <1>7, MovingOn

LEMMA InsertChain ==
    ASSUME StoreWellFormed, EvidenceInv, NEW w \in Writers, Insert(w) PROVE EvidenceInv'
<1> DEFINE new == [writer[w] EXCEPT !.pc = "committing"]
<1>1. /\ new \in Appender /\ writer' = [writer EXCEPT ![w] = new]
      /\ new.pc = "committing" /\ new.outcome = "none"
      /\ new.seq = writer[w].seq /\ new.prev = writer[w].prev /\ new.seq \in Seqs
  BY DEF Insert, Goto, EvidenceInv, Typed, Appender, OutcomesAreFinal
<1>2. lock = w /\ \A v \in Writers \ {w} : ~PastTheLock(v)
  BY DEF Insert, EvidenceInv, LockIsHeld, PastTheLock
<1>3. UNCHANGED <<tables, lock, meddles, damages>>
  BY DEF Insert
<1>4. ASSUME Untouched PROVE AtTheEnd(w)'
  <2>1. AtTheEnd(w)
    BY <1>4 DEF Insert, EvidenceInv, ChainInv, ReadersAtTheEnd
  <2>2. writer'[w] = new /\ rows' = rows /\ Written' = Written
    BY <1>1, <1>3 DEF EvidenceInv, Typed, tables, Written
  <2> HIDE DEF new
  <2> QED
    BY <1>1, <2>1, <2>2 DEF AtTheEnd
<1> HIDE DEF new
<1> QED
  BY <1>1, <1>2, <1>3, <1>4, MovingOn

(* A transaction that ends without a record. *)
LEMMA EndChain ==
    ASSUME StoreWellFormed, EvidenceInv, NEW w \in Writers,
           NEW outcome \in {"fork_detected", "already_present", "unavailable"},
           End(w, outcome), UNCHANGED <<tables, meddles, damages>>,
           Untouched => outcome = "unavailable"
    PROVE  EvidenceInv'
<1> DEFINE new == [writer[w] EXCEPT !.pc = "done", !.outcome = outcome]
<1>1. /\ new \in Appender /\ writer' = [writer EXCEPT ![w] = new]
      /\ new.pc = "done" /\ new.outcome = outcome
  BY DEF End, EvidenceInv, Typed, Appender, Outcomes
<1>2. \A v \in Writers \ {w} : PastTheLock(v) => lock' = v
  BY DEF End, EvidenceInv, LockIsHeld
<1>3. lock' \in Writers \cup {NoOne}
  BY DEF End, EvidenceInv, Typed
<1> HIDE DEF new
<1> QED
  BY <1>1, <1>2, <1>3, MovingOn

LEMMA LoseChain ==
    ASSUME StoreWellFormed, EvidenceInv, NEW w \in Writers, Lose(w) PROVE EvidenceInv'
<1>1. ~Untouched
  BY NotTaken DEF Lose
<1>2. PICK outcome \in {"fork_detected", "already_present"} : End(w, outcome)
  BY DEF Lose
<1> QED
  BY <1>1, <1>2, EndChain DEF Lose

LEMMA AbortChain ==
    ASSUME StoreWellFormed, EvidenceInv, NEW w \in Writers, Abort(w) PROVE EvidenceInv'
BY EndChain DEF Abort

(* A commit puts one record behind the last and moves no other. *)
LEMMA CommitChain ==
    ASSUME StoreWellFormed, EvidenceInv, NEW w \in Writers, Commit(w)
    PROVE  EvidenceInv'
<1> DEFINE n == writer[w].seq
<1>0. n \in Seqs
  BY DEF Commit, EvidenceInv, CommittersFit
<1>1. PICK told \in {"appended", "unavailable"} : End(w, told)
  BY DEF Commit
<1>2. /\ Sealed(w) \in Record /\ Sealed(w) # NoRow /\ Sealed(w).prev = writer[w].prev
      /\ Sealed(w).hash = RecordHash(Sealed(w).prev, Sealed(w).content)
      /\ Len(Sealed(w).hash) = Len(writer[w].prev) + 1
  BY SealedIsRecord DEF EvidenceInv
<1>3. \A q \in Seqs : rows'[q] = IF q = n THEN Sealed(w) ELSE rows[q]
  BY DEF Commit, EvidenceInv, Typed
<1>4. Written' = Written \cup {n}
  BY <1>0, <1>2, <1>3 DEF Written
<1>5. writer' = [writer EXCEPT ![w] = [@ EXCEPT !.pc = "done", !.outcome = told]]
  BY <1>1 DEF End
<1>6. \A v \in Writers : /\ writer'[v].seq = writer[v].seq /\ writer'[v].prev = writer[v].prev
                         /\ v # w => writer'[v] = writer[v]
                         /\ v = w => writer'[v].pc = "done" /\ writer'[v].outcome = told
  BY <1>5 DEF EvidenceInv, Typed, Appender
<1>7. Typed'
  <2>1. rows' \in [Seqs -> Record \cup {NoRow}] /\ checkpoints' = checkpoints
    BY <1>2 DEF Commit, EvidenceInv, Typed
  <2>2. writer' \in [Writers -> Appender]
    BY <1>5 DEF EvidenceInv, Typed, Appender, Outcomes
  <2>3. lock' \in Writers \cup {NoOne} /\ UNCHANGED <<meddles, damages>>
    BY <1>1 DEF End, Commit, EvidenceInv, Typed
  <2> QED
    BY <2>1, <2>2, <2>3 DEF EvidenceInv, Typed
<1>8. lock = w /\ \A v \in Writers \ {w} : ~PastTheLock(v)
  BY DEF Commit, EvidenceInv, LockIsHeld, PastTheLock
<1>9. LockIsHeld' /\ OutcomesAreFinal' /\ CommittersFit'
  BY <1>6, <1>8 DEF EvidenceInv, LockIsHeld, PastTheLock, OutcomesAreFinal, CommittersFit
<1>10. ASSUME Untouched' PROVE ChainInv'
  <2>1. ChainInv /\ AtTheEnd(w)
    BY <1>10 DEF Untouched, Commit, EvidenceInv, ChainInv, ReadersAtTheEnd
  <2>2. n \notin Written /\ n \in Nat /\ Written \subseteq Nat
    BY <1>0, <2>1, WrittenRows DEF AtTheEnd, EvidenceInv, Seqs
  <2>3. /\ \A q \in Written : rows'[q] = rows[q]
        /\ rows'[n] = Sealed(w)
    BY <1>0, <1>3, <2>2, WrittenRows DEF EvidenceInv
  <2>4. Len(writer[w].prev) = n
    BY <2>1 DEF ChainInv, AtTheEnd, HashesGrow, Genesis, EvidenceInv, Typed, Appender
  <2>5. BundleVerifies'
    <3> SUFFICES ASSUME NEW q \in Written'
                 PROVE  /\ q = 0 \/ q - 1 \in Written'
                        /\ rows'[q].prev = IF q = 0 THEN Genesis ELSE rows'[q - 1].hash
                        /\ rows'[q].hash = RecordHash(rows'[q].prev, rows'[q].content)
      BY DEF BundleVerifies
    <3>1. CASE q \in Written
      BY <1>4, <2>1, <2>3, <3>1 DEF ChainInv, BundleVerifies
    <3>2. CASE q = n
      BY <1>2, <1>4, <2>1, <2>3, <3>2 DEF AtTheEnd
    <3> QED
      BY <1>4, <3>1, <3>2
  <2>6. HashesGrow'
    BY <1>2, <1>4, <2>1, <2>3, <2>4 DEF ChainInv, HashesGrow
  <2>7. ReadersAtTheEnd'
    BY <1>6, <1>8 DEF ReadersAtTheEnd, PastTheLock
  <2>8. \A v \in Writers : Sealed(v)' = Sealed(v)
    BY <1>6 DEF Sealed
  <2>9. AppendedStays'
    BY <1>4, <1>6, <2>1, <2>3, <2>8 DEF ChainInv, AppendedStays
  <2>10. CheckpointsHold'
    BY <1>4, <2>1, <2>3 DEF Commit, ChainInv, CheckpointsHold
  <2> QED
    BY <2>5, <2>6, <2>7, <2>9, <2>10 DEF ChainInv
<1> QED
  BY <1>7, <1>9, <1>10 DEF EvidenceInv

-----------------------------------------------------------------------------
(* Checkpoints, and what happens behind the store's back *)

LEMMA CheckpointChain ==
    ASSUME StoreWellFormed, EvidenceInv, NEW q \in Seqs, Checkpoint(q) PROVE EvidenceInv'
<1>1. q \in Written /\ rows[q] \in Record
  BY WrittenRows DEF Checkpoint, EvidenceInv
<1>2. Typed'
  BY <1>1 DEF Checkpoint, EvidenceInv, Typed, Record
<1>3. LockIsHeld' /\ OutcomesAreFinal' /\ CommittersFit'
  BY DEF Checkpoint, EvidenceInv, LockIsHeld, PastTheLock, OutcomesAreFinal, CommittersFit
<1>4. Written' = Written /\ UNCHANGED <<rows, writer>>
  BY DEF Checkpoint, Written
<1>5. ASSUME Untouched' PROVE ChainInv'
  <2>1. ChainInv
    BY <1>5 DEF Untouched, Checkpoint, EvidenceInv
  <2>2. BundleVerifies' /\ HashesGrow' /\ ReadersAtTheEnd' /\ AppendedStays'
    BY <1>4, <2>1 DEF ChainInv, BundleVerifies, HashesGrow, ReadersAtTheEnd, AtTheEnd,
                      AppendedStays, Sealed
  <2>3. CheckpointsHold'
    BY <1>1, <1>4, <2>1 DEF Checkpoint, ChainInv, CheckpointsHold
  <2> QED
    BY <2>2, <2>3 DEF ChainInv
<1> QED
  BY <1>2, <1>3, <1>5 DEF EvidenceInv

(* Rows written by somebody else end what is known of the chain, and that  *)
(* is all they change.                                                     *)
LEMMA TouchedChain ==
    ASSUME EvidenceInv, NEW q \in Seqs, NEW row \in Record \cup {NoRow},
           rows' = [rows EXCEPT ![q] = row],
           meddles' \in 0..MaxMeddles, damages' \in 0..MaxDamages, ~Untouched',
           UNCHANGED <<checkpoints, lock, writer>>
    PROVE  EvidenceInv'
<1>1. Typed'
  BY DEF EvidenceInv, Typed
<1>2. LockIsHeld' /\ OutcomesAreFinal' /\ CommittersFit'
  BY DEF EvidenceInv, LockIsHeld, PastTheLock, OutcomesAreFinal, CommittersFit
<1> QED
  BY <1>1, <1>2 DEF EvidenceInv

LEMMA MeddleChain ==
    ASSUME StoreWellFormed, EvidenceInv, NEW q \in Seqs,
           NEW prev \in {Genesis} \cup {rows[r].hash : r \in Written}, Meddle(q, prev)
    PROVE  EvidenceInv'
<1>1. prev \in Seq(Contents)
  <2>1. Genesis \in Seq(Contents)
    BY DEF Genesis
  <2>2. \A r \in Written : rows[r].hash \in Seq(Contents)
    BY WrittenRows DEF EvidenceInv, Record
  <2> QED
    BY <2>1, <2>2
<1>2. Row(prev, Foreign) \in Record
  BY <1>1, RowIsRecord DEF Contents
<1>3. meddles' \in 0..MaxMeddles /\ damages' = damages /\ ~Untouched'
  BY DEF StoreWellFormed, Meddle, EvidenceInv, Typed, Untouched
<1> QED
  BY <1>2, <1>3, TouchedChain DEF Meddle, EvidenceInv, Typed

LEMMA DamageChain ==
    ASSUME StoreWellFormed, EvidenceInv, NEW q \in Seqs, NEW row \in Record \cup {NoRow},
           Damage(q, row)
    PROVE  EvidenceInv'
<1>1. damages' \in 0..MaxDamages /\ meddles' = meddles /\ ~Untouched'
  BY DEF StoreWellFormed, Damage, EvidenceInv, Typed, Untouched
<1> QED
  BY <1>1, TouchedChain DEF Damage, EvidenceInv, Typed

LEMMA NextChain ==
    ASSUME StoreWellFormed, EvidenceInv, [Next]_vars PROVE EvidenceInv'
<1>1. ASSUME NEW w \in Writers,
             \/ Begin(w) \/ LockTenant(w) \/ ReadHead(w) \/ Insert(w)
             \/ Lose(w) \/ Commit(w) \/ Abort(w)
      PROVE  EvidenceInv'
  BY <1>1, BeginChain, LockChain, ReadChain, InsertChain, LoseChain, CommitChain, AbortChain
<1>2. ASSUME NEW q \in Seqs, Checkpoint(q) PROVE EvidenceInv'
  BY <1>2, CheckpointChain
<1>3. ASSUME NEW q \in Seqs, NEW prev \in {Genesis} \cup {rows[r].hash : r \in Written},
             Meddle(q, prev)
      PROVE  EvidenceInv'
  BY <1>3, MeddleChain
<1>4. ASSUME NEW q \in Seqs,
             \/ Damage(q, NoRow)
             \/ q \in Written /\ Damage(q, [rows[q] EXCEPT !.content = Foreign])
             \/ q \in Written /\ Damage(q, Row(rows[q].prev, Foreign))
      PROVE  EvidenceInv'
  <2>1. Foreign \in Contents
    BY DEF Contents
  <2>2. q \in Written => /\ [rows[q] EXCEPT !.content = Foreign] \in Record
                         /\ Row(rows[q].prev, Foreign) \in Record
    BY <2>1, WrittenRows, RowIsRecord DEF EvidenceInv, Record
  <2> QED
    BY <1>4, <2>2, DamageChain
<1>5. CASE UNCHANGED vars
  <2>1. Written' = Written
    BY <1>5 DEF vars, Written
  <2> QED
    BY <1>5, <2>1 DEF vars, EvidenceInv, Typed, LockIsHeld, PastTheLock, OutcomesAreFinal,
                CommittersFit, Untouched, ChainInv, BundleVerifies, HashesGrow,
                ReadersAtTheEnd, AtTheEnd, AppendedStays, Sealed, CheckpointsHold
<1> QED
  BY <1>1, <1>2, <1>3, <1>4, <1>5 DEF Next

LEMMA EvidenceInvariant == ASSUME StoreWellFormed PROVE Spec => []EvidenceInv
<1> QED
  BY InitChain, NextChain, PTL DEF Spec

-----------------------------------------------------------------------------
(* The state stays within its types. *)
THEOREM EvidenceTyped == ASSUME StoreWellFormed PROVE Spec => []EvidenceTypeOK
<1>1. EvidenceInv => EvidenceTypeOK
  <2> SUFFICES ASSUME EvidenceInv PROVE EvidenceTypeOK
    OBVIOUS
  <2>1. \A q \in Seqs : rows[q] = NoRow \/ IsRow(rows[q])
    BY RecordsAreRows DEF EvidenceInv, Typed
  <2> QED
    BY <2>1 DEF EvidenceInv, Typed, Appender, EvidenceTypeOK
<1> QED
  BY <1>1, EvidenceInvariant, PTL

(* "With the advisory lock held that should be unreachable": whatever the  *)
(* appenders of any number of processes do, and wherever they abort, a     *)
(* fork or a record already there means that somebody wrote past the       *)
(* store.                                                                  *)
THEOREM AppendersNeverFork == ASSUME StoreWellFormed PROVE Spec => []ForksAreForeign
<1>1. EvidenceInv => ForksAreForeign
  <2> SUFFICES ASSUME EvidenceInv, meddles = 0, damages = 0 PROVE ForksAreForeign
    BY DEF EvidenceInv, Typed, ForksAreForeign
  <2>1. AppendedStays
    BY DEF EvidenceInv, Untouched, ChainInv
  <2> QED
    BY <2>1 DEF AppendedStays, ForksAreForeign
<1> QED
  BY <1>1, EvidenceInvariant, PTL

-----------------------------------------------------------------------------
(* What an audit that passes vouches for *)

(* The contents of the first records. *)
Content(q) == [i \in 1..(q + 1) |-> rows[i - 1].content]

(* A record behind one whose hash covers all contents so far covers them   *)
(* and its own.                                                            *)
LEMMA HashCovers ==
    ASSUME StoreWellFormed, Typed, BundleVerifies, NEW q \in Written,
           q # 0 => rows[q - 1].hash = Content(q - 1)
    PROVE  rows[q].hash = Content(q)
<1>1. q \in Nat /\ rows[q] \in Record
  BY WrittenRows DEF Seqs
<1>2. rows[q].hash = Append(rows[q].prev, rows[q].content)
  BY DEF BundleVerifies, RecordHash
<1>3. CASE q = 0
  <2>1. rows[q].prev = <<>>
    BY <1>3 DEF BundleVerifies, Genesis
  <2>2. rows[q].hash = <<rows[0].content>>
    BY <1>2, <1>3, <2>1
  <2>3. Content(q) = [i \in 1..1 |-> rows[i - 1].content]
    BY <1>3 DEF Content
  <2> QED
    BY <2>2, <2>3
<1>4. CASE q # 0
  <2>1. rows[q].prev = Content(q - 1) /\ rows[q].prev \in Seq(Contents)
    BY <1>1, <1>4 DEF BundleVerifies, Record
  <2>2. Len(rows[q].prev) = q /\ \A i \in 1..q : rows[q].prev[i] = rows[i - 1].content
    BY <1>1, <1>4, <2>1 DEF Content
  <2>3. /\ rows[q].hash \in Seq(Contents) /\ Len(rows[q].hash) = q + 1
        /\ \A i \in 1..(q + 1) : rows[q].hash[i] = rows[i - 1].content
    <3> DEFINE before == rows[q].prev
               last == rows[q].content
    <3>1. before \in Seq(Contents) /\ last \in Contents /\ Len(before) = q
      BY <1>1, <2>1, <2>2 DEF Record
    <3>2. \A i \in 1..q : before[i] = rows[i - 1].content
      BY <2>2
    <3>3. rows[q].hash = Append(before, last)
      BY <1>2
    <3> HIDE DEF before, last
    <3>4. /\ Append(before, last) \in Seq(Contents) /\ Len(Append(before, last)) = q + 1
          /\ \A i \in 1..q : Append(before, last)[i] = before[i]
          /\ Append(before, last)[q + 1] = last
      BY <1>1, <3>1
    <3>5. last = rows[(q + 1) - 1].content
      BY <1>1 DEF last
    <3>6. \A i \in 1..(q + 1) : i \in 1..q \/ i = q + 1
      BY <1>1
    <3> QED
      BY <3>2, <3>3, <3>4, <3>5, <3>6
  <2>4. rows[q].hash = [i \in 1..(q + 1) |-> rows[q].hash[i]]
    BY <2>3
  <2> QED
    BY <2>3, <2>4 DEF Content
<1> QED
  BY <1>3, <1>4

(* By the least position whose hash would not cover what is before it.     *)
LEMMA ChainCovers ==
    ASSUME StoreWellFormed, Typed, BundleVerifies
    PROVE  \A q \in Written : rows[q].hash = Content(q)
<1> DEFINE Wrong == {q \in Written : rows[q].hash # Content(q)}
<1> SUFFICES ASSUME Wrong # {} PROVE FALSE
  OBVIOUS
<1>1. Written \subseteq Nat
  BY WrittenRows DEF Seqs
<1>2. PICK q \in Wrong : \A p \in Wrong : q <= p
  <2>1. Wrong \subseteq Nat
    BY <1>1
  <2> HIDE DEF Wrong
  <2> QED
    BY <2>1, LeastNumber
<1>3. ASSUME q # 0 PROVE rows[q - 1].hash = Content(q - 1)
  <2>1. q - 1 \in Written /\ ~(q <= q - 1)
    BY <1>1, <1>3 DEF BundleVerifies
  <2> QED
    BY <1>2, <2>1
<1> QED
  BY <1>2, <1>3, HashCovers

(* The audit neither cries wolf nor lets history go: an untouched chain is *)
(* intact with every acknowledged record in its place; and whatever was    *)
(* done to a chain, if the audit passes, then up to each checkpoint it     *)
(* holds the very contents that were there when the checkpoint was made.   *)
THEOREM AuditsTellTruth == ASSUME StoreWellFormed PROVE Spec => []AuditTellsTruth
<1>1. EvidenceInv => AuditTellsTruth
  <2> SUFFICES ASSUME EvidenceInv PROVE AuditTellsTruth
    OBVIOUS
  <2>1. ASSUME meddles + damages = 0
        PROVE  /\ Intact
               /\ \A w \in Writers : writer[w].outcome = "appended"
                                       => rows[writer[w].seq] = Sealed(w)
    <3>1. Untouched
      BY <2>1 DEF EvidenceInv, Typed, Untouched
    <3> QED
      BY <3>1 DEF EvidenceInv, ChainInv, Intact, CheckpointsHold, AppendedStays
  <2>2. ASSUME Intact, NEW c \in checkpoints
        PROVE  [i \in 1..(c.seq + 1) |-> rows[i - 1].content] = c.root
    <3>1. c.seq \in Written /\ rows[c.seq].hash = c.root
      BY <2>2 DEF Intact
    <3>2. rows[c.seq].hash = Content(c.seq)
      BY <2>2, <3>1, ChainCovers DEF Intact, EvidenceInv
    <3> QED
      BY <3>1, <3>2 DEF Content
  <2> QED
    BY <2>1, <2>2 DEF AuditTellsTruth
<1> QED
  BY <1>1, EvidenceInvariant, PTL

-----------------------------------------------------------------------------
(***************************************************************************)
(* The MCP gateway (Mcp): what it tells its callers, and what its guard of *)
(* the manifests trusts.  NoRow is the absence of a server's row here.     *)
(***************************************************************************)
CONSTANTS Sessions, Calls, Tools, Manifests, Rows, NoManifest, MaxChanges, MaxReviews
VARIABLES upstream, session, call, servers, versions, review, recorded, changes, reviews

M == INSTANCE Mcp

-----------------------------------------------------------------------------
(* What the gateway answers *)

Fields == {"tool", "manifest", "row", "stage", "outcome", "ran"}

(* Some row took the manifest on first use, or an operator approved it. *)
TrustedIn(table, tool, manifest) ==
    \E v \in table : v.tool = tool /\ v.manifest = manifest /\ (v.first \/ v.blessed)

(* What is trusted once is trusted ever after. *)
TrustLasts == \A t, m : TrustedIn(versions, t, m) => TrustedIn(versions', t, m)

(* The guard lets nothing through but what somebody trusted. *)
JudgedIsTrusted ==
    \A c \in Calls : M!Judge(c) /\ M!Goto(c, "policy") =>
        TrustedIn(versions', call[c].tool, call[c].manifest)

(* A call is recorded when it ends and not before, one that is blocked     *)
(* never reaches the tool, and one that is let through has a manifest      *)
(* somebody trusted.                                                       *)
Answers(c) ==
    /\ Fields \subseteq DOMAIN call[c]
    /\ call[c].stage \in {"policy", "run"} \/ call[c].outcome \in {"listed", "executed", "failed"} =>
          TrustedIn(versions, call[c].tool, call[c].manifest)
    /\ call[c].stage \notin {"record", "done"} => call[c].outcome = "none" /\ ~call[c].ran
    /\ call[c].stage = "record" => call[c].outcome \in {"blocked", "executed", "failed"}
    /\ call[c].outcome = "blocked" => ~call[c].ran
    /\ call[c].stage # "done" => \A r \in recorded : r[1] # c
    /\ \A r \in recorded : r[1] = c => r = <<c, call[c].outcome>>
    /\ call[c].stage = "done" /\ call[c].outcome \in {"blocked", "executed", "failed"} =>
          <<c, call[c].outcome>> \in recorded
AnswersInv ==
    /\ DOMAIN call = Calls
    /\ \A r \in recorded : r[1] \in Calls
    /\ \A c \in Calls : Answers(c)

LEMMA InitAnswers == M!Init => AnswersInv
<1> SUFFICES ASSUME M!Init PROVE AnswersInv
  OBVIOUS
<1>1. recorded = {}
  BY DEF M!Init
<1>2. DOMAIN call = Calls
  BY DEF M!Init
<1>3. ASSUME NEW c \in Calls
      PROVE  /\ call[c].stage = "idle" /\ call[c].outcome = "none" /\ ~call[c].ran
             /\ Fields \subseteq DOMAIN call[c]
  BY DEF M!Init, Fields
<1> QED
  BY <1>1, <1>2, <1>3 DEF AnswersInv, Answers, Fields

LEMMA UnrecordedSteps ==
    ASSUME AnswersInv, TrustLasts, NEW c \in Calls, recorded' = recorded,
           NEW new, call' = [call EXCEPT ![c] = new], call[c].stage # "done",
           Fields \subseteq DOMAIN new,
           new.stage \in {"policy", "run"} \/ new.outcome \in {"listed", "executed", "failed"} =>
               TrustedIn(versions', new.tool, new.manifest),
           /\ new.stage \notin {"record", "done"} => new.outcome = "none" /\ ~new.ran
           /\ new.stage = "record" => new.outcome \in {"blocked", "executed", "failed"}
           /\ new.outcome = "blocked" => ~new.ran
           /\ new.stage = "done" => new.outcome \notin {"blocked", "executed", "failed"}
    PROVE  AnswersInv'
<1>1. call'[c] = new /\ \A b \in Calls : b # c => call'[b] = call[b]
  BY DEF AnswersInv
<1>2. Answers(c)'
  BY <1>1 DEF AnswersInv, Answers
<1>3. ASSUME NEW b \in Calls, b # c PROVE Answers(b)'
  <2>1. Answers(b) /\ call'[b] = call[b]
    BY <1>1, <1>3 DEF AnswersInv
  <2> QED
    BY <2>1 DEF Answers, TrustLasts
<1> QED
  BY <1>2, <1>3 DEF AnswersInv

LEMMA RefuseAnswers ==
    ASSUME AnswersInv, TrustLasts, NEW c \in Calls, M!Refuse(c), recorded' = recorded,
           call[c].stage \notin {"record", "done"}
    PROVE  AnswersInv'
<1>1. call[c].outcome = "none" /\ ~call[c].ran
  BY DEF AnswersInv, Answers
<1>2. CASE call[c].kind = "list"
  <2> DEFINE new == [call[c] EXCEPT !.stage = "done", !.outcome = "hidden"]
  <2>0. /\ Fields \subseteq DOMAIN new
        /\ new.tool = call[c].tool /\ new.manifest = call[c].manifest
        /\ new.stage = "done" /\ new.outcome = "hidden" /\ new.ran = call[c].ran
    BY DEF AnswersInv, Answers, Fields
  <2>1. call' = [call EXCEPT ![c] = new]
    BY <1>2 DEF M!Refuse, M!Finish
  <2> HIDE DEF new
  <2> QED
    BY <1>1, <2>1, <2>0, UnrecordedSteps
<1>3. CASE call[c].kind # "list"
  <2> DEFINE new == [call[c] EXCEPT !.stage = "record", !.outcome = "blocked"]
  <2>0. /\ Fields \subseteq DOMAIN new
        /\ new.tool = call[c].tool /\ new.manifest = call[c].manifest
        /\ new.stage = "record" /\ new.outcome = "blocked" /\ new.ran = call[c].ran
    BY DEF AnswersInv, Answers, Fields
  <2>1. call' = [call EXCEPT ![c] = new]
    BY <1>3 DEF M!Refuse
  <2> HIDE DEF new
  <2> QED
    BY <1>1, <2>1, <2>0, UnrecordedSteps
<1> QED
  BY <1>2, <1>3

LEMMA LookupAnswers ==
    ASSUME AnswersInv, TrustLasts, NEW c \in Calls, M!Lookup(c)
    PROVE  AnswersInv'
<1>0. call[c].stage = "idle" /\ recorded' = recorded /\ Answers(c)
  BY DEF M!Lookup, AnswersInv, M!Judging
<1>1. call[c].outcome = "none" /\ ~call[c].ran
  BY <1>0 DEF Answers
<1>2. ASSUME call' = [call EXCEPT ![c].stage = "contact", ![c].manifest = M!Cached(c)]
      PROVE  AnswersInv'
  <2> DEFINE new == [call[c] EXCEPT !.stage = "contact", !.manifest = M!Cached(c)]
  <2>0. /\ Fields \subseteq DOMAIN new
        /\ new.tool = call[c].tool /\ new.manifest = M!Cached(c)
        /\ new.stage = "contact" /\ new.outcome = call[c].outcome /\ new.ran = call[c].ran
    BY DEF AnswersInv, Answers, Fields
  <2>1. call' = [call EXCEPT ![c] = new]
    BY <1>2 DEF M!Cached
  <2> HIDE DEF new
  <2> QED
    BY <1>0, <1>1, <2>1, <2>0, UnrecordedSteps DEF Answers, TrustLasts
<1>3. ASSUME M!Goto(c, "refresh") PROVE AnswersInv'
  <2> DEFINE new == [call[c] EXCEPT !.stage = "refresh"]
  <2>0. /\ Fields \subseteq DOMAIN new
        /\ new.tool = call[c].tool /\ new.manifest = call[c].manifest
        /\ new.stage = "refresh" /\ new.outcome = call[c].outcome /\ new.ran = call[c].ran
    BY DEF AnswersInv, Answers, Fields
  <2>1. call' = [call EXCEPT ![c] = new]
    BY <1>3 DEF M!Goto
  <2> HIDE DEF new
  <2> QED
    BY <1>0, <1>1, <2>1, <2>0, UnrecordedSteps DEF Answers, TrustLasts
<1> QED
  BY <1>2, <1>3 DEF M!Lookup

LEMMA RefreshAnswers ==
    ASSUME AnswersInv, TrustLasts, NEW c \in Calls, M!Refresh(c)
    PROVE  AnswersInv'
<1>0. call[c].stage = "refresh" /\ recorded' = recorded /\ Answers(c)
  BY DEF M!Refresh, AnswersInv, M!Judging
<1>1. call[c].outcome = "none" /\ ~call[c].ran
  BY <1>0 DEF Answers
<1>2. ASSUME M!Finish(c, "unknown") PROVE AnswersInv'
  <2> DEFINE new == [call[c] EXCEPT !.stage = "done", !.outcome = "unknown"]
  <2>0. /\ Fields \subseteq DOMAIN new
        /\ new.tool = call[c].tool /\ new.manifest = call[c].manifest
        /\ new.stage = "done" /\ new.outcome = "unknown" /\ new.ran = call[c].ran
    BY DEF AnswersInv, Answers, Fields
  <2>1. call' = [call EXCEPT ![c] = new]
    BY <1>2 DEF M!Finish
  <2> HIDE DEF new
  <2> QED
    BY <1>0, <1>1, <2>1, <2>0, UnrecordedSteps DEF Answers, TrustLasts
<1>3. ASSUME call' = [call EXCEPT ![c].stage = "contact", ![c].manifest = upstream[call[c].tool]]
      PROVE  AnswersInv'
  <2> DEFINE new == [call[c] EXCEPT !.stage = "contact", !.manifest = upstream[call[c].tool]]
  <2>0. /\ Fields \subseteq DOMAIN new
        /\ new.tool = call[c].tool /\ new.manifest = upstream[call[c].tool]
        /\ new.stage = "contact" /\ new.outcome = call[c].outcome /\ new.ran = call[c].ran
    BY DEF AnswersInv, Answers, Fields
  <2>1. call' = [call EXCEPT ![c] = new]
    BY <1>3 DEF M!Goto
  <2> HIDE DEF new
  <2> QED
    BY <1>0, <1>1, <2>1, <2>0, UnrecordedSteps DEF Answers, TrustLasts
<1> QED
  BY <1>2, <1>3 DEF M!Refresh

LEMMA JudgeAnswers == ASSUME AnswersInv, TrustLasts, NEW c \in Calls, M!Judge(c),
           M!Goto(c, "policy") => TrustedIn(versions', call[c].tool, call[c].manifest)
    PROVE AnswersInv'
<1>0. call[c].stage = "judge" /\ recorded' = recorded /\ Answers(c)
  BY DEF M!Judge, AnswersInv, M!Judging
<1>1. call[c].outcome = "none" /\ ~call[c].ran
  BY <1>0 DEF Answers
<1>2. ASSUME M!Goto(c, "policy") PROVE AnswersInv'
  <2> DEFINE new == [call[c] EXCEPT !.stage = "policy"]
  <2>0. /\ Fields \subseteq DOMAIN new
        /\ new.tool = call[c].tool /\ new.manifest = call[c].manifest
        /\ new.stage = "policy" /\ new.outcome = call[c].outcome /\ new.ran = call[c].ran
    BY DEF AnswersInv, Answers, Fields
  <2>1. call' = [call EXCEPT ![c] = new]
    BY <1>2 DEF M!Goto
  <2> HIDE DEF new
  <2> QED
    BY <1>0, <1>1, <1>2, <2>1, <2>0, UnrecordedSteps DEF Answers, TrustLasts
<1>3. ASSUME M!Refuse(c) PROVE AnswersInv'
  BY <1>0, <1>3, RefuseAnswers
<1> QED
  BY <1>2, <1>3 DEF M!Judge

LEMMA GuardFailsAnswers ==
    ASSUME AnswersInv, TrustLasts, NEW c \in Calls, M!GuardFails(c)
    PROVE  AnswersInv'
<1>0. call[c].stage \in {"contact", "judge"} /\ recorded' = recorded /\ Answers(c)
  BY DEF M!GuardFails, AnswersInv, M!Judging
<1>1. call[c].outcome = "none" /\ ~call[c].ran
  BY <1>0 DEF Answers
<1>2. ASSUME M!Refuse(c) PROVE AnswersInv'
  BY <1>0, <1>2, RefuseAnswers
<1> QED
  BY <1>2 DEF M!GuardFails

LEMMA PolicyAnswers ==
    ASSUME AnswersInv, TrustLasts, NEW c \in Calls, M!Policy(c)
    PROVE  AnswersInv'
<1>0. call[c].stage = "policy" /\ recorded' = recorded /\ Answers(c)
  BY DEF M!Policy, AnswersInv, M!Judging
<1>1. call[c].outcome = "none" /\ ~call[c].ran
  BY <1>0 DEF Answers
<1>2. ASSUME M!Refuse(c) PROVE AnswersInv'
  BY <1>0, <1>2, RefuseAnswers
<1>3. ASSUME M!Finish(c, "listed") PROVE AnswersInv'
  <2> DEFINE new == [call[c] EXCEPT !.stage = "done", !.outcome = "listed"]
  <2>0. /\ Fields \subseteq DOMAIN new
        /\ new.tool = call[c].tool /\ new.manifest = call[c].manifest
        /\ new.stage = "done" /\ new.outcome = "listed" /\ new.ran = call[c].ran
    BY DEF AnswersInv, Answers, Fields
  <2>1. call' = [call EXCEPT ![c] = new]
    BY <1>3 DEF M!Finish
  <2> HIDE DEF new
  <2> QED
    BY <1>0, <1>1, <2>1, <2>0, UnrecordedSteps DEF Answers, TrustLasts
<1>4. ASSUME M!Goto(c, "run") PROVE AnswersInv'
  <2> DEFINE new == [call[c] EXCEPT !.stage = "run"]
  <2>0. /\ Fields \subseteq DOMAIN new
        /\ new.tool = call[c].tool /\ new.manifest = call[c].manifest
        /\ new.stage = "run" /\ new.outcome = call[c].outcome /\ new.ran = call[c].ran
    BY DEF AnswersInv, Answers, Fields
  <2>1. call' = [call EXCEPT ![c] = new]
    BY <1>4 DEF M!Goto
  <2> HIDE DEF new
  <2> QED
    BY <1>0, <1>1, <2>1, <2>0, UnrecordedSteps DEF Answers, TrustLasts
<1> QED
  BY <1>2, <1>3, <1>4 DEF M!Policy

LEMMA ContactAnswers ==
    ASSUME AnswersInv, TrustLasts, NEW c \in Calls, M!Contact(c)
    PROVE  AnswersInv'
<1>1. call[c].stage = "contact" /\ recorded' = recorded
  BY DEF M!Contact
<1>2. PICK r : call' = [call EXCEPT ![c].stage = "judge", ![c].row = r]
  BY DEF M!Contact
<1> DEFINE new == [call[c] EXCEPT !.stage = "judge", !.row = r]
<1>0. /\ Fields \subseteq DOMAIN new
      /\ new.tool = call[c].tool /\ new.manifest = call[c].manifest
      /\ new.stage = "judge" /\ new.outcome = call[c].outcome /\ new.ran = call[c].ran
  BY DEF AnswersInv, Answers, Fields
<1>3. call' = [call EXCEPT ![c] = new]
  BY <1>2
<1> HIDE DEF new
<1> QED
  BY <1>1, <1>3, <1>0, UnrecordedSteps DEF AnswersInv, Answers

LEMMA RunAnswers ==
    ASSUME AnswersInv, TrustLasts, NEW c \in Calls, M!Run(c)
    PROVE  AnswersInv'
<1>1. call[c].stage = "run" /\ recorded' = recorded
  BY DEF M!Run
<1>2. PICK outcome \in {"executed", "failed"}, ran \in BOOLEAN :
         call' = [call EXCEPT ![c].stage = "record", ![c].outcome = outcome, ![c].ran = ran]
  BY DEF M!Run
<1> DEFINE new == [call[c] EXCEPT !.stage = "record", !.outcome = outcome, !.ran = ran]
<1>0. /\ Fields \subseteq DOMAIN new
      /\ new.tool = call[c].tool /\ new.manifest = call[c].manifest
      /\ new.stage = "record" /\ new.outcome = outcome /\ new.ran = ran
  BY DEF AnswersInv, Answers, Fields
<1>3. call' = [call EXCEPT ![c] = new]
  BY <1>2
<1> HIDE DEF new
<1>4. TrustedIn(versions', call[c].tool, call[c].manifest)
  BY <1>1 DEF AnswersInv, Answers, TrustLasts
<1> QED
  BY <1>1, <1>2, <1>3, <1>4, <1>0, UnrecordedSteps

LEMMA RecordAnswers ==
    ASSUME AnswersInv, TrustLasts, NEW c \in Calls, M!Record(c) \/ M!RecordFails(c)
    PROVE  AnswersInv'
<1>1. call[c].stage = "record" /\ Answers(c)
  BY DEF M!Record, M!RecordFails, AnswersInv
<1>2. CASE M!RecordFails(c)
  <2> DEFINE new == [call[c] EXCEPT !.stage = "done", !.outcome = "closed"]
  <2>0. /\ Fields \subseteq DOMAIN new
        /\ new.tool = call[c].tool /\ new.manifest = call[c].manifest
        /\ new.stage = "done" /\ new.outcome = "closed" /\ new.ran = call[c].ran
    BY DEF AnswersInv, Answers, Fields
  <2>1. call' = [call EXCEPT ![c] = new] /\ recorded' = recorded
    BY <1>2 DEF M!RecordFails, M!Finish
  <2> HIDE DEF new
  <2> QED
    BY <1>1, <2>1, <2>0, UnrecordedSteps
<1>3. CASE M!Record(c)
  <2> DEFINE new == [call[c] EXCEPT !.stage = "done"]
  <2>1. call' = [call EXCEPT ![c] = [call[c] EXCEPT !.stage = "done", !.outcome = call[c].outcome]]
        /\ recorded' = recorded \cup {<<c, call[c].outcome>>}
    BY <1>3 DEF M!Record, M!Finish
  <2>2. /\ call'[c].stage = "done" /\ call'[c].outcome = call[c].outcome
        /\ call'[c].tool = call[c].tool /\ call'[c].manifest = call[c].manifest
        /\ Fields \subseteq DOMAIN call'[c]
        /\ call'[c].ran = call[c].ran /\ DOMAIN call' = Calls
        /\ \A b \in Calls : b # c => call'[b] = call[b]
    BY <1>1, <2>1 DEF AnswersInv, Answers, Fields
  <2>3. Answers(c)'
    <3>1. TrustedIn(versions, call[c].tool, call[c].manifest)
             => TrustedIn(versions', call[c].tool, call[c].manifest)
      BY DEF TrustLasts
    <3>2. ASSUME NEW r \in recorded', r[1] = c PROVE r = <<c, call[c].outcome>>
      BY <1>1, <2>1, <3>2 DEF Answers
    <3> QED
      BY <1>1, <2>1, <2>2, <3>1, <3>2 DEF Answers
  <2>4. ASSUME NEW b \in Calls, b # c PROVE Answers(b)'
    <3>1. Answers(b) /\ call'[b] = call[b]
      BY <2>2, <2>4 DEF AnswersInv
    <3>2. TrustedIn(versions, call[b].tool, call[b].manifest)
             => TrustedIn(versions', call[b].tool, call[b].manifest)
      BY DEF TrustLasts
    <3>3. <<c, call[c].outcome>>[1] # b
      BY <2>4
    <3> QED
      BY <2>1, <3>1, <3>2, <3>3 DEF Answers
  <2> QED
    BY <2>1, <2>2, <2>3, <2>4 DEF AnswersInv
<1> QED
  BY <1>2, <1>3

LEMMA AnswersStep ==
    ASSUME AnswersInv, TrustLasts, JudgedIsTrusted, [M!Next]_(M!vars)
    PROVE  AnswersInv'
<1>1. ASSUME NEW c \in Calls,
             M!Lookup(c) \/ M!Refresh(c) \/ M!Contact(c) \/ M!Judge(c) \/ M!GuardFails(c)
             \/ M!Policy(c) \/ M!Run(c) \/ M!Record(c) \/ M!RecordFails(c)
      PROVE  AnswersInv'
  <2>1. CASE M!Judge(c)
    BY <2>1, JudgeAnswers DEF JudgedIsTrusted
  <2> QED
    BY <1>1, <2>1, LookupAnswers, RefreshAnswers, ContactAnswers, GuardFailsAnswers,
       PolicyAnswers, RunAnswers, RecordAnswers
<1>2. ASSUME UNCHANGED <<call, recorded>> PROVE AnswersInv'
  BY <1>2 DEF AnswersInv, Answers, TrustLasts
<1>3. ASSUME NEW s \in Sessions, M!Connect(s) \/ M!Connected(s) \/ M!ConnectFails(s) \/ M!Close(s)
      PROVE  AnswersInv'
  BY <1>2, <1>3 DEF M!Connect, M!Connected, M!ConnectFails, M!Close, M!SessionStep
<1>4. ASSUME NEW k \in M!Keys, M!Pick(k) \/ M!Choose(k) \/ M!Approve(k) \/ M!Abort(k)
      PROVE  AnswersInv'
  BY <1>2, <1>4 DEF M!Pick, M!Choose, M!Approve, M!Abort
<1>5. ASSUME NEW t \in Tools, M!Change(t) PROVE AnswersInv'
  BY <1>2, <1>5 DEF M!Change
<1>6. CASE UNCHANGED M!vars
  BY <1>2, <1>6 DEF M!vars
<1> QED
  BY <1>1, <1>3, <1>4, <1>5, <1>6 DEF M!Next

-----------------------------------------------------------------------------
(* What the guard trusts *)

(* A tool that has a version at all has an approved one, so only the first *)
(* version of a row is trusted of its own accord.                          *)
VersionsInv ==
    /\ IsFiniteSet(versions)
    /\ \E n \in Nat : \A v \in versions : v.born \in 0..n
    /\ \A v \in versions :
          /\ DOMAIN v = {"server", "tool", "manifest", "approved", "first", "blessed", "born"}
          /\ v.approved => v.first \/ v.blessed
          /\ \E w \in versions : w.server = v.server /\ w.tool = v.tool /\ w.approved
    /\ \A v, w \in versions :
          v.first /\ w.first /\ v.server = w.server /\ v.tool = w.tool => v = w

(* An approval is of a version there is, and clears others of its tool. *)
ReviewsInv ==
    /\ DOMAIN review = M!Keys
    /\ \A k \in M!Keys :
          /\ review[k].stage # "none" => \E v \in versions : M!Key(v) = k
          /\ \A j \in review[k].clears : j.server = k.server /\ j.tool = k.tool

LEMMA SameCardinality == ASSUME NEW S PROVE M!Cardinality(S) = Cardinality(S)
BY DEF M!Cardinality, Cardinality

(* The newest approved version is one. *)
LEMMA NewestIsApproved ==
    ASSUME VersionsInv, NEW c \in Calls, M!Approved(c) # {}
    PROVE  M!Newest(c) \in M!Approved(c)
<1>1. PICK n \in Nat : \A v \in versions : v.born \in 0..n
  BY DEF VersionsInv
<1> DEFINE Births == {m \in 0..n : \E v \in M!Approved(c) : v.born = m}
<1>2. Births \subseteq 0..n /\ Births # {}
  BY <1>1 DEF M!Approved, M!OfTool
<1> HIDE DEF Births
<1>3. PICK m \in Births : \A i \in Births : i <= m
  BY <1>2, GreatestNumber
<1>4. PICK v \in M!Approved(c) : v.born = m
  BY <1>3 DEF Births
<1>5. \A w \in M!Approved(c) : w.born <= v.born
  BY <1>1, <1>3, <1>4 DEF Births, M!Approved, M!OfTool
<1> QED
  BY <1>4, <1>5 DEF M!Newest

LEMMA VersionAdded ==
    ASSUME VersionsInv, NEW c \in Calls, NEW trusted \in BOOLEAN,
           versions' = versions \cup {M!Version(c, trusted)},
           trusted <=> M!Approved(c) = {}
    PROVE  VersionsInv'
<1> DEFINE new == M!Version(c, trusted)
<1>1. /\ new.server = call[c].row /\ new.tool = call[c].tool
      /\ new.approved = trusted /\ new.first = trusted /\ new.blessed = FALSE
      /\ new.born = Cardinality(versions) + 1
      /\ DOMAIN new = {"server", "tool", "manifest", "approved", "first", "blessed", "born"}
  BY SameCardinality DEF M!Version
<1> HIDE DEF new
<1>2. Cardinality(versions) \in Nat /\ IsFiniteSet(versions \cup {new})
  BY FS_CardinalityType, FS_AddElement DEF VersionsInv
<1>3. versions' = versions \cup {new}
  BY DEF new
<1>4. \E n \in Nat : \A v \in versions' : v.born \in 0..n
  <2>1. PICK n \in Nat : \A v \in versions : v.born \in 0..n
    BY DEF VersionsInv
  <2>2. \A v \in versions' : v.born \in 0..(n + Cardinality(versions) + 1)
    BY <1>1, <1>2, <1>3, <2>1
  <2> QED
    BY <1>2, <2>2
<1>5. ASSUME NEW v \in versions, v.server = call[c].row, v.tool = call[c].tool
      PROVE  \E w \in versions : w.server = v.server /\ w.tool = v.tool /\ w.approved /\ ~trusted
  BY <1>5 DEF VersionsInv, M!Approved, M!OfTool
<1>6. ~trusted => \E w \in versions : w.server = new.server /\ w.tool = new.tool /\ w.approved
  BY <1>1 DEF M!Approved, M!OfTool
<1>7. ASSUME NEW v \in versions'
      PROVE  /\ DOMAIN v = {"server", "tool", "manifest", "approved", "first", "blessed", "born"}
             /\ v.approved => v.first \/ v.blessed
             /\ \E w \in versions' : w.server = v.server /\ w.tool = v.tool /\ w.approved
  BY <1>1, <1>3, <1>6, <1>7 DEF VersionsInv
<1>8. ASSUME NEW v \in versions', NEW w \in versions',
             v.first /\ w.first /\ v.server = w.server /\ v.tool = w.tool
      PROVE  v = w
  BY <1>1, <1>3, <1>5, <1>8 DEF VersionsInv
<1> QED
  BY <1>2, <1>3, <1>4, <1>7, <1>8 DEF VersionsInv

LEMMA JudgeTrusts ==
    ASSUME AnswersInv, VersionsInv, NEW c \in Calls, M!Judge(c)
    PROVE  /\ VersionsInv'
           /\ M!Goto(c, "policy") => TrustedIn(versions', call[c].tool, call[c].manifest)
           /\ versions \subseteq versions'
<1>1. CASE M!Approved(c) = {}
  <2>1. versions' = versions \cup {M!Version(c, TRUE)}
    BY <1>1 DEF M!Judge
  <2> DEFINE new == M!Version(c, TRUE)
  <2>2. new.tool = call[c].tool /\ new.manifest = call[c].manifest /\ new.first = TRUE
    BY DEF M!Version
  <2>3. new \in versions'
    BY <2>1
  <2>4. TrustedIn(versions', call[c].tool, call[c].manifest)
    <3> HIDE DEF new
    <3> QED BY <2>2, <2>3 DEF TrustedIn
  <2> QED
    BY <1>1, <2>1, <2>4, VersionAdded
<1>2. CASE M!Approved(c) # {} /\ M!Newest(c).manifest = call[c].manifest
  <2>1. versions' = versions
    BY <1>2 DEF M!Judge
  <2>2. TrustedIn(versions', call[c].tool, call[c].manifest)
    BY <1>2, <2>1, NewestIsApproved DEF TrustedIn, VersionsInv, M!Approved, M!OfTool
  <2> QED
    BY <2>1, <2>2 DEF VersionsInv
<1>3. CASE M!Approved(c) # {} /\ M!Newest(c).manifest # call[c].manifest
  <2>1. versions' = versions \/ versions' = versions \cup {M!Version(c, FALSE)}
    BY <1>3 DEF M!Judge
  <2>2. M!Refuse(c)
    BY <1>3 DEF M!Judge
  <2>3. ~M!Goto(c, "policy")
    <3>1. call'[c].stage \in {"done", "record"}
      <4>0. DOMAIN call = Calls /\ "stage" \in DOMAIN call[c] /\ "outcome" \in DOMAIN call[c]
        BY DEF AnswersInv, Answers, Fields
      <4>1. CASE call' = [call EXCEPT ![c].stage = "done", ![c].outcome = "hidden"]
        BY <4>0, <4>1
      <4>2. CASE call' = [call EXCEPT ![c].stage = "record", ![c].outcome = "blocked"]
        BY <4>0, <4>2
      <4> QED
        BY <2>2, <4>1, <4>2 DEF M!Refuse, M!Finish
    <3>2. M!Goto(c, "policy") => call'[c].stage = "policy"
      BY DEF M!Goto, AnswersInv, Answers, Fields
    <3> QED
      BY <3>1, <3>2
  <2>4. VersionsInv'
    <3>1. CASE versions' = versions
      BY <3>1 DEF VersionsInv
    <3> QED
      BY <1>3, <2>1, <3>1, VersionAdded
  <2> QED
    BY <2>1, <2>3, <2>4
<1> QED
  BY <1>1, <1>2, <1>3

LEMMA ApproveTrusts ==
    ASSUME VersionsInv, ReviewsInv, NEW k \in M!Keys, M!Approve(k)
    PROVE  VersionsInv' /\ ReviewsInv' /\ TrustLasts
<1> DEFINE After(v) == [v EXCEPT !.approved = M!Key(v) = k \/ (@ /\ M!Key(v) \notin review[k].clears),
                                 !.blessed = @ \/ M!Key(v) = k]
           f == [v \in versions |-> After(v)]
<1>1. versions' = {f[v] : v \in versions}
  BY DEF M!Approve
<1>2. ASSUME NEW v \in versions
      PROVE  /\ DOMAIN f[v] = DOMAIN v
             /\ f[v].server = v.server /\ f[v].tool = v.tool /\ f[v].manifest = v.manifest
             /\ f[v].first = v.first /\ f[v].born = v.born
             /\ f[v].approved <=> M!Key(v) = k \/ (v.approved /\ M!Key(v) \notin review[k].clears)
             /\ f[v].blessed <=> v.blessed \/ M!Key(v) = k
  BY DEF VersionsInv
<1>3. IsFiniteSet(versions')
  <2>1. f \in [versions -> versions'] /\ \A w \in versions' : \E v \in versions : f[v] = w
    BY <1>1
  <2> HIDE DEF f
  <2>2. f \in Surjection(versions, versions')
    BY <2>1 DEF Surjection
  <2> QED
    BY <2>2, FS_Surjection DEF VersionsInv
<1> HIDE DEF f
<1>4. \A v \in versions : f[v] \in versions'
  BY <1>1
<1>5. \A w \in versions' : \E v \in versions : w = f[v]
  BY <1>1
<1>6. PICK own \in versions : M!Key(own) = k
  BY DEF M!Approve, ReviewsInv
<1>7. \E n \in Nat : \A v \in versions' : v.born \in 0..n
  BY <1>2, <1>5 DEF VersionsInv
<1>8. ASSUME NEW w \in versions'
      PROVE  /\ DOMAIN w = {"server", "tool", "manifest", "approved", "first", "blessed", "born"}
             /\ w.approved => w.first \/ w.blessed
             /\ \E u \in versions' : u.server = w.server /\ u.tool = w.tool /\ u.approved
  <2>1. PICK v \in versions : w = f[v]
    BY <1>5
  <2>2. w.approved => w.first \/ w.blessed
    BY <1>2, <2>1 DEF VersionsInv
  <2>3. ASSUME v.server = k.server /\ v.tool = k.tool
        PROVE  \E u \in versions' : u.server = w.server /\ u.tool = w.tool /\ u.approved
    <3>1. own.server = k.server /\ own.tool = k.tool
      BY <1>6 DEF M!Key
    <3>2. /\ f[own] \in versions' /\ f[own].approved
          /\ f[own].server = own.server /\ f[own].tool = own.tool
      BY <1>2, <1>4, <1>6
    <3>3. w.server = v.server /\ w.tool = v.tool
      BY <1>2, <2>1
    <3> QED
      BY <2>3, <3>1, <3>2, <3>3
  <2>4. ASSUME ~(v.server = k.server /\ v.tool = k.tool)
        PROVE  \E u \in versions' : u.server = w.server /\ u.tool = w.tool /\ u.approved
    <3>1. PICK u \in versions : u.server = v.server /\ u.tool = v.tool /\ u.approved
      BY DEF VersionsInv
    <3>2. M!Key(u) \notin review[k].clears
      BY <2>4, <3>1 DEF M!Key, ReviewsInv
    <3>3. f[u] \in versions' /\ f[u].approved /\ f[u].server = u.server /\ f[u].tool = u.tool
      BY <1>2, <1>4, <3>1, <3>2
    <3>4. w.server = v.server /\ w.tool = v.tool
      BY <1>2, <2>1
    <3> QED
      BY <3>1, <3>3, <3>4
  <2> QED
    BY <1>2, <2>1, <2>2, <2>3, <2>4 DEF VersionsInv
<1>9. ASSUME NEW w \in versions', NEW u \in versions',
             w.first /\ u.first /\ w.server = u.server /\ w.tool = u.tool
      PROVE  w = u
  <2>1. PICK v \in versions, x \in versions : w = f[v] /\ u = f[x]
    BY <1>5
  <2> QED
    BY <1>2, <1>9, <2>1 DEF VersionsInv
<1>10. VersionsInv'
  BY <1>3, <1>7, <1>8, <1>9 DEF VersionsInv
<1>11. TrustLasts
  BY <1>2, <1>4 DEF TrustLasts, TrustedIn
<1>12. ReviewsInv'
  <2>1. \A v \in versions : f[v] \in versions' /\ M!Key(f[v]) = M!Key(v)
    BY <1>2, <1>4 DEF M!Key
  <2>2. review' = [review EXCEPT ![k] = M!NoReview]
    BY DEF M!Approve
  <2>3. M!NoReview.stage = "none" /\ M!NoReview.clears = {}
    BY DEF M!NoReview
  <2>4. DOMAIN review' = M!Keys /\ review'[k] = M!NoReview
        /\ \A j \in M!Keys : j # k => review'[j] = review[j]
    BY <2>2 DEF ReviewsInv
  <2>5. ASSUME NEW j \in M!Keys
        PROVE  /\ review'[j].stage # "none" => \E v \in versions' : M!Key(v) = j
               /\ \A i \in review'[j].clears : i.server = j.server /\ i.tool = j.tool
    <3>1. CASE j = k
      BY <2>3, <2>4, <3>1
    <3>2. CASE j # k
      <4>1. review[j].stage # "none" => \E v \in versions : M!Key(v) = j
        BY DEF ReviewsInv
      <4>2. review[j].stage # "none" => \E v \in versions' : M!Key(v) = j
        BY <2>1, <4>1
      <4> QED
        BY <2>4, <3>2, <4>2 DEF ReviewsInv
    <3> QED
      BY <3>1, <3>2
  <2> QED
    BY <2>4, <2>5 DEF ReviewsInv, M!Key
<1> QED
  BY <1>10, <1>11, <1>12

LEMMA ReviewSteps ==
    ASSUME ReviewsInv, NEW k \in M!Keys, M!Pick(k) \/ M!Choose(k) \/ M!Abort(k)
    PROVE  ReviewsInv'
<1> DEFINE new == review'[k]
<1>1. /\ DOMAIN review' = M!Keys
      /\ \A j \in M!Keys : j # k => review'[j] = review[j]
      /\ versions' = versions
  BY DEF M!Pick, M!Choose, M!Abort, ReviewsInv
<1>2. /\ new.stage # "none" => \E v \in versions : M!Key(v) = k
      /\ \A j \in new.clears : j.server = k.server /\ j.tool = k.tool
  BY DEF M!Pick, M!Choose, M!Abort, ReviewsInv, M!NoReview, M!ApprovedBeside, M!Key
<1> QED
  BY <1>1, <1>2 DEF ReviewsInv, M!Key

(* A tool listing is finite. *)
ListingsAreFinite == IsFiniteSet(Tools)

McpInv == AnswersInv /\ VersionsInv /\ ReviewsInv

LEMMA InitMcp == ASSUME ListingsAreFinite, M!Init PROVE McpInv
<1>1. ReviewsInv
  BY DEF M!Init, ReviewsInv, M!NoReview
<1>2. ASSUME versions = {} PROVE VersionsInv
  BY <1>2, FS_EmptySet DEF VersionsInv
<1>3. ASSUME NEW r, NEW known, versions = M!FirstSeen(r, known) PROVE VersionsInv
  <2> DEFINE f == [t \in Tools |-> [server |-> r, tool |-> t, manifest |-> known, approved |-> TRUE,
                                    first |-> TRUE, blessed |-> FALSE, born |-> 1]]
  <2>1. f \in [Tools -> versions] /\ \A v \in versions : \E t \in Tools : f[t] = v
    BY <1>3 DEF M!FirstSeen
  <2>2. f \in Surjection(Tools, versions)
    <3> HIDE DEF f
    <3> QED BY <2>1 DEF Surjection
  <2>3. IsFiniteSet(versions)
    BY <2>2, FS_Surjection DEF ListingsAreFinite
  <2>4. ASSUME NEW v \in versions
        PROVE  DOMAIN v = {"server", "tool", "manifest", "approved", "first", "blessed", "born"}
    BY <1>3 DEF M!FirstSeen
  <2>5. \A v \in versions : v.approved /\ v.first /\ v.born = 1
    BY <1>3 DEF M!FirstSeen
  <2>6. \A v \in versions : v = f[v.tool]
    BY <1>3 DEF M!FirstSeen
  <2> HIDE DEF f
  <2>7. \E n \in Nat : \A v \in versions : v.born \in 0..n
    <3>1. \A v \in versions : v.born \in 0..1
      BY <2>5
    <3> QED
      BY <3>1
  <2> QED
    BY <2>3, <2>4, <2>5, <2>6, <2>7 DEF VersionsInv
<1>4. VersionsInv
  <2>1. versions = {} \/ \E r, known : versions = M!FirstSeen(r, known)
    BY DEF M!Init
  <2> QED
    BY <1>2, <1>3, <2>1
<1> QED
  BY <1>1, <1>4, InitAnswers DEF McpInv

LEMMA McpStep == McpInv /\ [M!Next]_(M!vars) => McpInv'
<1> SUFFICES ASSUME McpInv, [M!Next]_(M!vars) PROVE McpInv'
  OBVIOUS
<1>0. AnswersInv /\ VersionsInv /\ ReviewsInv
  BY DEF McpInv
<1>1. ASSUME versions' = versions PROVE VersionsInv' /\ TrustLasts
  BY <1>0, <1>1 DEF VersionsInv, TrustLasts
<1>2. ASSUME versions \subseteq versions', review' = review PROVE ReviewsInv' /\ TrustLasts
  BY <1>0, <1>2 DEF ReviewsInv, TrustLasts, TrustedIn
<1>3. JudgedIsTrusted
  BY <1>0, JudgeTrusts DEF JudgedIsTrusted
<1>4. VersionsInv' /\ ReviewsInv' /\ TrustLasts
  <2>1. ASSUME NEW c \in Calls, M!Judge(c) PROVE VersionsInv' /\ ReviewsInv' /\ TrustLasts
    <3>1. review' = review
      BY <2>1 DEF M!Judge
    <3> QED
      BY <1>0, <1>2, <2>1, <3>1, JudgeTrusts
  <2>2. ASSUME NEW k \in M!Keys, M!Approve(k)
        PROVE  VersionsInv' /\ ReviewsInv' /\ TrustLasts
    BY <1>0, <2>2, ApproveTrusts
  <2>3. ASSUME NEW k \in M!Keys, M!Pick(k) \/ M!Choose(k) \/ M!Abort(k)
        PROVE  VersionsInv' /\ ReviewsInv' /\ TrustLasts
    <3>1. versions' = versions
      BY <2>3 DEF M!Pick, M!Choose, M!Abort
    <3> QED
      BY <1>0, <1>1, <2>3, <3>1, ReviewSteps
  <2>4. ASSUME versions' = versions, review' = review
        PROVE  VersionsInv' /\ ReviewsInv' /\ TrustLasts
    BY <1>1, <1>2, <2>4
  <2>5. ASSUME NEW c \in Calls,
               M!Lookup(c) \/ M!Refresh(c) \/ M!Contact(c) \/ M!GuardFails(c)
               \/ M!Policy(c) \/ M!Run(c) \/ M!Record(c) \/ M!RecordFails(c)
        PROVE  versions' = versions /\ review' = review
    BY <2>5 DEF M!Lookup, M!Refresh, M!Contact, M!GuardFails, M!Policy, M!Run, M!Record,
                M!RecordFails, M!database
  <2>6. ASSUME NEW s \in Sessions, M!Connect(s) \/ M!Connected(s) \/ M!ConnectFails(s) \/ M!Close(s)
        PROVE  versions' = versions /\ review' = review
    BY <2>6 DEF M!Connect, M!Connected, M!ConnectFails, M!Close, M!SessionStep, M!database
  <2>7. ASSUME NEW t \in Tools, M!Change(t) PROVE versions' = versions /\ review' = review
    BY <2>7 DEF M!Change, M!database
  <2>8. CASE UNCHANGED M!vars
    BY <2>4, <2>8 DEF M!vars
  <2> QED
    BY <2>1, <2>2, <2>3, <2>4, <2>5, <2>6, <2>7, <2>8 DEF M!Next
<1> QED
  BY <1>0, <1>3, <1>4, AnswersStep DEF McpInv

(* evaluate: a server's row takes one manifest of a tool of its own accord *)
(* and never another, and what is called or shown was taken so or approved *)
(* by an operator.                                                         *)
THEOREM DriftAlwaysWaits == ASSUME ListingsAreFinite PROVE M!Spec => []M!DriftWaits
<1>1. McpInv => M!DriftWaits
  BY DEF McpInv, VersionsInv, AnswersInv, Answers, TrustedIn, M!DriftWaits
<1>2. M!Init => McpInv
  BY InitMcp
<1> QED
  BY <1>1, <1>2, McpStep, PTL DEF M!Spec

(* executeGatewayToolCall: the caller is told what the trail says, and a   *)
(* call recorded as blocked never reached the upstream.                    *)
THEOREM GatewayAnswersTruly == ASSUME ListingsAreFinite PROVE M!Spec => []M!GatewayAnswers
<1>1. AnswersInv => M!GatewayAnswers
  <2> SUFFICES ASSUME AnswersInv, NEW c \in Calls
               PROVE  /\ call[c].stage = "done" /\ call[c].outcome \in {"blocked", "executed", "failed"} =>
                            <<c, call[c].outcome>> \in recorded
                      /\ call[c].ran => <<c, "blocked">> \notin recorded
                      /\ \A r, q \in recorded : r[1] = q[1] => r = q
    BY DEF M!GatewayAnswers
  <2>1. call[c].ran => <<c, "blocked">> \notin recorded
    <3> SUFFICES ASSUME call[c].ran, <<c, "blocked">> \in recorded PROVE FALSE
      OBVIOUS
    <3>1. <<c, "blocked">>[1] = c /\ <<c, "blocked">>[2] = "blocked"
      OBVIOUS
    <3>2. <<c, "blocked">> = <<c, call[c].outcome>>
      BY <3>1 DEF AnswersInv, Answers
    <3> QED
      BY <3>2 DEF AnswersInv, Answers
  <2>2. ASSUME NEW r \in recorded, NEW q \in recorded, r[1] = q[1] PROVE r = q
    BY <2>2 DEF AnswersInv, Answers
  <2> QED
    BY <2>1, <2>2 DEF AnswersInv, Answers
<1>2. M!Init => McpInv
  BY InitMcp
<1>3. McpInv => AnswersInv
  BY DEF McpInv
<1> QED
  BY <1>1, <1>2, <1>3, McpStep, PTL DEF M!Spec

-----------------------------------------------------------------------------
(* Types *)

(* There is a row for the first server, NoRow aside, and the bounds of the *)
(* model are numbers.                                                      *)
GatewayBounds == Rows # {} /\ MaxChanges \in Nat /\ MaxReviews \in Nat

McpCalls ==
    [kind : {"call", "list"}, tool : Tools, session : Sessions,
     manifest : Manifests \cup {NoManifest}, row : Rows \cup {NoRow},
     stage : {"idle", "refresh", "contact", "judge", "policy", "run", "record", "done"},
     outcome : {"none", "unknown", "listed", "hidden", "blocked", "executed", "failed", "closed"},
     ran : BOOLEAN]
McpSessions ==
    [state : {"new", "connecting", "open", "closed", "failed"}, upstream : BOOLEAN,
     cache : M!Caches]
McpVersions ==
    [server : Rows, tool : Tools, manifest : Manifests, approved : BOOLEAN, first : BOOLEAN,
     blessed : BOOLEAN, born : Nat]

(* What is judged is a manifest, under a row that is one. *)
JudgedIsThere(c) ==
    /\ call[c].stage \in {"contact", "judge"} => call[c].manifest \in Manifests
    /\ call[c].stage = "judge" => call[c].row \in Rows

CallsTyped == call \in [Calls -> McpCalls] /\ \A c \in Calls : JudgedIsThere(c)

TablesTyped ==
    /\ servers \subseteq Rows /\ versions \subseteq McpVersions
    /\ recorded \subseteq Calls \X {"blocked", "executed", "failed"}

EndsTyped ==
    /\ upstream \in M!Caches /\ session \in [Sessions -> McpSessions]
    /\ changes \in 0..MaxChanges /\ reviews \in 0..MaxReviews

McpTyped == CallsTyped /\ TablesTyped /\ EndsTyped

LEMMA TypesTogether == McpTyped => M!McpTypeOK
<1> SUFFICES ASSUME McpTyped PROVE M!McpTypeOK
  OBVIOUS
<1>1. \A v \in versions : /\ M!Key(v) \in M!Keys /\ v.born \in Nat
                          /\ {v.approved, v.first, v.blessed} \subseteq BOOLEAN
  BY DEF McpTyped, TablesTyped, McpVersions, M!Key, M!Keys
<1>2. \A c \in Calls : call[c] \in McpCalls
  BY DEF McpTyped, CallsTyped
<1> QED
  BY <1>1, <1>2 DEF McpTyped, TablesTyped, EndsTyped, McpCalls, McpSessions, M!McpTypeOK

LEMMA InitTyped == ASSUME GatewayBounds, M!Init PROVE McpTyped
<1>1. CallsTyped
  BY DEF M!Init, CallsTyped, McpCalls, JudgedIsThere
<1>2. (CHOOSE r \in Rows : TRUE) \in Rows
  BY DEF GatewayBounds
<1>3. TablesTyped
  <2>1. ASSUME NEW r \in Rows, NEW known \in Manifests, versions = M!FirstSeen(r, known)
        PROVE  versions \subseteq McpVersions
    <3>1. ASSUME NEW t \in Tools
          PROVE  [server |-> r, tool |-> t, manifest |-> known, approved |-> TRUE,
                  first |-> TRUE, blessed |-> FALSE, born |-> 1] \in McpVersions
      BY DEF McpVersions
    <3> QED
      BY <2>1, <3>1 DEF M!FirstSeen
  <2> QED
    BY <1>2, <2>1 DEF M!Init, TablesTyped
<1>4. EndsTyped
  BY DEF M!Init, EndsTyped, McpSessions, M!Caches, M!NoCache, GatewayBounds
<1> QED
  BY <1>1, <1>3, <1>4 DEF McpTyped

(* A call that moves to another record of a call. *)
LEMMA CallMovesTyped ==
    ASSUME CallsTyped, NEW c \in Calls, NEW new \in McpCalls,
           call' = [call EXCEPT ![c] = new],
           new.stage \in {"contact", "judge"} => new.manifest \in Manifests,
           new.stage = "judge" => new.row \in Rows
    PROVE  CallsTyped'
<1>1. \A d \in Calls : call'[d] = IF d = c THEN new ELSE call[d]
  BY DEF CallsTyped
<1> QED
  BY <1>1 DEF CallsTyped, JudgedIsThere

LEMMA FinishTyped ==
    ASSUME CallsTyped, NEW c \in Calls,
           NEW stage \in {"record", "done"},
           NEW outcome \in {"none", "unknown", "listed", "hidden", "blocked", "executed",
                            "failed", "closed"},
           call' = [call EXCEPT ![c].stage = stage, ![c].outcome = outcome]
    PROVE  CallsTyped'
<1> DEFINE new == [call[c] EXCEPT !.stage = stage, !.outcome = outcome]
<1>1. new \in McpCalls /\ new.stage \in {"record", "done"} /\ call' = [call EXCEPT ![c] = new]
  BY DEF CallsTyped, McpCalls
<1> HIDE DEF new
<1> QED
  BY <1>1, CallMovesTyped

LEMMA GotoTyped ==
    ASSUME CallsTyped, NEW c \in Calls, NEW stage \in {"refresh", "policy", "run"},
           M!Goto(c, stage)
    PROVE  CallsTyped'
<1> DEFINE new == [call[c] EXCEPT !.stage = stage]
<1>1. new \in McpCalls /\ new.stage = stage /\ call' = [call EXCEPT ![c] = new]
  BY DEF CallsTyped, McpCalls, M!Goto
<1> HIDE DEF new
<1> QED
  BY <1>1, CallMovesTyped

LEMMA CarryTyped ==
    ASSUME CallsTyped, NEW c \in Calls, NEW m \in Manifests,
           call' = [call EXCEPT ![c].stage = "contact", ![c].manifest = m]
    PROVE  CallsTyped'
<1> DEFINE new == [call[c] EXCEPT !.stage = "contact", !.manifest = m]
<1>1. new \in McpCalls /\ new.stage = "contact" /\ new.manifest = m
      /\ call' = [call EXCEPT ![c] = new]
  BY DEF CallsTyped, McpCalls
<1> HIDE DEF new
<1> QED
  BY <1>1, CallMovesTyped

LEMMA RefuseTyped ==
    ASSUME CallsTyped, NEW c \in Calls, M!Refuse(c) PROVE CallsTyped'
BY FinishTyped DEF M!Refuse, M!Finish

(* What a session has cached, or the upstream serves, is a manifest unless *)
(* the tool is not there.                                                  *)
LEMMA ServedTyped ==
    ASSUME CallsTyped, EndsTyped, NEW c \in Calls
    PROVE  /\ M!Cached(c) \in Manifests \cup {NoManifest}
           /\ upstream[call[c].tool] \in Manifests \cup {NoManifest}
<1>1. call[c].session \in Sessions /\ call[c].tool \in Tools
  BY DEF CallsTyped, McpCalls
<1>2. session[call[c].session].cache \in M!Caches
  BY <1>1 DEF EndsTyped, McpSessions
<1> QED
  BY <1>1, <1>2 DEF M!Cached, EndsTyped, M!Caches

LEMMA CallSteps ==
    ASSUME McpTyped, NEW c \in Calls,
           \/ M!Lookup(c) \/ M!Refresh(c) \/ M!Contact(c) \/ M!GuardFails(c) \/ M!Judge(c)
           \/ M!Policy(c) \/ M!Run(c) \/ M!Record(c) \/ M!RecordFails(c)
    PROVE  CallsTyped'
<1>0. CallsTyped /\ EndsTyped /\ servers \subseteq Rows
  BY DEF McpTyped, TablesTyped
<1>1. CASE M!Lookup(c)
  <2>1. CASE call[c].kind = "call" /\ M!Cached(c) # NoManifest
    <3>1. M!Cached(c) \in Manifests
      BY <1>0, <2>1, ServedTyped
    <3>2. call' = [call EXCEPT ![c].stage = "contact", ![c].manifest = M!Cached(c)]
      BY <1>1, <2>1 DEF M!Lookup
    <3> QED
      BY <1>0, <3>1, <3>2, CarryTyped
  <2>2. CASE ~(call[c].kind = "call" /\ M!Cached(c) # NoManifest)
    BY <1>0, <1>1, <2>2, GotoTyped DEF M!Lookup
  <2> QED
    BY <2>1, <2>2
<1>2. CASE M!Refresh(c)
  <2>1. CASE upstream[call[c].tool] = NoManifest
    BY <1>0, <1>2, <2>1, FinishTyped DEF M!Refresh, M!Finish
  <2>2. CASE upstream[call[c].tool] # NoManifest
    <3>1. upstream[call[c].tool] \in Manifests
      BY <1>0, <2>2, ServedTyped
    <3>2. call' = [call EXCEPT ![c].stage = "contact", ![c].manifest = upstream[call[c].tool]]
      BY <1>2, <2>2 DEF M!Refresh
    <3> QED
      BY <1>0, <3>1, <3>2, CarryTyped
  <2> QED
    BY <2>1, <2>2
<1>3. CASE M!Contact(c)
  <2> DEFINE unused == Rows \ (servers \cup {call[d].row : d \in Calls})
  <2>1. unused # {} => (CHOOSE r \in unused : TRUE) \in unused
    OBVIOUS
  <2>2. PICK r \in Rows : call' = [call EXCEPT ![c].stage = "judge", ![c].row = r]
    BY <1>0, <1>3, <2>1 DEF M!Contact
  <2> DEFINE new == [call[c] EXCEPT !.stage = "judge", !.row = r]
  <2>3. new \in McpCalls /\ new.row = r /\ call' = [call EXCEPT ![c] = new]
        /\ new.manifest = call[c].manifest
    BY <1>0, <2>2 DEF CallsTyped, McpCalls
  <2>4. call[c].manifest \in Manifests
    BY <1>0, <1>3 DEF M!Contact, CallsTyped, JudgedIsThere
  <2> HIDE DEF new
  <2> QED
    BY <1>0, <2>3, <2>4, CallMovesTyped
<1>4. CASE M!GuardFails(c)
  BY <1>0, <1>4, RefuseTyped DEF M!GuardFails
<1>5. CASE M!Judge(c)
  BY <1>0, <1>5, RefuseTyped, GotoTyped DEF M!Judge
<1>6. CASE M!Policy(c)
  BY <1>0, <1>6, RefuseTyped, GotoTyped, FinishTyped DEF M!Policy, M!Finish
<1>7. CASE M!Run(c)
  <2>1. PICK outcome \in {"executed", "failed"}, ran \in BOOLEAN :
           call' = [call EXCEPT ![c].stage = "record", ![c].outcome = outcome, ![c].ran = ran]
    BY <1>7 DEF M!Run
  <2> DEFINE new == [call[c] EXCEPT !.stage = "record", !.outcome = outcome, !.ran = ran]
  <2>2. new \in McpCalls /\ new.stage = "record" /\ call' = [call EXCEPT ![c] = new]
    BY <1>0, <2>1 DEF CallsTyped, McpCalls
  <2> HIDE DEF new
  <2> QED
    BY <1>0, <2>2, CallMovesTyped
<1>8. CASE M!Record(c) \/ M!RecordFails(c)
  <2>1. call[c].outcome \in {"none", "unknown", "listed", "hidden", "blocked", "executed",
                             "failed", "closed"}
    BY <1>0 DEF CallsTyped, McpCalls
  <2> QED
    BY <1>0, <1>8, <2>1, FinishTyped DEF M!Record, M!RecordFails, M!Finish
<1> QED
  BY <1>1, <1>2, <1>3, <1>4, <1>5, <1>6, <1>7, <1>8

(* A version is judged under the row and for the tool of its call. *)
LEMMA JudgeTables ==
    ASSUME McpTyped, VersionsInv, NEW c \in Calls, M!Judge(c) PROVE TablesTyped'
<1>1. call[c] \in McpCalls /\ call[c].manifest \in Manifests /\ call[c].row \in Rows
  BY DEF M!Judge, M!Judging, McpTyped, CallsTyped, JudgedIsThere
<1>2. M!Cardinality(versions) \in Nat
  BY SameCardinality, FS_CardinalityType DEF VersionsInv
<1>3. \A trusted \in BOOLEAN : M!Version(c, trusted) \in McpVersions
  BY <1>1, <1>2 DEF M!Version, McpVersions, McpCalls
<1>4. versions' \subseteq versions \cup {M!Version(c, TRUE), M!Version(c, FALSE)}
  BY DEF M!Judge
<1> QED
  BY <1>1, <1>3, <1>4 DEF M!Judge, McpTyped, TablesTyped

LEMMA ApproveTables ==
    ASSUME McpTyped, NEW k \in M!Keys, M!Approve(k) PROVE TablesTyped'
<1>1. ASSUME NEW v \in versions, NEW a \in BOOLEAN, NEW b \in BOOLEAN
      PROVE  [v EXCEPT !.approved = a, !.blessed = b] \in McpVersions
  BY DEF McpTyped, TablesTyped, McpVersions
<1>2. \A v \in versions : v.approved \in BOOLEAN /\ v.blessed \in BOOLEAN
  BY DEF McpTyped, TablesTyped, McpVersions
<1>3. versions' = {[v EXCEPT !.approved = M!Key(v) = k \/ (v.approved /\ M!Key(v) \notin review[k].clears),
                             !.blessed = v.blessed \/ M!Key(v) = k] : v \in versions}
  BY DEF M!Approve
<1>4. versions' \subseteq McpVersions
  BY <1>1, <1>2, <1>3
<1> QED
  BY <1>4 DEF M!Approve, McpTyped, TablesTyped

LEMMA RecordTables ==
    ASSUME McpTyped, AnswersInv, NEW c \in Calls, M!Record(c) PROVE TablesTyped'
<1>1. call[c].outcome \in {"blocked", "executed", "failed"}
  BY DEF M!Record, AnswersInv, Answers
<1> QED
  BY <1>1 DEF M!Record, M!database, McpTyped, TablesTyped

LEMMA McpTypeStep ==
    ASSUME GatewayBounds, McpInv, McpTyped, [M!Next]_(M!vars) PROVE McpTyped'
<1>0. CallsTyped /\ TablesTyped /\ EndsTyped
  BY DEF McpTyped
<1>1. ASSUME UNCHANGED call PROVE CallsTyped'
  BY <1>0, <1>1 DEF CallsTyped, JudgedIsThere
<1>2. ASSUME UNCHANGED <<servers, versions, recorded>> PROVE TablesTyped'
  BY <1>0, <1>2 DEF TablesTyped
<1>3. ASSUME UNCHANGED <<upstream, session, changes, reviews>> PROVE EndsTyped'
  BY <1>0, <1>3 DEF EndsTyped
<1>4. ASSUME NEW s \in Sessions,
             M!Connect(s) \/ M!Connected(s) \/ M!ConnectFails(s) \/ M!Close(s)
      PROVE  McpTyped'
  <2>1. session[s] \in McpSessions
    BY <1>0 DEF EndsTyped
  <2>2. PICK state \in {"connecting", "open", "closed", "failed"}, linked \in BOOLEAN :
           M!SessionStep(s, state, linked)
    BY <1>4, <2>1 DEF M!Connect, M!Connected, M!ConnectFails, M!Close, McpSessions
  <2>3. EndsTyped'
    BY <1>0, <2>2 DEF M!SessionStep, EndsTyped, McpSessions
  <2> QED
    BY <1>1, <1>2, <2>2, <2>3 DEF M!SessionStep, M!database, McpTyped
<1>5. ASSUME NEW c \in Calls,
             \/ M!Lookup(c) \/ M!Contact(c) \/ M!GuardFails(c)
             \/ M!Policy(c) \/ M!Run(c) \/ M!RecordFails(c)
      PROVE  McpTyped'
  BY <1>2, <1>3, <1>5, CallSteps DEF M!Lookup, M!Contact, M!GuardFails, M!Policy, M!Run,
     M!RecordFails, M!database, McpTyped
<1>6. ASSUME NEW c \in Calls, M!Refresh(c) PROVE McpTyped'
  <2>1. call[c].session \in Sessions /\ upstream \in M!Caches
    BY <1>0 DEF CallsTyped, McpCalls, EndsTyped
  <2>2. session' \in [Sessions -> McpSessions]
    BY <1>0, <1>6, <2>1 DEF M!Refresh, EndsTyped, McpSessions
  <2>3. EndsTyped'
    BY <1>0, <1>6, <2>2 DEF M!Refresh, EndsTyped
  <2> QED
    BY <1>2, <1>6, <2>3, CallSteps DEF M!Refresh, M!database, McpTyped
<1>7. ASSUME NEW c \in Calls, M!Judge(c) PROVE McpTyped'
  BY <1>3, <1>7, CallSteps, JudgeTables DEF M!Judge, McpTyped, McpInv
<1>8. ASSUME NEW c \in Calls, M!Record(c) PROVE McpTyped'
  BY <1>3, <1>8, CallSteps, RecordTables DEF M!Record, M!database, McpTyped, McpInv
<1>9. ASSUME NEW k \in M!Keys, M!Approve(k) PROVE McpTyped'
  BY <1>1, <1>3, <1>9, ApproveTables DEF M!Approve, McpTyped
<1>10. ASSUME NEW k \in M!Keys, M!Pick(k) \/ M!Choose(k) \/ M!Abort(k) PROVE McpTyped'
  <2>1. reviews' \in 0..MaxReviews
    BY <1>0, <1>10 DEF M!Pick, M!Choose, M!Abort, EndsTyped, GatewayBounds
  <2> QED
    BY <1>0, <1>1, <1>2, <1>10, <2>1 DEF M!Pick, M!Choose, M!Abort, EndsTyped, McpTyped
<1>11. ASSUME NEW t \in Tools, M!Change(t) PROVE McpTyped'
  <2>1. PICK m \in Manifests \cup {NoManifest} : upstream' = [upstream EXCEPT ![t] = m]
    BY <1>11 DEF M!Change
  <2>2. upstream' \in M!Caches
    BY <1>0, <2>1 DEF EndsTyped, M!Caches
  <2>3. EndsTyped'
    BY <1>0, <1>11, <2>2 DEF M!Change, EndsTyped, GatewayBounds
  <2> QED
    BY <1>1, <1>2, <1>11, <2>3 DEF M!Change, M!database, McpTyped
<1>12. CASE UNCHANGED M!vars
  BY <1>1, <1>2, <1>3, <1>12 DEF M!vars, McpTyped
<1> QED
  BY <1>4, <1>5, <1>6, <1>7, <1>8, <1>9, <1>10, <1>11, <1>12 DEF M!Next

(* Every variable of the gateway keeps its type, a call that is judged has *)
(* a manifest and a row, and what is recorded is an outcome.               *)
THEOREM McpTypeCorrect ==
    ASSUME ListingsAreFinite, GatewayBounds PROVE M!Spec => []M!McpTypeOK
<1>1. M!Init => McpInv /\ McpTyped
  BY InitMcp, InitTyped
<1>2. McpInv /\ McpTyped /\ [M!Next]_(M!vars) => McpInv' /\ McpTyped'
  BY McpStep, McpTypeStep
<1> QED
  BY <1>1, <1>2, TypesTogether, PTL DEF M!Spec
=============================================================================
