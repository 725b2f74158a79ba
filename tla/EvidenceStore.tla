---------------------------- MODULE EvidenceStore ----------------------------
(***************************************************************************)
(* The durable evidence chain of one tenant: transactions that append      *)
(* under an advisory lock, checkpoints, and the audit that compares them.  *)
(*                                                                         *)
(*   v2/evidence-store.ts       PostgreSQLEvidenceStore, auditEvidenceChain*)
(*   v2/evidence.ts             computeRecordHash, verifyEvidenceBundle    *)
(*   sql/migrations/011_v2_evidence_store.sql                              *)
(*                                                                         *)
(* A hash is the sequence of the contents it covers, so two hashes are     *)
(* equal exactly when the histories behind them are.  Someone with         *)
(* database credentials may write past the store (Meddle), and with the    *)
(* trigger out of the way damage what is there (Damage).                   *)
(***************************************************************************)
EXTENDS Naturals, Sequences, FiniteSets

CONSTANTS
    Writers,        \* transactions that append, one record each
    ContentOf,      \* the payload each writer wants recorded
    Foreign,        \* the payload of a record written past the store
    NoOne, NoRow,
    MaxSeq, MaxMeddles, MaxDamages      \* bounds of the model

VARIABLES
    rows,           \* table v2_evidence: the committed record at each seq
    checkpoints,    \* table v2_evidence_checkpoint: root hash at some seqs
    lock,           \* pg_advisory_xact_lock(hashtext(tenant))
    writer,         \* each transaction: how far it is, what it will insert
    meddles, damages

vars == <<rows, checkpoints, lock, writer, meddles, damages>>

Seqs == 0..MaxSeq
Contents == {ContentOf[w] : w \in Writers} \cup {Foreign}

Genesis == <<>>
RecordHash(prev, content) == Append(prev, content)
Row(prev, content) ==
    [prev |-> prev, content |-> content, hash |-> RecordHash(prev, content)]

Outcomes == {"none", "appended", "fork_detected", "already_present", "unavailable"}

IsRow(r) == r \in [prev : Seq(Contents), content : Contents, hash : Seq(Contents)]

EvidenceTypeOK ==
    /\ \A q \in Seqs : rows[q] = NoRow \/ IsRow(rows[q])
    /\ \A c \in checkpoints : c.seq \in Seqs /\ c.root \in Seq(Contents)
    /\ lock \in Writers \cup {NoOne}
    /\ \A w \in Writers :
          /\ writer[w].pc \in {"idle", "locking", "reading", "inserting", "committing", "done"}
          /\ writer[w].seq \in Nat
          /\ writer[w].prev \in Seq(Contents)
          /\ writer[w].outcome \in Outcomes
    /\ meddles \in 0..MaxMeddles /\ damages \in 0..MaxDamages

Init ==
    /\ rows = [q \in Seqs |-> NoRow]
    /\ checkpoints = {}
    /\ lock = NoOne
    /\ writer = [w \in Writers |-> [pc |-> "idle", seq |-> 0, prev |-> Genesis,
                                    outcome |-> "none"]]
    /\ meddles = 0 /\ damages = 0

-----------------------------------------------------------------------------
(* append *)

Written == {q \in Seqs : rows[q] # NoRow}
LastSeq    == CHOOSE q \in Written : \A r \in Written : r <= q
tables  == <<rows, checkpoints>>

Goto(w, pc) == writer' = [writer EXCEPT ![w].pc = pc]

(* The transaction ends, and with it its lock. *)
End(w, outcome) ==
    /\ writer' = [writer EXCEPT ![w].pc = "done", ![w].outcome = outcome]
    /\ lock' = IF lock = w THEN NoOne ELSE lock

Begin(w) ==
    /\ writer[w].pc = "idle"
    /\ Goto(w, "locking")
    /\ UNCHANGED <<tables, lock, meddles, damages>>

(* Faulty: every connection takes a lock of its own. *)
LockConnection(w) ==
    /\ writer[w].pc = "locking"
    /\ lock' = w
    /\ Goto(w, "reading")
    /\ UNCHANGED <<tables, meddles, damages>>

LockTenant(w) ==
    /\ writer[w].pc = "locking"
    /\ lock = NoOne
    /\ lock' = w
    /\ Goto(w, "reading")
    /\ UNCHANGED <<tables, meddles, damages>>

(* #headWith: a statement after the lock sees whatever committed before it. *)
ReadHead(w) ==
    /\ writer[w].pc = "reading"
    /\ writer' = [writer EXCEPT ![w] =
                    [@ EXCEPT !.pc = "inserting",
                              !.seq = IF Written = {} THEN 0 ELSE LastSeq + 1,
                              !.prev = IF Written = {} THEN Genesis ELSE rows[LastSeq].hash]]
    /\ UNCHANGED <<tables, lock, meddles, damages>>

Sealed(w) == Row(writer[w].prev, ContentOf[w])

(* Two writers at one seq or with one hash: ON CONFLICT DO NOTHING. *)
Taken(w) ==
    \/ writer[w].seq \in Written
    \/ \E q \in Written : rows[q].hash = Sealed(w).hash

Insert(w) ==
    /\ writer[w].pc = "inserting" /\ writer[w].seq \in Seqs
    /\ ~Taken(w)
    /\ Goto(w, "committing")
    /\ UNCHANGED <<tables, lock, meddles, damages>>

(* The insert lost: what is there instead decides what the caller is told. *)
Lose(w) ==
    /\ writer[w].pc \in {"inserting", "committing"} /\ writer[w].seq \in Seqs
    /\ Taken(w)
    /\ End(w, IF rows[writer[w].seq] = Sealed(w) THEN "already_present" ELSE "fork_detected")
    /\ UNCHANGED <<tables, meddles, damages>>

(* A commit may succeed without the caller learning of it. *)
Commit(w) ==
    /\ writer[w].pc = "committing"
    /\ ~Taken(w)
    /\ rows' = [rows EXCEPT ![writer[w].seq] = Sealed(w)]
    /\ \E told \in {"appended", "unavailable"} : End(w, told)
    /\ UNCHANGED <<checkpoints, meddles, damages>>

(* An error, a lost connection, a process that dies: rolled back. *)
Abort(w) ==
    /\ writer[w].pc \in {"locking", "reading", "inserting", "committing"}
    /\ End(w, "unavailable")
    /\ UNCHANGED <<tables, meddles, damages>>

-----------------------------------------------------------------------------
(* Checkpoints and what happens behind the store's back *)

(* v2_evidence_checkpoint_guard: only about a record that exists. *)
Checkpoint(q) ==
    /\ q \in Written
    /\ \A c \in checkpoints : c.seq # q
    /\ checkpoints' = checkpoints \cup {[seq |-> q, root |-> rows[q].hash]}
    /\ UNCHANGED <<rows, lock, writer, meddles, damages>>

Meddle(q, prev) ==
    /\ meddles < MaxMeddles /\ meddles' = meddles + 1
    /\ q \notin Written
    /\ \A r \in Written : rows[r].hash # RecordHash(prev, Foreign)
    /\ rows' = [rows EXCEPT ![q] = Row(prev, Foreign)]
    /\ UNCHANGED <<checkpoints, lock, writer, damages>>

(* Rows changed, rehashed or dropped although the trigger forbids it. *)
Damage(q, row) ==
    /\ damages < MaxDamages /\ damages' = damages + 1
    /\ q \in Written /\ row # rows[q]
    /\ rows' = [rows EXCEPT ![q] = row]
    /\ UNCHANGED <<checkpoints, lock, writer, meddles>>

Next ==
    \/ \E w \in Writers : \/ Begin(w) \/ LockTenant(w) \/ ReadHead(w) \/ Insert(w)
                          \/ Lose(w) \/ Commit(w) \/ Abort(w)
    \/ \E q \in Seqs : Checkpoint(q)
    \/ \E q \in Seqs, prev \in {Genesis} \cup {rows[r].hash : r \in Written} : Meddle(q, prev)
    \/ \E q \in Seqs :
          \/ Damage(q, NoRow)
          \/ q \in Written /\ Damage(q, [rows[q] EXCEPT !.content = Foreign])
          \/ q \in Written /\ Damage(q, Row(rows[q].prev, Foreign))

Spec == Init /\ [][Next]_vars

-----------------------------------------------------------------------------
(* The audit *)

(* verifyEvidenceBundle: sequence, linkage, hashes, in the order of read. *)
BundleVerifies ==
    \A q \in Written :
        /\ q = 0 \/ q - 1 \in Written
        /\ rows[q].prev = IF q = 0 THEN Genesis ELSE rows[q - 1].hash
        /\ rows[q].hash = RecordHash(rows[q].prev, rows[q].content)

(* auditEvidenceChain: the same, and no checkpoint is missed or moved. *)
Intact ==
    /\ BundleVerifies
    /\ \A c \in checkpoints : c.seq \in Written /\ rows[c.seq].hash = c.root

-----------------------------------------------------------------------------
(* Properties *)

(* evidence-store.ts "With the advisory lock held that should be           *)
(* unreachable": appenders of any number of processes never run into one   *)
(* another, so a fork_detected, or a record that is already there, always  *)
(* means that somebody wrote past the store.                               *)
ForksAreForeign ==
    \A w \in Writers : writer[w].outcome \in {"fork_detected", "already_present"}
        => meddles > 0 \/ damages > 0

(* The audit neither cries wolf nor lets history go: an untouched chain is *)
(* intact and holds every acknowledged record where the caller was told it *)
(* is, and a chain that passes holds, up to each checkpoint, the very      *)
(* contents that were there when the checkpoint was made.                  *)
AuditTellsTruth ==
    /\ meddles + damages = 0 =>
          /\ Intact
          /\ \A w \in Writers : writer[w].outcome = "appended"
                                  => rows[writer[w].seq] = Sealed(w)
    /\ Intact => \A c \in checkpoints :
          [i \in 1..(c.seq + 1) |-> rows[i - 1].content] = c.root
=============================================================================
