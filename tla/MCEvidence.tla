----------------------------- MODULE MCEvidence -----------------------------
(***************************************************************************)
(* One instance of the theorems about the evidence store and the MCP       *)
(* gateway, so that what they assume is evaluated here too.                *)
(***************************************************************************)
EXTENDS MCBase

VARIABLES
    rows, checkpoints, lock, writer, meddles, damages,      \* EvidenceStore
    served, linked, mcall, mservers, mversions, review, recorded, changes, reviews     \* Mcp

(* EvidenceStore: three writers, two of them with the same payload, one    *)
(* record written past the store and one damaged.                          *)

TheWriters == {one, two, "w3"}
TheContents == [w \in TheWriters |-> IF w = "w3" THEN "y" ELSE "x"]

(* Mcp: one session of an upstream with one tool, whose manifest changes   *)
(* once; two first contacts with its server, or two approvals.             *)

TheMcpCalls == {one, two}
TheManifests == {"old", "new"}
TheRows == {"r1", "r2"}

E == INSTANCE EvidenceStore_proofs WITH
        Writers <- TheWriters, ContentOf <- TheContents,
        Foreign <- "z", NoOne <- "no one", NoRow <- None,
        MaxSeq <- 2, MaxMeddles <- 1, MaxDamages <- 1,
        upstream <- served, session <- linked, call <- mcall,
        servers <- mservers, versions <- mversions,
        Sessions <- {"g1"}, Calls <- TheMcpCalls, Tools <- {"tool"},
        Manifests <- TheManifests, Rows <- TheRows,
        NoManifest <- None, MaxChanges <- 1, MaxReviews <- 2

evidenceVars == <<rows, checkpoints, lock, writer, meddles, damages>>
mcpVars == <<served, linked, mcall, mservers, mversions, review, recorded, changes, reviews>>

(* Another module is the subject. *)
evidenceRests ==
    /\ rows = None /\ checkpoints = None /\ lock = None /\ writer = None
    /\ meddles = None /\ damages = None
mcpRests ==
    /\ served = None /\ linked = None /\ mcall = None /\ mservers = None
    /\ mversions = None /\ review = None /\ recorded = None /\ changes = None
    /\ reviews = None

(* One race of the guard at a time. *)
EitherRace == mservers # TheRows \/ reviews < 2

(* What the theorems about the two modules assume. *)
EvidenceHypotheses == E!StoreWellFormed /\ E!ListingsAreFinite /\ E!GatewayBounds
=============================================================================
