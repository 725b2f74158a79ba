-------------------------- MODULE Delegation_proofs --------------------------
(***************************************************************************)
(* For any links, bundles, envelopes and identities, and without the       *)
(* bounds of the model: a grant that subsumes another permits whatever the *)
(* other permits, wildcards included, so that no chain of delegations ends *)
(* beyond its root and no context beyond the bundle in force.              *)
(*                                                                         *)
(* At the end, the identities the links name (Identity) and the client     *)
(* that acts under them (Client).                                          *)
(***************************************************************************)
EXTENDS Delegation, FiniteSetTheorems, TLAPS

(* What parseGrant returns, and what a capability is. *)
Parsed(grants) == \A g \in grants : g.segments \in Seq(STRING)

(* The grants of every document are parsed ones. *)
GrantsParsed ==
    /\ Parsed(Root) /\ Parsed(Capabilities)
    /\ \A link \in Links : Parsed(link.scope)
    /\ \A e \in Envelopes : Parsed(e.context.grants)
    /\ \A b \in Bundles : \A t \in DOMAIN b.manifest :
          b.manifest[t].segments \in Seq(STRING)

(* Versions count up from one, and the bounds of the model are numbers. *)
VersionsCount ==
    /\ \A e \in Envelopes : e.version \in Nat
    /\ MaxHops \in Nat /\ MaxTime \in Nat

(* A verified identity is its agent and its nonce. *)
IdentitiesArePairs ==
    \A i \in Identities : i = [agent |-> i.agent, nonce |-> i.nonce]

-----------------------------------------------------------------------------
(* Subsumption *)

(* grantSubsumes is sound: the child's wildcards never reach further than  *)
(* the parent's, neither where the parent ends in `**` ...                 *)
LEMMA OpenEndedSubsumes ==
    ASSUME NEW p, NEW c, NEW cap,
           p.segments \in Seq(STRING), c.segments \in Seq(STRING),
           cap.segments \in Seq(STRING),
           p.provider = c.provider, Matches(c, cap),
           NEW k \in 1..Len(p.segments),
           p.segments[k] = "**", CoversUpTo(p, c, k - 1)
    PROVE  Matches(p, cap)
<1>1. PICK n \in 0..Len(c.segments) :
          /\ n <= Len(cap.segments)
          /\ \A i \in 1..n : c.segments[i] \in {"*", cap.segments[i]}
          /\ IF n < Len(c.segments) THEN c.segments[n + 1] = "**"
             ELSE n = Len(cap.segments)
  BY DEF Matches
<1> DEFINE m == k - 1
<1>2. m \in 0..Len(p.segments) /\ m < Len(p.segments) /\ m + 1 = k
  OBVIOUS
<1>3. /\ m <= Len(c.segments)
      /\ \A i \in 1..m : /\ c.segments[i] # "**"
                         /\ p.segments[i] \in {"*", c.segments[i]}
  BY <1>2 DEF CoversUpTo, Covers
<1> HIDE DEF m
<1>4. m <= n
  <2>1. ASSUME n < m PROVE FALSE
    <3>1. n < Len(c.segments) /\ n + 1 \in 1..m
      BY <1>2, <1>3, <2>1
    <3> QED
      BY <1>1, <1>3, <3>1
  <2> QED
    BY <1>2, <2>1
<1>5. \A i \in 1..m : p.segments[i] \in {"*", cap.segments[i]}
  <2> TAKE i \in 1..m
  <2>1. i \in 1..n
    BY <1>2, <1>4
  <2>2. c.segments[i] \in {"*", cap.segments[i]} /\ p.segments[i] \in {"*", c.segments[i]}
    BY <1>1, <1>3, <2>1
  <2> QED
    BY <2>2
<1>6. m <= Len(cap.segments)
  BY <1>1, <1>2, <1>4
<1> QED
  BY <1>1, <1>2, <1>5, <1>6 DEF Matches

(* ... nor where it ends with its last segment. *)
LEMMA ClosedSubsumes ==
    ASSUME NEW p, NEW c, NEW cap,
           p.segments \in Seq(STRING), c.segments \in Seq(STRING),
           cap.segments \in Seq(STRING),
           p.provider = c.provider, Matches(c, cap),
           Len(p.segments) = Len(c.segments),
           CoversUpTo(p, c, Len(p.segments))
    PROVE  Matches(p, cap)
<1>1. PICK n \in 0..Len(c.segments) :
          /\ n <= Len(cap.segments)
          /\ \A i \in 1..n : c.segments[i] \in {"*", cap.segments[i]}
          /\ IF n < Len(c.segments) THEN c.segments[n + 1] = "**"
             ELSE n = Len(cap.segments)
  BY DEF Matches
<1>2. \A i \in 1..Len(c.segments) : /\ c.segments[i] # "**"
                                    /\ p.segments[i] \in {"*", c.segments[i]}
  BY DEF CoversUpTo, Covers
<1>3. n = Len(c.segments) /\ n = Len(cap.segments)
  BY <1>1, <1>2
<1>4. \A i \in 1..n : p.segments[i] \in {"*", cap.segments[i]}
  BY <1>1, <1>2, <1>3
<1> QED
  BY <1>1, <1>3, <1>4 DEF Matches

(* Whatever a subsumed grant permits, the grant that subsumes it permits:  *)
(* grantSubsumes compares patterns, and this is what they stand for.       *)
THEOREM SubsumptionSound ==
    ASSUME NEW p, NEW c, NEW cap,
           p.segments \in Seq(STRING), c.segments \in Seq(STRING),
           cap.segments \in Seq(STRING),
           GrantSubsumes(p, c), Matches(c, cap)
    PROVE  Matches(p, cap)
<1>1. CASE \E k \in 1..Len(p.segments) :
              p.segments[k] = "**" /\ CoversUpTo(p, c, k - 1)
  BY <1>1, OpenEndedSubsumes DEF GrantSubsumes
<1>2. CASE /\ Len(p.segments) = Len(c.segments)
           /\ CoversUpTo(p, c, Len(p.segments))
  BY <1>2, ClosedSubsumes DEF GrantSubsumes
<1> QED
  BY <1>1, <1>2 DEF GrantSubsumes

(* A scope accepted as narrower permits nothing the wider one does not. *)
LEMMA NarrowerPermitsLess ==
    ASSUME NEW child, NEW parent, Parsed(child), Parsed(parent),
           ScopeIsNarrowerThan(child, parent),
           NEW cap, cap.segments \in Seq(STRING), Permits(child, cap)
    PROVE  Permits(parent, cap)
<1>1. PICK c \in child : Matches(c, cap)
  BY DEF Permits
<1>2. PICK p \in parent : GrantSubsumes(p, c)
  BY DEF ScopeIsNarrowerThan
<1>3. Matches(p, cap)
  BY <1>1, <1>2, SubsumptionSound DEF Parsed
<1> QED
  BY <1>3 DEF Permits

(* Subsumption composes where the widest of three grants ends in `**` ...   *)
LEMMA OpenEndedComposes ==
    ASSUME NEW p, NEW c, NEW g,
           p.segments \in Seq(STRING), c.segments \in Seq(STRING), g.segments \in Seq(STRING),
           p.provider = c.provider, GrantSubsumes(c, g),
           NEW k \in 1..Len(p.segments),
           p.segments[k] = "**", CoversUpTo(p, c, k - 1)
    PROVE  GrantSubsumes(p, g)
<1>1. /\ k - 1 \in Nat /\ k - 1 <= Len(c.segments)
      /\ \A i \in 1..(k - 1) : Covers(p.segments[i], c.segments[i])
  BY DEF CoversUpTo
<1>2. /\ k - 1 <= Len(g.segments)
      /\ \A i \in 1..(k - 1) : Covers(c.segments[i], g.segments[i])
  <2>1. ASSUME NEW n \in 1..Len(c.segments), c.segments[n] = "**", CoversUpTo(c, g, n - 1)
        PROVE  k - 1 <= n - 1 /\ n - 1 <= Len(g.segments)
    <3>1. n \notin 1..(k - 1)
      BY <1>1, <2>1 DEF Covers
    <3> QED
      BY <1>1, <2>1, <3>1 DEF CoversUpTo
  <2>2. CASE \E n \in 1..Len(c.segments) : c.segments[n] = "**" /\ CoversUpTo(c, g, n - 1)
    BY <1>1, <2>1, <2>2 DEF CoversUpTo
  <2>3. CASE Len(c.segments) = Len(g.segments) /\ CoversUpTo(c, g, Len(c.segments))
    BY <1>1, <2>3 DEF CoversUpTo
  <2> QED
    BY <2>2, <2>3 DEF GrantSubsumes
<1>3. \A i \in 1..(k - 1) : Covers(p.segments[i], g.segments[i])
  BY <1>1, <1>2 DEF Covers
<1>4. CoversUpTo(p, g, k - 1)
  BY <1>2, <1>3 DEF CoversUpTo
<1> QED
  BY <1>4 DEF GrantSubsumes

(* ... and where it ends with its last segment. *)
LEMMA ClosedComposes ==
    ASSUME NEW p, NEW c, NEW g,
           p.segments \in Seq(STRING), c.segments \in Seq(STRING), g.segments \in Seq(STRING),
           p.provider = c.provider, GrantSubsumes(c, g),
           Len(p.segments) = Len(c.segments),
           CoversUpTo(p, c, Len(p.segments))
    PROVE  GrantSubsumes(p, g)
<1>1. \A i \in 1..Len(c.segments) : Covers(p.segments[i], c.segments[i])
  BY DEF CoversUpTo
<1>2. Len(c.segments) = Len(g.segments) /\ CoversUpTo(c, g, Len(c.segments))
  BY <1>1 DEF GrantSubsumes, Covers
<1>3. CoversUpTo(p, g, Len(p.segments))
  BY <1>1, <1>2 DEF CoversUpTo, Covers
<1> QED
  BY <1>2, <1>3 DEF GrantSubsumes

(* v2/delegation.ts: narrowing composes.  A scope narrower than one that is *)
(* narrower than a third is narrower than the third, wildcards included, so *)
(* that a hop which narrows the one before it is within the root as well.  *)
(* (The code asks only the latter: a hop may widen the one before it.)     *)
THEOREM NarrowingComposes ==
    ASSUME NEW scope, NEW middle, NEW root,
           \A g \in scope \cup middle \cup root : g.segments \in Seq(STRING),
           ScopeIsNarrowerThan(scope, middle), ScopeIsNarrowerThan(middle, root)
    PROVE  ScopeIsNarrowerThan(scope, root)
<1>1. ASSUME NEW g \in scope PROVE g # NoGrant /\ \E p \in root : GrantSubsumes(p, g)
  <2>1. PICK c \in middle : GrantSubsumes(c, g)
    BY <1>1 DEF ScopeIsNarrowerThan
  <2>2. PICK p \in root : GrantSubsumes(p, c)
    BY <2>1 DEF ScopeIsNarrowerThan
  <2>3. ASSUME NEW k \in 1..Len(p.segments), p.segments[k] = "**", CoversUpTo(p, c, k - 1)
        PROVE  GrantSubsumes(p, g)
    BY <2>1, <2>2, <2>3, OpenEndedComposes DEF GrantSubsumes
  <2>4. ASSUME Len(p.segments) = Len(c.segments), CoversUpTo(p, c, Len(p.segments))
        PROVE  GrantSubsumes(p, g)
    <3>1. p.provider = c.provider
      BY <2>2 DEF GrantSubsumes
    <3> QED
      BY <2>1, <2>4, <3>1, ClosedComposes
  <2>5. GrantSubsumes(p, g)
    BY <2>2, <2>3, <2>4 DEF GrantSubsumes
  <2> QED
    BY <1>1, <2>5 DEF ScopeIsNarrowerThan
<1> QED
  BY <1>1 DEF ScopeIsNarrowerThan

-----------------------------------------------------------------------------
(* The types of the state *)

LEMMA InitTyped == ASSUME VersionsCount, Init PROVE DelegationTypeOK
BY DEF VersionsCount, Init, DelegationTypeOK

LEMMA NextTyped ==
    ASSUME VersionsCount, DelegationTypeOK, [Next]_vars PROVE DelegationTypeOK'
<1>1. ASSUME NEW link \in Links, Delegate(link) PROVE DelegationTypeOK'
  BY <1>1 DEF VersionsCount, DelegationTypeOK, Delegate
<1>2. ASSUME NEW e \in Envelopes, NEW i \in Identities, Present(e, i)
      PROVE  DelegationTypeOK'
  BY <1>2 DEF VersionsCount, DelegationTypeOK, Present, Agents
<1>3. ASSUME NEW b \in Bundles, Activate(b) PROVE DelegationTypeOK'
  BY <1>3 DEF DelegationTypeOK, Activate
<1>4. CASE Tick
  BY <1>4 DEF VersionsCount, DelegationTypeOK, Tick
<1>5. CASE UNCHANGED vars
  BY <1>5 DEF DelegationTypeOK, vars
<1> QED
  BY <1>1, <1>2, <1>3, <1>4, <1>5 DEF Next

(* The state stays within its types: delegation.ts keeps no state beyond a *)
(* request, EnvelopeVersionTracker a number for each agent.                *)
THEOREM DelegationTyped ==
    ASSUME VersionsCount PROVE Spec => []DelegationTypeOK
<1> QED
  BY InitTyped, NextTyped, PTL DEF Spec

-----------------------------------------------------------------------------
(* Chains of delegations *)

LEMMA ResolvedWithinRoot ==
    ASSUME GrantsParsed, DelegationTypeOK PROVE WithinRoot
<1> SUFFICES ASSUME Resolved(now), NEW cap \in Capabilities, NEW n \in 1..Len(chain),
                    Permits(chain[n].scope, cap)
             PROVE  Permits(Root, cap)
  BY DEF WithinRoot
<1>1. chain[n] \in Links
  BY DEF DelegationTypeOK
<1>2. ScopeIsNarrowerThan(chain[n].scope, Root)
  BY DEF Resolved, DelegationAccepted
<1> QED
  BY <1>1, <1>2, NarrowerPermitsLess DEF GrantsParsed, Parsed

(* S6: a chain of delegations that resolves, of any length and by whomever *)
(* its links were written, permits at no hop what its root does not.       *)
THEOREM DelegationNarrows ==
    ASSUME GrantsParsed, VersionsCount PROVE Spec => []WithinRoot
<1>1. DelegationTypeOK => WithinRoot
  BY ResolvedWithinRoot
<1> QED
  BY <1>1, DelegationTyped, PTL

-----------------------------------------------------------------------------
(* Security contexts *)

(* The context an agent holds is the newest one presented for it: the      *)
(* tracker's floor and the context move together.                          *)
ContextIsHighest ==
    \A a \in Agents : context[a] = NoEnvelope \/ context[a].version = highest[a]

ContextInv == DelegationTypeOK /\ ContextIsHighest

LEMMA PresentedIsAllowed ==
    ASSUME GrantsParsed, IdentitiesArePairs, ContextInv,
           NEW e \in Envelopes, NEW i \in Identities, Present(e, i)
    PROVE  ContextsStep /\ ContextIsHighest'
<1> DEFINE ceiling == CeilingOf(bundle, i.agent)
<1>1. /\ i.agent \in Agents
      /\ \A a \in Agents : context'[a] = IF a = i.agent THEN e ELSE context[a]
      /\ \A a \in Agents : highest'[a] = IF a = i.agent THEN e.version ELSE highest[a]
  BY DEF ContextInv, DelegationTypeOK, Present, Agents
<1>2. ContextIsHighest'
  BY <1>1 DEF ContextInv, ContextIsHighest, Agents
<1>3. ASSUME NEW cap \in Capabilities, Permits(e.context.grants, cap)
      PROVE  \E t \in DOMAIN bundle.manifest : Matches(bundle.manifest[t], cap)
  <2>1. ScopeIsNarrowerThan(e.context.grants, ceiling.grants)
    BY DEF Present, WithinCeiling
  <2>2. ceiling.grants = {bundle.manifest[t] : t \in DOMAIN bundle.manifest}
    BY DEF CeilingOf
  <2>3. Parsed(e.context.grants) /\ Parsed(ceiling.grants)
    BY <2>2 DEF GrantsParsed, Parsed, ContextInv, DelegationTypeOK
  <2>4. cap.segments \in Seq(STRING)
    BY DEF GrantsParsed, Parsed
  <2> HIDE DEF ceiling
  <2>5. Permits(ceiling.grants, cap)
    BY <1>3, <2>1, <2>3, <2>4, NarrowerPermitsLess
  <2> QED
    BY <2>2, <2>5 DEF Permits
<1>4. context[i.agent] = NoEnvelope \/ e.version > context[i.agent].version
  BY <1>1 DEF ContextInv, ContextIsHighest, Present, EnvelopeAccepted
<1>5. [agent |-> i.agent, nonce |-> e.nonce] \in Identities
  BY DEF IdentitiesArePairs, Present, EnvelopeAccepted
<1>6. ReplacesContext(i.agent)
  BY <1>1, <1>3, <1>4, <1>5 DEF ReplacesContext
<1>7. ContextsStep
  BY <1>1, <1>6 DEF ContextsStep, Agents
<1> QED
  BY <1>2, <1>7

LEMMA ContextStep ==
    ASSUME GrantsParsed, VersionsCount, IdentitiesArePairs, ContextInv, [Next]_vars
    PROVE  ContextInv' /\ (ContextsStep \/ UNCHANGED vars)
<1>1. DelegationTypeOK'
  BY NextTyped DEF ContextInv
<1>2. ASSUME NEW e \in Envelopes, NEW i \in Identities, Present(e, i)
      PROVE  ContextsStep /\ ContextIsHighest'
  BY <1>2, PresentedIsAllowed
<1>3. ASSUME UNCHANGED <<highest, context>> PROVE ContextsStep /\ ContextIsHighest'
  BY <1>3 DEF ContextInv, ContextIsHighest, ContextsStep, Agents
<1>4. UNCHANGED <<highest, context>> \/ \E e \in Envelopes, i \in Identities : Present(e, i)
  BY DEF Next, Delegate, Activate, Tick, vars
<1> QED
  BY <1>1, <1>2, <1>3, <1>4 DEF ContextInv

(* "Narrowing-only": whatever envelopes are replayed and however the       *)
(* bundle changes, a context is replaced only by a newer one that the      *)
(* bundle in force at that moment allows capability by capability, and for *)
(* a verified execution.  The floor of the tracker stands for the context  *)
(* it was last raised with, which is why the comparison with it is enough. *)
THEOREM ContextsOnlyNarrow ==
    ASSUME GrantsParsed, VersionsCount, IdentitiesArePairs
    PROVE  Spec => ContextsNarrow
<1>1. Init => ContextInv
  BY InitTyped DEF ContextInv, ContextIsHighest, Init
<1>2. ContextInv /\ [Next]_vars => ContextInv' /\ [ContextsStep]_vars
  BY ContextStep
<1> QED
  BY <1>1, <1>2, PTL DEF Spec, ContextsNarrow

-----------------------------------------------------------------------------
(***************************************************************************)
(* The identities behind the delegations (Identity).                       *)
(***************************************************************************)
CONSTANTS Workloads, Domain, Audience, Kids, LocalKey, Entitled, Algorithms, NoJti, NoToken,
          TimeToLive, MaxRevocations
VARIABLES published, known, fetch, revoked

I == INSTANCE Identity

(* A token lives for a while, SVIDs are signed as they are verified, and a *)
(* minted token's id is one.                                               *)
IdentitiesWellFormed ==
    /\ TimeToLive \in Nat \ {0} /\ MaxTime \in Nat
    /\ "ES256" \in Algorithms
    /\ \A w \in Workloads, t \in 0..MaxTime : <<w, t>> # NoJti

MintedAt(w, t) ==
    [form |-> "minted", sub |-> I!Own(w), iat |-> t, exp |-> t + TimeToLive,
     jti |-> <<w, t>>, key |-> LocalKey, alg |-> "Ed25519", aud |-> {}, genuine |-> TRUE]

(* What a request has in hand was issued by now, and what it holds is its own. *)
Issued(w) ==
    /\ fetch[w].stage = "jwks" =>
          \E sub, key : \E iat \in 0..now : fetch[w].token = I!Svid(sub, key, iat)
    /\ fetch[w].stage = "held" =>
          \/ \E t \in 0..now : fetch[w].token = MintedAt(w, t)
          \/ \E key : \E iat \in 0..now : fetch[w].token = I!Svid(I!Own(w), key, iat)
IdentityInv ==
    /\ now \in 0..MaxTime
    /\ DOMAIN fetch = Workloads
    /\ \A w \in Workloads : Issued(w)

LEMMA OthersKeep ==
    ASSUME NEW w \in Workloads, Issued(w), MaxTime \in Nat,
           now \in 0..MaxTime, now' \in 0..MaxTime, now <= now',
           fetch'[w] = fetch[w]
    PROVE  Issued(w)'
<1>1. \A t \in 0..now : t \in 0..now'
  OBVIOUS
<1>2. ASSUME fetch'[w].stage = "jwks"
      PROVE  \E sub, key : \E iat \in 0..now' : fetch'[w].token = I!Svid(sub, key, iat)
  BY <1>1, <1>2 DEF Issued
<1>3. ASSUME fetch'[w].stage = "held"
      PROVE  \/ \E t \in 0..now' : fetch'[w].token = MintedAt(w, t)
             \/ \E key : \E iat \in 0..now' : fetch'[w].token = I!Svid(I!Own(w), key, iat)
  BY <1>1, <1>3 DEF Issued
<1> QED
  BY <1>2, <1>3 DEF Issued

LEMMA IdentityStep ==
    ASSUME IdentitiesWellFormed, IdentityInv, [I!Next]_(I!vars)
    PROVE  IdentityInv'
<1> USE DEF IdentityInv
<1>0. MaxTime \in Nat /\ now <= now
  BY DEF IdentitiesWellFormed
<1>1. ASSUME NEW w \in Workloads, NEW stage, NEW token, I!Goto(w, stage, token), now' = now,
             stage \notin {"jwks", "held"}
      PROVE  IdentityInv'
  <2>1. DOMAIN fetch' = Workloads /\ fetch'[w].stage = stage
        /\ \A v \in Workloads : v # w => fetch'[v] = fetch[v]
    BY <1>1 DEF I!Goto
  <2>2. Issued(w)'
    BY <1>1, <2>1 DEF Issued
  <2> QED
    BY <1>0, <1>1, <2>1, <2>2, OthersKeep
<1>2. ASSUME NEW w \in Workloads, I!Mint(w) PROVE IdentityInv'
  <2>1. /\ DOMAIN fetch' = Workloads /\ fetch'[w].stage = "held"
        /\ fetch'[w].token = MintedAt(w, now) /\ now' = now
        /\ \A v \in Workloads : v # w => fetch'[v] = fetch[v]
    BY <1>2 DEF I!Mint, I!Goto, I!Minted, MintedAt
  <2>2. Issued(w)'
    <3>1. now' \in 0..now' /\ MintedAt(w, now)' = MintedAt(w, now)
      BY <2>1 DEF MintedAt, I!Own, I!Subject
    <3> QED
      BY <2>1, <3>1 DEF Issued, MintedAt
  <2> QED
    BY <1>0, <2>1, <2>2, OthersKeep
<1>3. ASSUME NEW w \in Workloads, I!Offered(w) PROVE IdentityInv'
  <2>1. PICK sub \in Entitled[w], key \in Kids, iat \in 0..now :
           I!Goto(w, "jwks", I!Svid(sub, key, iat)) /\ now' = now
    BY <1>3 DEF I!Offered
  <2>2. /\ DOMAIN fetch' = Workloads /\ fetch'[w].stage = "jwks"
        /\ fetch'[w].token = I!Svid(sub, key, iat)
        /\ \A v \in Workloads : v # w => fetch'[v] = fetch[v]
    BY <2>1 DEF I!Goto
  <2>3. Issued(w)'
    <3>1. iat \in 0..now'
      BY <2>1
    <3>2. fetch'[w].stage # "held"
      BY <2>2
    <3>3. \E s, k : \E t \in 0..now' : fetch'[w].token = I!Svid(s, k, t)
      BY <2>2, <3>1
    <3> QED
      BY <3>2, <3>3 DEF Issued, I!Svid
  <2> QED
    BY <1>0, <2>1, <2>2, <2>3, OthersKeep
<1>4. ASSUME NEW w \in Workloads, I!Jwks(w) PROVE IdentityInv'
  <2>1. PICK sub, key : \E iat \in 0..now : fetch[w].token = I!Svid(sub, key, iat)
    BY <1>4 DEF I!Jwks, Issued
  <2>2. PICK iat \in 0..now : fetch[w].token = I!Svid(sub, key, iat)
    BY <2>1
  <2>3. now' = now
    BY <1>4 DEF I!Jwks
  <2>4. CASE I!Goto(w, "held", fetch[w].token) /\ fetch[w].token.sub = I!Own(w)
    <3>1. /\ DOMAIN fetch' = Workloads /\ fetch'[w].stage = "held"
          /\ fetch'[w].token = fetch[w].token
          /\ \A v \in Workloads : v # w => fetch'[v] = fetch[v]
      BY <2>4 DEF I!Goto
    <3>2. sub = I!Own(w)
      BY <2>2, <2>4 DEF I!Svid
    <3>3. Issued(w)'
      <4>1. fetch'[w].token = I!Svid(I!Own(w), key, iat) /\ iat \in 0..now'
        BY <2>2, <2>3, <3>1, <3>2
      <4>2. fetch'[w].stage # "jwks"
        BY <3>1
      <4>3. \E k : \E t \in 0..now' : fetch'[w].token = I!Svid(I!Own(w), k, t)
        BY <4>1
      <4> QED
        BY <4>2, <4>3 DEF Issued, I!Svid, I!Own, I!Subject
    <3> QED
      BY <1>0, <2>3, <3>1, <3>3, OthersKeep
  <2>5. CASE I!Fails(w)
    BY <1>1, <2>3, <2>5 DEF I!Fails
  <2> QED
    BY <1>4, <2>4, <2>5 DEF I!Jwks
<1>5. ASSUME NEW w \in Workloads,
             I!Request(w) \/ I!NotOffered(w) \/ I!JwksFails(w) \/ I!Again(w)
      PROVE  IdentityInv'
  BY <1>1, <1>5 DEF I!Request, I!NotOffered, I!JwksFails, I!Again, I!Fails
<1>6. ASSUME UNCHANGED fetch, now' \in 0..MaxTime, now <= now' PROVE IdentityInv'
  BY <1>0, <1>6, OthersKeep
<1>7. CASE I!Next
  <2>1. CASE \E w \in Workloads : I!RevokeNonce(w)
    BY <1>0, <1>6, <2>1 DEF I!RevokeNonce
  <2>2. CASE \E keys \in SUBSET Kids : I!Rotate(keys)
    BY <1>0, <1>6, <2>2 DEF I!Rotate
  <2>3. CASE I!Reload \/ I!Tick
    BY <1>0, <1>6, <2>3 DEF I!Reload, I!Tick
  <2> QED
    BY <1>2, <1>3, <1>4, <1>5, <1>7, <2>1, <2>2, <2>3 DEF I!Next
<1>8. CASE UNCHANGED I!vars
  BY <1>0, <1>6, <1>8 DEF I!vars
<1> QED
  BY <1>7, <1>8

LEMMA HeldTokens ==
    ASSUME IdentitiesWellFormed, IdentityInv, NEW w \in Workloads, fetch[w].stage = "held"
    PROVE  LET t == fetch[w].token
           IN  /\ t.sub = I!Own(w)
               /\ I!Verdict(t) \in {"accepted", "expired", "revoked", "untrusted_issuer"}
               /\ I!Verdict(t) = "untrusted_issuer" => t.key \notin known
               /\ I!Verdict(t) = "accepted" => now < t.exp
<1> USE DEF IdentitiesWellFormed, IdentityInv
<1>1. CASE \E u \in 0..now : fetch[w].token = MintedAt(w, u)
  <2>1. PICK u \in 0..now : fetch[w].token = MintedAt(w, u)
    BY <1>1
  <2>2. MintedAt(w, u).exp > u /\ u <= now
    BY DEF MintedAt
  <2> QED
    BY <2>1, <2>2 DEF MintedAt, I!Verdict, I!EnvelopeObjection, I!Own, I!Subject
<1>2. CASE \E key : \E iat \in 0..now : fetch[w].token = I!Svid(I!Own(w), key, iat)
  <2>1. PICK key : \E iat \in 0..now : fetch[w].token = I!Svid(I!Own(w), key, iat)
    BY <1>2
  <2>2. PICK iat \in 0..now : fetch[w].token = I!Svid(I!Own(w), key, iat)
    BY <2>1
  <2> QED
    BY <2>2 DEF I!Svid, I!Verdict, I!SvidObjection, I!Own, I!Subject
<1> QED
  BY <1>1, <1>2 DEF Issued

LEMMA NoncesDiffer ==
    ASSUME IdentitiesWellFormed, IdentityInv,
           NEW v \in Workloads, NEW w \in Workloads, v # w,
           fetch[v].stage = "held", fetch[w].stage = "held"
    PROVE  I!NonceOf(fetch[v].token) # I!NonceOf(fetch[w].token)
<1> USE DEF IdentitiesWellFormed, IdentityInv
<1>1. ASSUME NEW x \in Workloads, fetch[x].stage = "held"
      PROVE  \/ \E t \in 0..now : I!NonceOf(fetch[x].token) = <<<<x, t>>>>
             \/ \E t \in 0..now : I!NonceOf(fetch[x].token) = <<t, I!Own(x)>>
  <2>1. CASE \E t \in 0..now : fetch[x].token = MintedAt(x, t)
    BY <2>1 DEF MintedAt, I!NonceOf
  <2>2. CASE \E key : \E t \in 0..now : fetch[x].token = I!Svid(I!Own(x), key, t)
    BY <2>2 DEF I!Svid, I!NonceOf
  <2> QED
    BY <1>1, <2>1, <2>2 DEF Issued
<1>2. I!Own(v) # I!Own(w)
  BY DEF I!Own, I!Subject
<1>3. \A x, y : <<x>> # <<y, I!Own(v)>> /\ <<x>> # <<y, I!Own(w)>>
  OBVIOUS
<1> QED
  BY <1>1, <1>2, <1>3

(* mint and createSpireIdentityProvider: the token a workload was given    *)
(* names it alone, the sidecar refuses it only because time passed, its    *)
(* keys changed or it was revoked, and no two share a nonce.               *)
THEOREM IdentitiesAreHonoured ==
    ASSUME IdentitiesWellFormed PROVE I!Spec => []I!HeldIsHonoured
<1>1. I!Init => IdentityInv
  BY DEF I!Init, IdentityInv, Issued, IdentitiesWellFormed
<1>2. IdentityInv /\ [I!Next]_(I!vars) => IdentityInv'
  BY IdentityStep
<1>3. IdentityInv => I!HeldIsHonoured
  BY HeldTokens, NoncesDiffer DEF I!HeldIsHonoured, I!Holding, I!Token
<1> QED
  BY <1>1, <1>2, <1>3, PTL DEF I!Spec

-----------------------------------------------------------------------------
(* The SPIRE agent names workloads there are, one signing key is the first *)
(* one, and the bound of the model is a number.                            *)
TrustDomainWellFormed ==
    /\ \A w \in Workloads : \A sub \in Entitled[w] : sub.agent \in Workloads
    /\ \E k \in Kids : \A j \in Kids : k <= j
    /\ MaxRevocations \in Nat

FetchesTyped ==
    \A w \in Workloads :
        /\ fetch[w].stage \in {"idle", "svid", "jwks", "held", "failed"}
        /\ fetch[w].token = NoToken \/ I!IsToken(fetch[w].token)

KeysTyped == published \subseteq Kids /\ known \subseteq Kids

RevocationsTyped == IsFiniteSet(revoked) /\ Cardinality(revoked) <= MaxRevocations

(* Identity counts as this module does. *)
LEMMA CountsAgree == ASSUME NEW S PROVE I!Cardinality(S) = Cardinality(S)
BY DEF I!Cardinality, Cardinality

IdentityTyped == IdentityInv /\ FetchesTyped /\ KeysTyped /\ RevocationsTyped

(* What is minted and what is offered are tokens. *)
LEMMA TokensAreTokens ==
    ASSUME IdentitiesWellFormed, now \in 0..MaxTime, NEW w \in Workloads
    PROVE  /\ I!IsToken(I!Minted(w))
           /\ \A sub, key : \A iat \in 0..now :
                 sub.agent \in Workloads => I!IsToken(I!Svid(sub, key, iat))
<1> USE DEF IdentitiesWellFormed
<1>1. \A t \in 0..now : t \in 0..MaxTime /\ t + TimeToLive \in 0..(MaxTime + TimeToLive)
  OBVIOUS
<1>2. now \in 0..now
  OBVIOUS
<1>3. I!IsToken(I!Minted(w))
  BY <1>1, <1>2 DEF I!IsToken, I!Minted, I!Own, I!Subject
<1>4. ASSUME NEW sub, NEW key, NEW iat \in 0..now, sub.agent \in Workloads
      PROVE  I!IsToken(I!Svid(sub, key, iat))
  BY <1>1, <1>4 DEF I!IsToken, I!Svid
<1> QED
  BY <1>3, <1>4

LEMMA GotoTypes ==
    ASSUME IdentityInv, FetchesTyped, NEW w \in Workloads,
           NEW stage \in {"idle", "svid", "jwks", "held", "failed"}, NEW token,
           token = NoToken \/ I!IsToken(token), I!Goto(w, stage, token)
    PROVE  FetchesTyped'
<1>1. \A v \in Workloads :
         fetch'[v] = IF v = w THEN [stage |-> stage, token |-> token] ELSE fetch[v]
  BY DEF I!Goto, IdentityInv
<1> QED
  BY <1>1 DEF FetchesTyped, I!IsToken

LEMMA IdentityTypesStep ==
    ASSUME IdentitiesWellFormed, TrustDomainWellFormed, IdentityTyped, [I!Next]_(I!vars)
    PROVE  FetchesTyped' /\ KeysTyped' /\ RevocationsTyped'
<1> USE DEF IdentityTyped
<1>1. ASSUME UNCHANGED <<published, known, revoked>> PROVE KeysTyped' /\ RevocationsTyped'
  BY <1>1 DEF KeysTyped, RevocationsTyped
<1>2. ASSUME UNCHANGED fetch PROVE FetchesTyped'
  BY <1>2 DEF FetchesTyped, I!IsToken
<1>3. now \in 0..MaxTime
  BY DEF IdentityInv
<1>4. ASSUME NEW w \in Workloads, I!Mint(w) PROVE FetchesTyped'
  <2>1. I!Goto(w, "held", I!Minted(w)) /\ I!IsToken(I!Minted(w))
    BY <1>3, <1>4, TokensAreTokens DEF I!Mint
  <2> QED
    BY <2>1, GotoTypes
<1>5. ASSUME NEW w \in Workloads, I!Offered(w) PROVE FetchesTyped'
  <2>1. PICK sub \in Entitled[w], key \in Kids, iat \in 0..now :
           I!Goto(w, "jwks", I!Svid(sub, key, iat))
    BY <1>5 DEF I!Offered
  <2>2. I!IsToken(I!Svid(sub, key, iat))
    BY <1>3, TokensAreTokens DEF TrustDomainWellFormed
  <2> QED
    BY <2>1, <2>2, GotoTypes
<1>6. ASSUME NEW w \in Workloads, I!Jwks(w) PROVE FetchesTyped'
  <2>1. fetch[w].token = NoToken \/ I!IsToken(fetch[w].token)
    BY DEF FetchesTyped
  <2>2. CASE I!Goto(w, "held", fetch[w].token)
    BY <2>1, <2>2, GotoTypes
  <2>3. CASE I!Fails(w)
    BY <2>3, GotoTypes DEF I!Fails
  <2> QED
    BY <1>6, <2>2, <2>3 DEF I!Jwks
<1>7. ASSUME NEW w \in Workloads,
             I!Request(w) \/ I!NotOffered(w) \/ I!JwksFails(w) \/ I!Again(w)
      PROVE  FetchesTyped'
  <2>1. I!Goto(w, "svid", NoToken) \/ I!Goto(w, "failed", NoToken) \/ I!Goto(w, "idle", NoToken)
    BY <1>7 DEF I!Request, I!NotOffered, I!JwksFails, I!Again, I!Fails
  <2> QED
    BY <2>1, GotoTypes
<1>8. ASSUME NEW w \in Workloads,
             \/ I!Mint(w) \/ I!Request(w) \/ I!Offered(w) \/ I!NotOffered(w)
             \/ I!Jwks(w) \/ I!JwksFails(w) \/ I!Again(w)
      PROVE  UNCHANGED <<published, known, revoked>>
  BY <1>8 DEF I!Mint, I!Request, I!Offered, I!NotOffered, I!Jwks, I!JwksFails, I!Again
<1>9. ASSUME NEW w \in Workloads, I!RevokeNonce(w) PROVE KeysTyped' /\ RevocationsTyped'
  <2> DEFINE nonce == I!NonceOf(fetch[w].token)
  <2>1. /\ revoked' = revoked \cup {nonce} /\ Cardinality(revoked) < MaxRevocations
        /\ UNCHANGED <<published, known>>
    BY <1>9, CountsAgree DEF I!RevokeNonce
  <2>2. IsFiniteSet(revoked') /\ Cardinality(revoked') <= Cardinality(revoked) + 1
        /\ Cardinality(revoked) \in Nat
    <3>1. IsFiniteSet(revoked)
      BY DEF RevocationsTyped
    <3>2. /\ IsFiniteSet(revoked \cup {nonce})
          /\ Cardinality(revoked \cup {nonce}) =
               IF nonce \in revoked THEN Cardinality(revoked) ELSE Cardinality(revoked) + 1
      BY <3>1, FS_AddElement
    <3>3. Cardinality(revoked) \in Nat
      BY <3>1, FS_CardinalityType
    <3> QED
      BY <2>1, <3>2, <3>3
  <2>3. Cardinality(revoked') \in Nat
    BY <2>2, FS_CardinalityType
  <2> QED
    BY <2>1, <2>2, <2>3 DEF KeysTyped, RevocationsTyped, TrustDomainWellFormed
<1>10. ASSUME NEW keys \in SUBSET Kids, I!Rotate(keys) PROVE KeysTyped' /\ RevocationsTyped'
  BY <1>10 DEF I!Rotate, KeysTyped, RevocationsTyped
<1>11. ASSUME I!Reload PROVE KeysTyped' /\ RevocationsTyped'
  BY <1>11 DEF I!Reload, KeysTyped, RevocationsTyped
<1>12. ASSUME I!Tick PROVE UNCHANGED <<published, known, fetch, revoked>>
  BY <1>12 DEF I!Tick
<1>13. CASE UNCHANGED I!vars
  BY <1>1, <1>2, <1>13 DEF I!vars
<1>14. CASE I!Next
  <2>1. CASE \E w \in Workloads : I!RevokeNonce(w)
    BY <1>2, <1>9, <2>1 DEF I!RevokeNonce
  <2>2. CASE \E keys \in SUBSET Kids : I!Rotate(keys)
    BY <1>2, <1>10, <2>2 DEF I!Rotate
  <2>3. CASE I!Reload
    BY <1>2, <1>11, <2>3 DEF I!Reload
  <2>4. CASE I!Tick
    BY <1>1, <1>2, <1>12, <2>4
  <2>5. CASE \E w \in Workloads : \/ I!Mint(w) \/ I!Request(w) \/ I!Offered(w) \/ I!NotOffered(w)
                                  \/ I!Jwks(w) \/ I!JwksFails(w) \/ I!Again(w)
    BY <1>1, <1>4, <1>5, <1>6, <1>7, <1>8, <2>5
  <2> QED
    BY <1>14, <2>1, <2>2, <2>3, <2>4, <2>5 DEF I!Next
<1> QED
  BY <1>13, <1>14

(* Whatever is fetched, minted, rotated or revoked, the state is one of    *)
(* tokens, published keys and a bounded list of revocations.               *)
THEOREM IdentityTypeCorrect ==
    ASSUME IdentitiesWellFormed, TrustDomainWellFormed PROVE I!Spec => []I!IdentityTypeOK
<1>1. I!Init => IdentityTyped
  <2> SUFFICES ASSUME I!Init PROVE IdentityTyped
    OBVIOUS
  <2>1. IdentityInv /\ FetchesTyped
    BY DEF I!Init, IdentityInv, Issued, IdentitiesWellFormed, FetchesTyped
  <2>2. I!First \in Kids
    BY DEF TrustDomainWellFormed, I!First
  <2>3. KeysTyped
    BY <2>2 DEF I!Init, KeysTyped
  <2>4. RevocationsTyped
    BY FS_EmptySet DEF I!Init, RevocationsTyped, TrustDomainWellFormed
  <2> QED
    BY <2>1, <2>3, <2>4 DEF IdentityTyped
<1>2. IdentityTyped /\ [I!Next]_(I!vars) => IdentityTyped'
  BY IdentityStep, IdentityTypesStep DEF IdentityTyped
<1>3. IdentityTyped => I!IdentityTypeOK
  BY CountsAgree DEF IdentityTyped, IdentityInv, FetchesTyped, KeysTyped, RevocationsTyped, I!IdentityTypeOK
<1> QED
  BY <1>1, <1>2, <1>3, PTL DEF I!Spec

-----------------------------------------------------------------------------
(***************************************************************************)
(* The client that acts for an agent (Client).                             *)
(***************************************************************************)
CONSTANTS Calls, Paths, Inside, Outside, HomeOf, Nowhere, Linkings, Kinds, MaxMoves
VARIABLES named, ends, content, call, decision, result, claimed, moves

C == INSTANCE Client

(* A path stands for a name by itself, nowhere is no place, no place is    *)
(* both inside and outside, and where a link ends there is none.           *)
PathsWellFormed ==
    /\ \A p \in Paths : HomeOf[p] \in C!Places
    /\ Nowhere \notin C!Places /\ Inside \cap Outside = {}
    /\ \A f \in Linkings : /\ f \in [C!Places -> C!Places]
                           /\ \A p \in C!Places : f[f[p]] = f[p]
    /\ MaxMoves \in Nat

Ran == {"executed", "failed", "timeout"}
Statuses == Ran \cup {"none", "blocked"}

ACall == [kind : Kinds, path : Paths, stage : C!Stages, plan : Calls,
          named : C!SomePlace, at : C!SomePlace, before : Nat,
          led : C!SomePlace, touched : C!SomePlace, ran : {0, 1},
          status : Statuses, outcome : {"none", "ok", "refused", "error"}]

(* What is done is allowed, each kind goes its own way, and a plan that    *)
(* another call executes is that of an allowed command.                    *)
Proceeds(c) ==
    /\ call[c].stage = "idle" => decision[c] = "none" /\ call[c].plan = c
    /\ call[c].plan # c => /\ call[c].kind = "bash" /\ decision[call[c].plan] = "allow"
                           /\ call[call[c].plan].kind = "bash"
                           /\ call[call[c].plan].plan = call[c].plan
    /\ call[c].stage = "asked" => call[c].plan = c
    /\ call[c].stage \in {"verify", "touch", "claim", "run"} => decision[call[c].plan] = "allow"
    /\ call[c].stage \in {"verify", "touch"} => call[c].kind \in C!Files
    /\ call[c].stage = "claim" => call[c].kind = "bash"
    /\ call[c].stage \notin {"report", "done"} => call[c].status = "none"
    /\ call[c].stage # "done" => call[c].outcome = "none"

(* It is done once, a command only on its claimed token. *)
Holds(r) == r.ran = 1 \/ r.stage = "run"

Does(c) ==
    /\ call[c].ran = 1 => decision[call[c].plan] = "allow" /\ call[c].status \in Ran
    /\ call[c].stage \notin {"report", "done"} => call[c].ran = 0
    /\ call[c].kind = "bash" /\ Holds(call[c]) => call[c].plan \in claimed

(* What was checked led to a name in the workspace, and to no other unless *)
(* a write found nothing there.                                            *)
Opens(c) ==
    /\ call[c].kind \in C!Files /\ call[c].stage \in {"asked", "verify", "touch"} =>
          call[c].at \in Inside
    /\ call[c].stage = "touch" /\ call[c].kind # "write" => call[c].led = call[c].at
    /\ call[c].stage \notin {"report", "done"} => call[c].touched = Nowhere
    /\ call[c].touched \in Outside /\ call[c].touched = call[c].led =>
          call[c].kind = "write" /\ call[c].led # call[c].at

(* What is reported says whether it was done. *)
Reports(c) ==
    /\ call[c].stage = "report" => call[c].status # "none"
    /\ call[c].status = "blocked" => /\ call[c].plan = c /\ call[c].ran = 0
                                     /\ call[c].kind = "bash" => decision[c] = "refuse"
    /\ call[c].status \in Ran => call[c].ran = 1
    /\ call[c].outcome = "ok" => call[c].status \in Ran /\ result[call[c].plan] = call[c].status

CallInv(c) == Proceeds(c) /\ Does(c) /\ Opens(c) /\ Reports(c)

(* One of those who execute a plan gets to do it. *)
OneHolds ==
    \A b, c \in Calls : b # c /\ call[b].plan = call[c].plan => ~(Holds(call[b]) /\ Holds(call[c]))

(* What is recorded says whether it was done. *)
Records(d) ==
    /\ result[d] = "blocked" =>
          IF call[d].kind = "bash" THEN decision[d] = "refuse"
          ELSE call[d].stage = "done" /\ call[d].ran = 0
    /\ result[d] \in Ran => \E c \in Calls : call[c].plan = d /\ call[c].ran = 1

WorldTyped ==
    /\ named \in [Paths -> C!SomePlace] /\ ends \in Linkings
    /\ content \in [C!Places -> Nat] /\ moves \in 0..MaxMoves
Typed ==
    /\ WorldTyped /\ call \in [Calls -> ACall]
    /\ decision \in [Calls -> {"none", "allow", "refuse"}]
    /\ result \in [Calls -> Statuses]
    /\ claimed \subseteq Calls
ClientInv ==
    /\ Typed /\ OneHolds
    /\ \A c \in Calls : CallInv(c) /\ Records(c)

LEMMA InitClient == ASSUME PathsWellFormed, C!Init PROVE ClientInv
<1>1. PICK kind \in [Calls -> Kinds], path \in [Calls -> Paths] :
         call = [c \in Calls |-> C!Idle(c, kind[c], path[c])]
  BY DEF C!Init
<1>2. ASSUME NEW c \in Calls
      PROVE  /\ call[c] \in ACall
             /\ call[c].stage = "idle" /\ call[c].plan = c /\ call[c].ran = 0
             /\ call[c].status = "none" /\ call[c].outcome = "none"
             /\ call[c].touched = Nowhere
  <2>1. call[c] = C!Idle(c, kind[c], path[c]) /\ kind[c] \in Kinds /\ path[c] \in Paths
    BY <1>1
  <2> QED
    BY <2>1 DEF C!Idle, ACall, C!Stages, Statuses, C!SomePlace
<1>3. Typed
  <2>1. call \in [Calls -> ACall]
    BY <1>1, <1>2
  <2>2. named \in [Paths -> C!SomePlace]
    BY DEF C!Init, C!SomePlace, PathsWellFormed
  <2>3. content \in [C!Places -> Nat]
    BY DEF C!Init
  <2> QED
    BY <2>1, <2>2, <2>3 DEF C!Init, Typed, WorldTyped, PathsWellFormed, Statuses
<1>4. \A c \in Calls : CallInv(c) /\ Records(c)
  BY <1>2 DEF C!Init, CallInv, Proceeds, Does, Holds, Opens, Reports, Records, Ran,
     PathsWellFormed, C!Places
<1>5. OneHolds
  BY <1>2 DEF OneHolds, Holds
<1> QED
  BY <1>3, <1>4, <1>5 DEF ClientInv

(* Only commands share a plan. *)
LEMMA PlansShared ==
    ASSUME ClientInv, NEW b \in Calls, NEW c \in Calls, b # c, call[b].plan = call[c].plan
    PROVE  call[b].kind = "bash" /\ call[c].kind = "bash"
<1>1. CASE call[c].plan = c
  BY <1>1 DEF ClientInv, CallInv, Proceeds
<1>2. CASE call[c].plan # c
  BY <1>2 DEF ClientInv, CallInv, Proceeds
<1> QED
  BY <1>1, <1>2

(* A step of one call leaves what holds of another. *)
LEMMA OthersStay ==
    ASSUME ClientInv, NEW c \in Calls, NEW new \in ACall,
           call' = [call EXCEPT ![c] = new], new.kind = call[c].kind,
           new.plan = call[c].plan \/ call[c].stage = "idle",
           \A d \in Calls : \/ decision'[d] = decision[d]
                            \/ decision[d] = "none" /\ call[d].stage # "idle",
           \A d \in Calls : result'[d] = result[d] \/ result[d] = "none",
           claimed \subseteq claimed',
           NEW b \in Calls, b # c
    PROVE  CallInv(b)'
<1>1. call'[b] = call[b] /\ call'[c] = new /\ CallInv(b)
  BY DEF ClientInv, Typed
<1>2. call[b].plan \in Calls
  BY DEF ClientInv, Typed, ACall
<1>3. call[b].plan # b => /\ call'[call[b].plan].kind = "bash"
                          /\ call'[call[b].plan].plan = call[b].plan
  <2> SUFFICES ASSUME call[b].plan # b
               PROVE  /\ call'[call[b].plan].kind = "bash"
                      /\ call'[call[b].plan].plan = call[b].plan
    OBVIOUS
  <2>1. CASE call[b].plan = c
    BY <2>1, <1>1 DEF ClientInv, CallInv, Proceeds
  <2>2. CASE call[b].plan # c
    BY <2>2, <1>1, <1>2 DEF CallInv, Proceeds, ClientInv, Typed
  <2> QED
    BY <2>1, <2>2
<1>4. Proceeds(b)'
  BY <1>1, <1>2, <1>3 DEF CallInv, Proceeds
<1>5. Does(b)' /\ Opens(b)'
  BY <1>1, <1>2 DEF CallInv, Does, Opens, Holds
<1>6. Reports(b)'
  BY <1>1, <1>2 DEF CallInv, Reports, Ran
<1> QED
  BY <1>4, <1>5, <1>6 DEF CallInv

(* The client's own steps: where a call goes next, and with what. *)
Follows(c, new) ==
    /\ call' = [call EXCEPT ![c] = new]
    /\ new.kind = call[c].kind /\ call[c].stage # "done"
    /\ new.plan = call[c].plan \/ call[c].stage = "idle"
    /\ call[c].ran = 1 => new.ran = 1
    /\ Holds(new) => \/ Holds(call[c]) /\ new.plan = call[c].plan
                     \/ call[c].kind # "bash" /\ new.plan = call[c].plan
                     \/ call[c].plan \notin claimed /\ new.plan = call[c].plan
    /\ UNCHANGED <<named, ends, moves, decision, result>>
    /\ content' \in [C!Places -> Nat]
    /\ claimed' \in {claimed, claimed \cup {call[c].plan}}

LEMMA Moves ==
    ASSUME ClientInv, NEW c \in Calls, NEW new \in ACall, Follows(c, new), CallInv(c)'
    PROVE  ClientInv'
<1>1. call[c].plan \in Calls
  BY DEF ClientInv, Typed, ACall
<1>2. Typed'
  BY <1>1 DEF Follows, ClientInv, Typed, WorldTyped
<1>3. \A b \in Calls : CallInv(b)'
  BY OthersStay DEF Follows
<1>4. /\ call'[c] = new /\ \A b \in Calls : b # c => call'[b] = call[b]
      /\ result' = result /\ decision' = decision
  BY DEF Follows, ClientInv, Typed
<1>5. OneHolds'
  <2>1. ASSUME NEW b \in Calls, b # c, call[b].plan = new.plan, Holds(call[b]), Holds(new)
        PROVE  FALSE
    <3>1. new.plan = call[c].plan
      BY <2>1 DEF Follows
    <3>2. call[b].kind = "bash" /\ call[c].kind = "bash"
      BY <2>1, <3>1, PlansShared
    <3>3. call[b].plan \in claimed
      BY <2>1, <3>2 DEF ClientInv, CallInv, Does
    <3>4. Holds(call[c])
      BY <2>1, <3>1, <3>2, <3>3 DEF Follows
    <3> QED
      BY <2>1, <3>1, <3>4 DEF ClientInv, OneHolds
  <2> QED
    BY <1>4, <2>1 DEF ClientInv, OneHolds
<1>6. ASSUME NEW d \in Calls PROVE Records(d)'
  <2>1. Records(d) /\ (d = c => call[d].stage # "done" /\ new.kind = call[d].kind)
    BY DEF ClientInv, Follows
  <2>2. ASSUME result[d] \in Ran PROVE \E b \in Calls : call'[b].plan = d /\ call'[b].ran = 1
    <3>1. PICK b \in Calls : call[b].plan = d /\ call[b].ran = 1
      BY <2>1, <2>2 DEF Records
    <3>2. b = c => new.plan = d /\ new.ran = 1
      BY <3>1 DEF Follows, ClientInv, CallInv, Does
    <3> QED
      BY <1>4, <3>1, <3>2
  <2>3. result[d] = "blocked" => IF call'[d].kind = "bash" THEN decision[d] = "refuse"
                                 ELSE call'[d].stage = "done" /\ call'[d].ran = 0
    BY <1>4, <2>1 DEF Records
  <2> QED
    BY <1>4, <2>2, <2>3 DEF Records
<1> QED
  BY <1>2, <1>3, <1>5, <1>6 DEF ClientInv

(* A call is given up. *)
LEMMA Ends ==
    ASSUME ClientInv, NEW c \in Calls, NEW outcome \in {"refused", "error"},
           call[c].stage \notin {"report", "done"}, C!Finish(c, outcome),
           UNCHANGED <<named, ends, content, moves, decision, result>>,
           claimed' \in {claimed, claimed \cup {call[c].plan}}
    PROVE  ClientInv'
<1> DEFINE new == [call[c] EXCEPT !.stage = "done", !.outcome = outcome]
<1>0. call[c] \in ACall /\ CallInv(c) /\ content \in [C!Places -> Nat]
  BY DEF ClientInv, Typed, WorldTyped
<1>1. call' = [call EXCEPT ![c] = new]
  BY DEF C!Finish
<1>2. new \in ACall
  BY <1>0 DEF ACall, C!Stages
<1>3. call'[c] = new
  BY <1>1 DEF ClientInv, Typed
<1>4. /\ new.kind = call[c].kind /\ new.plan = call[c].plan /\ new.ran = call[c].ran
      /\ new.status = call[c].status /\ new.touched = call[c].touched
      /\ new.stage = "done" /\ new.outcome = outcome /\ call[c].ran = 0
      /\ call[c].status = "none" /\ call[c].touched = Nowhere
      /\ new.led = call[c].led /\ new.at = call[c].at
  BY <1>0 DEF ACall, CallInv, Proceeds, Does, Opens
<1> HIDE DEF new
<1>5. Follows(c, new)
  BY <1>0, <1>1, <1>4 DEF Follows, Holds
<1>6. Proceeds(c)'
  <2>1. call[c].plan # c => call'[call[c].plan] = call[call[c].plan]
    BY <1>0, <1>1 DEF ACall, ClientInv, Typed
  <2> QED
    BY <1>0, <1>3, <1>4, <2>1 DEF CallInv, Proceeds
<1>7. Does(c)' /\ Reports(c)' /\ Opens(c)'
  BY <1>0, <1>3, <1>4 DEF CallInv, Does, Reports, Opens, Holds, Ran, C!Files
<1> QED
  BY <1>2, <1>5, <1>6, <1>7, Moves DEF CallInv

LEMMA AsksKeeps ==
    ASSUME PathsWellFormed, ClientInv, NEW c \in Calls, call[c].kind \notin C!Files, C!Ask(c)
    PROVE  ClientInv'
<1>0. /\ call[c] \in ACall /\ CallInv(c) /\ call[c].stage = "idle"
      /\ UNCHANGED <<named, ends, moves, decision, result>>
      /\ content \in [C!Places -> Nat] /\ content' \in [C!Places -> Nat]
      /\ claimed' = claimed
  BY DEF C!Ask, C!world, C!daemon, ClientInv, Typed, WorldTyped, C!Verifying
<1> DEFINE new == [call[c] EXCEPT !.stage = "asked"]
<1>1. call' = [call EXCEPT ![c] = new]
  BY DEF C!Ask, C!Goto, C!Kind
<1>2. new \in ACall
  BY <1>0 DEF ACall, C!Stages, Statuses, Ran, C!SomePlace
<1>3. /\ new.kind = call[c].kind
      /\ new.plan = call[c].plan
      /\ new.at = call[c].at
      /\ new.led = call[c].led
      /\ new.touched = call[c].touched
      /\ new.ran = call[c].ran
      /\ new.status = call[c].status
      /\ new.outcome = call[c].outcome
      /\ new.stage = "asked"
  BY <1>0 DEF ACall
<1> HIDE DEF new
<1>4. call'[c] = new
  BY <1>1 DEF ClientInv, Typed
<1>5. Follows(c, new)
  BY <1>0, <1>1, <1>3 DEF Follows, Holds, CallInv, Proceeds, Does, C!Files
<1>6. Proceeds(c)'
  <2>1. call[c].plan # c => call'[call[c].plan] = call[call[c].plan]
    BY <1>0, <1>1 DEF ACall, ClientInv, Typed
  <2> QED
    BY <1>0, <1>3, <1>4, <2>1 DEF CallInv, Proceeds, C!Files
<1>7. Does(c)' /\ Reports(c)'
  BY <1>0, <1>3, <1>4 DEF CallInv, Proceeds, Does, Reports, Holds, Ran, C!Files
<1>8. Opens(c)'
  BY <1>0, <1>3, <1>4 DEF CallInv, Proceeds, Does, Opens, C!Files, C!Places, PathsWellFormed
<1> QED
  BY <1>2, <1>5, <1>6, <1>7, <1>8, Moves DEF CallInv

LEMMA AsksOfFilesKeeps ==
    ASSUME PathsWellFormed, ClientInv, NEW c \in Calls, call[c].kind \in C!Files, C!WithinWorkspace(c), C!Ask(c)
    PROVE  ClientInv'
<1>0. /\ call[c] \in ACall /\ CallInv(c) /\ call[c].stage = "idle"
      /\ UNCHANGED <<named, ends, moves, decision, result>>
      /\ content \in [C!Places -> Nat] /\ content' \in [C!Places -> Nat]
      /\ claimed' = claimed
  BY DEF C!Ask, C!world, C!daemon, ClientInv, Typed, WorldTyped, C!Verifying
<1> DEFINE at == C!Canonical(c)
           name == C!Named(c)
<1>a. at \in Inside /\ at \in C!Places /\ content[at] \in Nat /\ name \in C!SomePlace
  <2>1. name \in C!SomePlace
    BY <1>0 DEF C!Named, ClientInv, Typed, WorldTyped, ACall
  <2> QED
    BY <1>0, <2>1 DEF C!WithinWorkspace, C!Places
<1> DEFINE new == [call[c] EXCEPT !.stage = "asked", !.named = name, !.at = at, !.before = content[at]]
<1>1. call' = [call EXCEPT ![c] = new]
  BY DEF C!Ask, C!Kind
<1> HIDE DEF at, name
<1>2. new \in ACall
  BY <1>0, <1>a DEF ACall, C!Stages, Statuses, Ran, C!SomePlace
<1>3. /\ new.kind = call[c].kind
      /\ new.plan = call[c].plan
      /\ new.led = call[c].led
      /\ new.touched = call[c].touched
      /\ new.ran = call[c].ran
      /\ new.status = call[c].status
      /\ new.outcome = call[c].outcome
      /\ new.stage = "asked"
      /\ new.at = at
  BY <1>0 DEF ACall
<1> HIDE DEF new
<1>4. call'[c] = new
  BY <1>1 DEF ClientInv, Typed
<1>5. Follows(c, new)
  BY <1>0, <1>1, <1>3, <1>a DEF Follows, Holds, CallInv, Proceeds, Does, C!Files
<1>6. Proceeds(c)'
  <2>1. call[c].plan # c => call'[call[c].plan] = call[call[c].plan]
    BY <1>0, <1>1 DEF ACall, ClientInv, Typed
  <2> QED
    BY <1>0, <1>3, <1>4, <2>1, <1>a DEF CallInv, Proceeds, C!Files
<1>7. Does(c)' /\ Reports(c)'
  BY <1>0, <1>3, <1>4, <1>a DEF CallInv, Proceeds, Does, Reports, Holds, Ran, C!Files
<1>8. Opens(c)'
  BY <1>0, <1>3, <1>4, <1>a DEF CallInv, Proceeds, Does, Opens, C!Files, C!Places, PathsWellFormed
<1> QED
  BY <1>2, <1>5, <1>6, <1>7, <1>8, Moves DEF CallInv

LEMMA AnsweredKeeps ==
    ASSUME PathsWellFormed, ClientInv, NEW c \in Calls, decision[c] = "allow", C!Answered(c)
    PROVE  ClientInv'
<1>0. /\ call[c] \in ACall /\ CallInv(c) /\ call[c].stage = "asked"
      /\ UNCHANGED <<named, ends, moves, decision, result>>
      /\ content \in [C!Places -> Nat] /\ content' \in [C!Places -> Nat]
      /\ claimed' = claimed
  BY DEF C!Answered, C!world, C!daemon, ClientInv, Typed, WorldTyped, C!Verifying
<1> DEFINE act == C!Act(c)
<1>a. /\ act \in {"verify", "claim", "run"} /\ call[c].plan = c
      /\ act = "verify" => call[c].kind \in C!Files
      /\ act = "claim" <=> call[c].kind = "bash"
  BY <1>0 DEF C!Act, C!Kind, C!Files, CallInv, Proceeds
<1> DEFINE new == [call[c] EXCEPT !.stage = act]
<1>1. call' = [call EXCEPT ![c] = new]
  BY DEF C!Answered, C!Goto
<1> HIDE DEF act
<1>2. new \in ACall
  BY <1>0, <1>a DEF ACall, C!Stages, Statuses, Ran, C!SomePlace
<1>3. /\ new.kind = call[c].kind
      /\ new.plan = call[c].plan
      /\ new.at = call[c].at
      /\ new.led = call[c].led
      /\ new.touched = call[c].touched
      /\ new.ran = call[c].ran
      /\ new.status = call[c].status
      /\ new.outcome = call[c].outcome
      /\ new.stage = act
  BY <1>0 DEF ACall
<1> HIDE DEF new
<1>4. call'[c] = new
  BY <1>1 DEF ClientInv, Typed
<1>5. Follows(c, new)
  BY <1>0, <1>1, <1>3, <1>a DEF Follows, Holds, CallInv, Proceeds, Does, C!Files
<1>6. Proceeds(c)'
  <2>1. call[c].plan # c => call'[call[c].plan] = call[call[c].plan]
    BY <1>0, <1>1 DEF ACall, ClientInv, Typed
  <2> QED
    BY <1>0, <1>3, <1>4, <2>1, <1>a DEF CallInv, Proceeds, C!Files
<1>7. Does(c)' /\ Reports(c)'
  BY <1>0, <1>3, <1>4, <1>a DEF CallInv, Proceeds, Does, Reports, Holds, Ran, C!Files
<1>8. Opens(c)'
  BY <1>0, <1>3, <1>4, <1>a DEF CallInv, Proceeds, Does, Opens, C!Files, C!Places, PathsWellFormed
<1> QED
  BY <1>2, <1>5, <1>6, <1>7, <1>8, Moves DEF CallInv

(* What is refused, and a read whose path moved, is reported as blocked. *)
LEMMA BlockedKeeps ==
    ASSUME PathsWellFormed, ClientInv, NEW c \in Calls, NEW stage \in {"asked", "verify"}, call[c].stage = stage,
           C!ToReport(c, "blocked"), UNCHANGED <<C!world, C!daemon, claimed>>,
           IF stage = "asked" THEN decision[c] = "refuse" ELSE call[c].kind = "read"
    PROVE  ClientInv'
<1>0. /\ call[c] \in ACall /\ CallInv(c) /\ call[c].stage \in {"asked", "verify"}
      /\ UNCHANGED <<named, ends, moves, decision, result>>
      /\ content \in [C!Places -> Nat] /\ content' \in [C!Places -> Nat]
      /\ claimed' = claimed
  BY DEF C!world, C!world, C!daemon, ClientInv, Typed, WorldTyped, C!Verifying
<1> DEFINE new == [call[c] EXCEPT !.stage = "report", !.status = "blocked"]
<1>1. call' = [call EXCEPT ![c] = new]
  BY DEF C!ToReport
<1>2. new \in ACall
  BY <1>0 DEF ACall, C!Stages, Statuses, Ran, C!SomePlace
<1>3. /\ new.kind = call[c].kind
      /\ new.plan = call[c].plan
      /\ new.at = call[c].at
      /\ new.led = call[c].led
      /\ new.touched = call[c].touched
      /\ new.ran = call[c].ran
      /\ new.outcome = call[c].outcome
      /\ new.stage = "report"
      /\ new.status = "blocked"
  BY <1>0 DEF ACall
<1> HIDE DEF new
<1>4. call'[c] = new
  BY <1>1 DEF ClientInv, Typed
<1>5. Follows(c, new)
  BY <1>0, <1>1, <1>3 DEF Follows, Holds, CallInv, Proceeds, Does, C!Files
<1>6. Proceeds(c)'
  <2>1. call[c].plan # c => call'[call[c].plan] = call[call[c].plan]
    BY <1>0, <1>1 DEF ACall, ClientInv, Typed
  <2> QED
    BY <1>0, <1>3, <1>4, <2>1 DEF CallInv, Proceeds, C!Files
<1>7. Does(c)' /\ Reports(c)'
  BY <1>0, <1>3, <1>4 DEF CallInv, Proceeds, Does, Reports, Holds, Ran, C!Files
<1>8. Opens(c)'
  BY <1>0, <1>3, <1>4 DEF CallInv, Proceeds, Does, Opens, C!Files, C!Places, PathsWellFormed
<1> QED
  BY <1>2, <1>5, <1>6, <1>7, <1>8, Moves DEF CallInv

LEMMA VerifyKeeps ==
    ASSUME PathsWellFormed, ClientInv, NEW c \in Calls, C!Verify(c)
    PROVE  ClientInv'
<1>0. /\ call[c] \in ACall /\ CallInv(c) /\ call[c].stage = "verify"
      /\ UNCHANGED <<named, ends, moves, decision, result>>
      /\ content \in [C!Places -> Nat] /\ content' \in [C!Places -> Nat]
      /\ claimed' = claimed
  BY DEF C!Verify, C!world, C!daemon, ClientInv, Typed, WorldTyped, C!Verifying
<1> DEFINE led == ends[call[c].at]
<1>a. /\ call[c].at \in Inside /\ call[c].kind \in C!Files /\ led \in C!Places
      /\ call[c].kind # "write" => led = call[c].at
  <2>1. call[c].at \in Inside /\ call[c].kind \in C!Files /\ call[c].at \in C!Places
    BY <1>0 DEF CallInv, Proceeds, Opens, C!Places
  <2>2. ends \in [C!Places -> C!Places] /\ \A p \in C!Places : ends[ends[p]] = ends[p]
    BY DEF ClientInv, Typed, WorldTyped, PathsWellFormed
  <2>3. ASSUME call[c].kind # "write" PROVE led = call[c].at
    <3>1. C!Leads(c) = call[c].at /\ call[c].at # Nowhere
      BY <2>1, <2>3 DEF C!Verify, C!Verifying, C!Unmoved, C!Kind, PathsWellFormed
    <3>2. C!Named(c) # Nowhere /\ call[c].at = ends[C!Named(c)]
      BY <3>1 DEF C!Leads
    <3>3. C!Named(c) \in C!Places
      BY <1>0, <3>2 DEF C!Named, ClientInv, Typed, WorldTyped, ACall, C!SomePlace
    <3> QED
      BY <2>2, <3>2, <3>3
  <2> QED
    BY <2>1, <2>2, <2>3
<1> DEFINE new == [call[c] EXCEPT !.stage = "touch", !.led = led]
<1>1. call' = [call EXCEPT ![c] = new]
  BY DEF C!Verify
<1> HIDE DEF led
<1>2. new \in ACall
  BY <1>0, <1>a DEF ACall, C!Stages, Statuses, Ran, C!SomePlace
<1>3. /\ new.kind = call[c].kind
      /\ new.plan = call[c].plan
      /\ new.at = call[c].at
      /\ new.touched = call[c].touched
      /\ new.ran = call[c].ran
      /\ new.status = call[c].status
      /\ new.outcome = call[c].outcome
      /\ new.stage = "touch"
      /\ new.led = led
  BY <1>0 DEF ACall
<1> HIDE DEF new
<1>4. call'[c] = new
  BY <1>1 DEF ClientInv, Typed
<1>5. Follows(c, new)
  BY <1>0, <1>1, <1>3, <1>a DEF Follows, Holds, CallInv, Proceeds, Does, C!Files
<1>6. Proceeds(c)'
  <2>1. call[c].plan # c => call'[call[c].plan] = call[call[c].plan]
    BY <1>0, <1>1 DEF ACall, ClientInv, Typed
  <2> QED
    BY <1>0, <1>3, <1>4, <2>1, <1>a DEF CallInv, Proceeds, C!Files
<1>7. Does(c)' /\ Reports(c)'
  BY <1>0, <1>3, <1>4, <1>a DEF CallInv, Proceeds, Does, Reports, Holds, Ran, C!Files
<1>8. Opens(c)'
  BY <1>0, <1>3, <1>4, <1>a DEF CallInv, Proceeds, Does, Opens, C!Files, C!Places, PathsWellFormed
<1> QED
  BY <1>2, <1>5, <1>6, <1>7, <1>8, Moves DEF CallInv

LEMMA ListKeeps ==
    ASSUME PathsWellFormed, ClientInv, NEW c \in Calls, C!List(c)
    PROVE  ClientInv'
<1>0. /\ call[c] \in ACall /\ CallInv(c) /\ call[c].stage = "verify"
      /\ UNCHANGED <<named, ends, moves, decision, result>>
      /\ content \in [C!Places -> Nat] /\ content' \in [C!Places -> Nat]
      /\ claimed' = claimed
  BY DEF C!List, C!world, C!daemon, ClientInv, Typed, WorldTyped, C!Verifying
<1> DEFINE new == [call[c] EXCEPT !.stage = "report", !.status = "executed", !.ran = 1]
<1>1. call' = [call EXCEPT ![c] = new]
  BY DEF C!List
<1>2. new \in ACall
  BY <1>0 DEF ACall, C!Stages, Statuses, Ran, C!SomePlace
<1>3. /\ new.kind = call[c].kind
      /\ new.plan = call[c].plan
      /\ new.at = call[c].at
      /\ new.led = call[c].led
      /\ new.touched = call[c].touched
      /\ new.outcome = call[c].outcome
      /\ new.stage = "report"
      /\ new.status = "executed"
      /\ new.ran = 1
  BY <1>0 DEF ACall
<1> HIDE DEF new
<1>4. call'[c] = new
  BY <1>1 DEF ClientInv, Typed
<1>5. Follows(c, new)
  BY <1>0, <1>1, <1>3 DEF Follows, Holds, CallInv, Proceeds, Does, C!Files
<1>6. Proceeds(c)'
  <2>1. call[c].plan # c => call'[call[c].plan] = call[call[c].plan]
    BY <1>0, <1>1 DEF ACall, ClientInv, Typed
  <2> QED
    BY <1>0, <1>3, <1>4, <2>1 DEF CallInv, Proceeds, C!Files
<1>7. Does(c)' /\ Reports(c)'
  BY <1>0, <1>3, <1>4 DEF CallInv, Proceeds, Does, Reports, Holds, Ran, C!Files
<1>8. Opens(c)'
  BY <1>0, <1>3, <1>4 DEF CallInv, Proceeds, Does, Opens, C!Files, C!Places, PathsWellFormed
<1> QED
  BY <1>2, <1>5, <1>6, <1>7, <1>8, Moves DEF CallInv

LEMMA TouchKeeps ==
    ASSUME PathsWellFormed, ClientInv, NEW c \in Calls, C!Touch(c)
    PROVE  ClientInv'
<1>0. /\ call[c] \in ACall /\ CallInv(c) /\ call[c].stage = "touch"
      /\ UNCHANGED <<named, ends, moves, decision, result>>
      /\ content \in [C!Places -> Nat] /\ content' \in [C!Places -> Nat]
      /\ claimed' = claimed
  <2>1. /\ call[c] \in ACall /\ CallInv(c) /\ call[c].stage = "touch"
        /\ UNCHANGED <<named, ends, moves, decision, result, claimed>>
        /\ content \in [C!Places -> Nat]
    BY DEF C!Touch, C!daemon, ClientInv, Typed, WorldTyped
  <2>2. PICK file : content' \in {content, [content EXCEPT ![file] = @ + 1]}
    BY DEF C!Touch
  <2> QED
    BY <2>1, <2>2
<1> DEFINE file == ends[call[c].at]
<1>a. file \in C!Places /\ call[c].kind \in C!Files /\ call[c].at \in Inside
  <2>1. call[c].at \in Inside /\ call[c].kind \in C!Files /\ call[c].at \in C!Places
    BY <1>0 DEF CallInv, Proceeds, Opens, C!Places
  <2>2. ends \in [C!Places -> C!Places]
    BY DEF ClientInv, Typed, WorldTyped, PathsWellFormed
  <2> QED
    BY <2>1, <2>2
<1> DEFINE new == [call[c] EXCEPT !.stage = "report", !.status = "executed", !.ran = 1, !.touched = file]
<1>1. call' = [call EXCEPT ![c] = new]
  BY DEF C!Touch
<1> HIDE DEF file
<1>2. new \in ACall
  BY <1>0, <1>a DEF ACall, C!Stages, Statuses, Ran, C!SomePlace
<1>3. /\ new.kind = call[c].kind
      /\ new.plan = call[c].plan
      /\ new.at = call[c].at
      /\ new.led = call[c].led
      /\ new.outcome = call[c].outcome
      /\ new.stage = "report"
      /\ new.status = "executed"
      /\ new.ran = 1
      /\ new.touched = file
  BY <1>0 DEF ACall
<1> HIDE DEF new
<1>4. call'[c] = new
  BY <1>1 DEF ClientInv, Typed
<1>5. Follows(c, new)
  BY <1>0, <1>1, <1>3, <1>a DEF Follows, Holds, CallInv, Proceeds, Does, C!Files
<1>6. Proceeds(c)'
  <2>1. call[c].plan # c => call'[call[c].plan] = call[call[c].plan]
    BY <1>0, <1>1 DEF ACall, ClientInv, Typed
  <2> QED
    BY <1>0, <1>3, <1>4, <2>1, <1>a DEF CallInv, Proceeds, C!Files
<1>7. Does(c)' /\ Reports(c)'
  BY <1>0, <1>3, <1>4, <1>a DEF CallInv, Proceeds, Does, Reports, Holds, Ran, C!Files
<1>8. Opens(c)'
  BY <1>0, <1>3, <1>4, <1>a DEF CallInv, Proceeds, Does, Opens, C!Files, C!Places, PathsWellFormed
<1> QED
  BY <1>2, <1>5, <1>6, <1>7, <1>8, Moves DEF CallInv

LEMMA ClaimKeeps ==
    ASSUME PathsWellFormed, ClientInv, NEW c \in Calls, call[c].plan \notin claimed, C!Claim(c)
    PROVE  ClientInv'
<1>0. /\ call[c] \in ACall /\ CallInv(c) /\ call[c].stage = "claim"
      /\ UNCHANGED <<named, ends, moves, decision, result>>
      /\ content \in [C!Places -> Nat] /\ content' \in [C!Places -> Nat]
      /\ claimed' = claimed \cup {call[c].plan}
  BY DEF C!Claim, C!world, C!daemon, ClientInv, Typed, WorldTyped, C!Verifying
<1> DEFINE new == [call[c] EXCEPT !.stage = "run"]
<1>1. call' = [call EXCEPT ![c] = new]
  BY DEF C!Claim, C!Goto
<1>2. new \in ACall
  BY <1>0 DEF ACall, C!Stages, Statuses, Ran, C!SomePlace
<1>3. /\ new.kind = call[c].kind
      /\ new.plan = call[c].plan
      /\ new.at = call[c].at
      /\ new.led = call[c].led
      /\ new.touched = call[c].touched
      /\ new.ran = call[c].ran
      /\ new.status = call[c].status
      /\ new.outcome = call[c].outcome
      /\ new.stage = "run"
  BY <1>0 DEF ACall
<1> HIDE DEF new
<1>4. call'[c] = new
  BY <1>1 DEF ClientInv, Typed
<1>5. Follows(c, new)
  BY <1>0, <1>1, <1>3 DEF Follows, Holds, CallInv, Proceeds, Does, C!Files
<1>6. Proceeds(c)'
  <2>1. call[c].plan # c => call'[call[c].plan] = call[call[c].plan]
    BY <1>0, <1>1 DEF ACall, ClientInv, Typed
  <2> QED
    BY <1>0, <1>3, <1>4, <2>1 DEF CallInv, Proceeds, C!Files
<1>7. Does(c)' /\ Reports(c)'
  BY <1>0, <1>3, <1>4 DEF CallInv, Proceeds, Does, Reports, Holds, Ran, C!Files
<1>8. Opens(c)'
  BY <1>0, <1>3, <1>4 DEF CallInv, Proceeds, Does, Opens, C!Files, C!Places, PathsWellFormed
<1> QED
  BY <1>2, <1>5, <1>6, <1>7, <1>8, Moves DEF CallInv

LEMMA RunKeeps ==
    ASSUME PathsWellFormed, ClientInv, NEW c \in Calls, C!Run(c)
    PROVE  ClientInv'
<1>0. /\ call[c] \in ACall /\ CallInv(c) /\ call[c].stage = "run"
      /\ UNCHANGED <<named, ends, moves, decision, result>>
      /\ content \in [C!Places -> Nat] /\ content' \in [C!Places -> Nat]
      /\ claimed' = claimed
  BY DEF C!Run, C!world, C!daemon, ClientInv, Typed, WorldTyped, C!Verifying
<1>a. PICK status \in Ran :
         call' = [call EXCEPT ![c].stage = "report", ![c].status = status, ![c].ran = 1]
  BY DEF C!Run, Ran
<1> DEFINE new == [call[c] EXCEPT !.stage = "report", !.status = status, !.ran = 1]
<1>1. call' = [call EXCEPT ![c] = new]
  BY <1>a
<1>2. new \in ACall
  BY <1>0, <1>a DEF ACall, C!Stages, Statuses, Ran, C!SomePlace
<1>3. /\ new.kind = call[c].kind
      /\ new.plan = call[c].plan
      /\ new.at = call[c].at
      /\ new.led = call[c].led
      /\ new.touched = call[c].touched
      /\ new.outcome = call[c].outcome
      /\ new.stage = "report"
      /\ new.status = status
      /\ new.ran = 1
  BY <1>0 DEF ACall
<1> HIDE DEF new
<1>4. call'[c] = new
  BY <1>1 DEF ClientInv, Typed
<1>5. Follows(c, new)
  BY <1>0, <1>1, <1>3, <1>a DEF Follows, Holds, CallInv, Proceeds, Does, C!Files
<1>6. Proceeds(c)'
  <2>1. call[c].plan # c => call'[call[c].plan] = call[call[c].plan]
    BY <1>0, <1>1 DEF ACall, ClientInv, Typed
  <2> QED
    BY <1>0, <1>3, <1>4, <2>1, <1>a DEF CallInv, Proceeds, C!Files
<1>7. Does(c)' /\ Reports(c)'
  BY <1>0, <1>3, <1>4, <1>a DEF CallInv, Proceeds, Does, Reports, Holds, Ran, C!Files
<1>8. Opens(c)'
  BY <1>0, <1>3, <1>4, <1>a DEF CallInv, Proceeds, Does, Opens, C!Files, C!Places, PathsWellFormed
<1> QED
  BY <1>2, <1>5, <1>6, <1>7, <1>8, Moves DEF CallInv

LEMMA AgainKeeps ==
    ASSUME PathsWellFormed, ClientInv, NEW c \in Calls, C!Again(c)
    PROVE  ClientInv'
<1>0. /\ call[c] \in ACall /\ CallInv(c) /\ call[c].stage = "idle" /\ call[c].kind = "bash"
      /\ UNCHANGED <<named, ends, content, moves, decision, result, claimed>>
      /\ content \in [C!Places -> Nat]
  BY DEF C!Again, C!Kind, C!world, C!daemon, ClientInv, Typed, WorldTyped
<1>1. PICK d \in Calls \ {c} :
         /\ call[d].kind = "bash" /\ call[d].plan = d /\ decision[d] = "allow"
         /\ call' = [call EXCEPT ![c].stage = "claim", ![c].plan = d]
  BY DEF C!Again, C!Kind
<1> DEFINE new == [call[c] EXCEPT !.stage = "claim", !.plan = d]
<1>2. call' = [call EXCEPT ![c] = new]
  BY <1>1
<1>3. new \in ACall
  BY <1>0 DEF ACall, C!Stages
<1>4. /\ new.kind = "bash" /\ new.stage = "claim" /\ new.plan = d /\ new.ran = 0
      /\ new.status = "none" /\ new.outcome = "none" /\ new.touched = Nowhere
      /\ call[c].ran = 0
  BY <1>0 DEF ACall, CallInv, Proceeds, Does, Opens
<1> HIDE DEF new
<1>5. call'[c] = new /\ call'[d] = call[d]
  BY <1>1, <1>2 DEF ClientInv, Typed
<1>6. Follows(c, new)
  BY <1>0, <1>2, <1>4 DEF Follows, Holds
<1>7. Proceeds(c)'
  BY <1>0, <1>1, <1>4, <1>5 DEF Proceeds
<1>8. Does(c)' /\ Reports(c)'
  BY <1>4, <1>5 DEF Does, Holds, Reports, Ran
<1>9. Opens(c)'
  BY <1>4, <1>5 DEF Opens, C!Files, C!Places, PathsWellFormed
<1> QED
  BY <1>3, <1>6, <1>7, <1>8, <1>9, Moves DEF CallInv

LEMMA DecideKeeps ==
    ASSUME PathsWellFormed, ClientInv, NEW c \in Calls, C!Decide(c)
    PROVE  ClientInv'
<1>1. PICK d \in {"allow", "refuse"} : decision' = [decision EXCEPT ![c] = d]
  BY DEF C!Decide
<1>2. /\ UNCHANGED <<named, ends, content, moves, call, result, claimed>>
      /\ call[c].stage # "idle" /\ decision[c] = "none" /\ CallInv(c)
  BY DEF C!Decide, C!world, ClientInv
<1>3. /\ Typed' /\ \A b \in Calls : call[b].plan \in Calls
      /\ \A b \in Calls : decision[b] # "none" => decision'[b] = decision[b]
  BY <1>1, <1>2 DEF ClientInv, Typed, WorldTyped, ACall
<1>4. ASSUME NEW b \in Calls PROVE CallInv(b)' /\ Records(b)'
  <2>1. CallInv(b) /\ Records(b) /\ (call[b].stage = "idle" => decision'[b] = decision[b])
    BY <1>1, <1>2 DEF ClientInv, Typed
  <2>2. Proceeds(b)'
    BY <1>2, <1>3, <2>1 DEF CallInv, Proceeds
  <2>3. Does(b)' /\ Opens(b)'
    BY <1>2, <1>3, <2>1 DEF CallInv, Does, Opens, Holds
  <2>4. Reports(b)' /\ Records(b)'
    BY <1>2, <1>3, <2>1 DEF CallInv, Reports, Records
  <2> QED
    BY <2>2, <2>3, <2>4 DEF CallInv
<1>5. OneHolds'
  BY <1>2 DEF ClientInv, OneHolds
<1> QED
  BY <1>3, <1>4, <1>5 DEF ClientInv

(* What a report makes of the call, and perhaps of the record. *)
Told(c, new) ==
    /\ call' = [call EXCEPT ![c] = new]
    /\ UNCHANGED <<named, ends, content, moves, decision, claimed>>
    /\ new.kind = call[c].kind /\ new.plan = call[c].plan /\ new.ran = call[c].ran
    /\ new.touched = call[c].touched /\ new.led = call[c].led /\ new.at = call[c].at
    /\ call[c].stage = "report"
    /\ \/ new.stage = "done" /\ new.status = call[c].status
       \/ /\ new.stage = "report" /\ new.status = "failed" /\ call[c].status = "executed"
          /\ new.outcome = "none"
    /\ \/ result' = result
       \/ /\ result[call[c].plan] = "none"
          /\ result' = [result EXCEPT ![call[c].plan] = call[c].status]
    /\ new.outcome = "ok" => /\ call[c].status \in Ran
                             /\ result'[call[c].plan] = call[c].status

(* The record is the report's, whether or not the client hears of it. *)
LEMMA TellingKeeps ==
    ASSUME PathsWellFormed, ClientInv, NEW c \in Calls, NEW new \in ACall, Told(c, new)
    PROVE  ClientInv'
<1>0. /\ call[c] \in ACall /\ CallInv(c) /\ call[c].stage = "report"
      /\ call[c].status \in Statuses \ {"none"} /\ call[c].plan \in Calls
      /\ call[c].ran = 0 \/ call[c].ran = 1
  BY DEF Told, ClientInv, Typed, ACall, CallInv, Reports
<1>1. call'[c] = new /\ \A b \in Calls : b # c => call'[b] = call[b]
  BY DEF Told, ClientInv, Typed
<1>2. Typed'
  BY <1>0 DEF Told, ClientInv, Typed, WorldTyped
<1>3. ASSUME NEW b \in Calls PROVE CallInv(b)'
  <2>1. CASE b # c
    BY <1>0, <2>1, OthersStay DEF Told, ClientInv, Typed
  <2>2. CASE b = c
    <3>1. Proceeds(c)'
      <4>1. call[c].plan # c => call'[call[c].plan] = call[call[c].plan]
        BY <1>0, <1>1
      <4> QED
        BY <1>0, <1>1, <4>1 DEF Told, CallInv, Proceeds
    <3>2. Does(c)' /\ Opens(c)'
      BY <1>0, <1>1 DEF Told, CallInv, Does, Opens, Holds, Ran
    <3>3. Reports(c)'
      BY <1>0, <1>1 DEF Told, CallInv, Reports, Ran
    <3> QED
      BY <2>2, <3>1, <3>2, <3>3 DEF CallInv
  <2> QED
    BY <2>1, <2>2
<1>4. OneHolds'
  BY <1>1 DEF Told, ClientInv, OneHolds, Holds
<1>5. ASSUME NEW d \in Calls PROVE Records(d)'
  <2>1. /\ Records(d) /\ call'[d].kind = call[d].kind /\ decision' = decision
        /\ \A b \in Calls : call'[b].plan = call[b].plan /\ call'[b].ran = call[b].ran
        /\ call[d].stage = "done" => call'[d].stage = "done"
    BY <1>0, <1>1 DEF ClientInv, Told
  <2>2. CASE result'[d] = result[d]
    BY <2>1, <2>2 DEF Records
  <2>3. CASE d = call[c].plan /\ result[d] = "none" /\ result'[d] = call[c].status
    <3>1. CASE call[c].status \in Ran
      <4>1. call[c].ran = 1
        BY <1>0, <3>1 DEF CallInv, Reports
      <4> QED
        BY <2>1, <2>3, <3>1, <4>1 DEF Records, Ran
    <3>2. CASE call[c].status = "blocked"
      <4>1. /\ d = c /\ call[c].ran = 0 /\ call'[c].stage = "done"
            /\ call[c].kind = "bash" => decision[c] = "refuse"
        BY <1>0, <1>1, <2>3, <3>2 DEF CallInv, Reports, Told
      <4> QED
        BY <2>1, <2>3, <3>2, <4>1 DEF Records, Ran
    <3> QED
      BY <1>0, <3>1, <3>2 DEF Statuses
  <2>4. \/ result'[d] = result[d]
        \/ d = call[c].plan /\ result[d] = "none" /\ result'[d] = call[c].status
    <3>1. \/ result' = result
          \/ /\ result[call[c].plan] = "none"
             /\ result' = [result EXCEPT ![call[c].plan] = call[c].status]
      BY DEF Told
    <3>2. result \in [Calls -> Statuses]
      BY DEF ClientInv, Typed
    <3> QED
      BY <3>1, <3>2
  <2> QED
    BY <2>2, <2>3, <2>4
<1> QED
  BY <1>2, <1>3, <1>4, <1>5 DEF ClientInv

LEMMA ReportKeeps ==
    ASSUME PathsWellFormed, ClientInv, NEW c \in Calls, C!Reported(c) \/ C!NotReported(c)
    PROVE  ClientInv'
<1>0. /\ call[c] \in ACall /\ CallInv(c) /\ call[c].stage = "report"
      /\ call[c].status \in Statuses \ {"none"} /\ call[c].plan \in Calls
      /\ call[c].outcome = "none"
      /\ UNCHANGED <<named, ends, content, moves, decision, claimed>>
  BY DEF C!Reported, C!NotReported, C!world, ClientInv, Typed, ACall, CallInv, Reports, Proceeds
<1>1. \/ result' = result
      \/ /\ result[call[c].plan] = "none"
         /\ result' = [result EXCEPT ![call[c].plan] = call[c].status]
  BY DEF C!Reported, C!NotReported, C!Record, C!Recorded
<1>2. ASSUME NEW outcome \in {"ok", "refused", "error"}, C!Finish(c, outcome),
             outcome = "ok" => /\ call[c].status \in Ran
                               /\ result'[call[c].plan] = call[c].status
      PROVE  ClientInv'
  <2> DEFINE new == [call[c] EXCEPT !.stage = "done", !.outcome = outcome]
  <2>1. call' = [call EXCEPT ![c] = new]
    BY <1>2 DEF C!Finish
  <2>2. new \in ACall
    BY <1>0 DEF ACall, C!Stages
  <2>3. Told(c, new)
    BY <1>0, <1>1, <1>2, <2>1 DEF Told, ACall
  <2> QED
    BY <2>2, <2>3, TellingKeeps
<1>3. ASSUME call[c].status = "executed", C!ToReport(c, "failed") PROVE ClientInv'
  <2> DEFINE new == [call[c] EXCEPT !.stage = "report", !.status = "failed"]
  <2>1. call' = [call EXCEPT ![c] = new]
    BY <1>3 DEF C!ToReport
  <2>2. new \in ACall
    BY <1>0 DEF ACall, C!Stages, Statuses, Ran
  <2>3. Told(c, new)
    BY <1>0, <1>1, <1>3, <2>1 DEF Told, ACall
  <2> QED
    BY <2>2, <2>3, TellingKeeps
<1>4. ASSUME C!Reported(c) PROVE ClientInv'
  <2>1. /\ C!Outcome(c) \in {"ok", "refused", "error"}
        /\ C!Outcome(c) = "ok" => call[c].status \in Ran
    BY <1>0 DEF C!Outcome, Statuses
  <2>2. result'[call[c].plan] = call[c].status /\ C!Finish(c, C!Outcome(c))
    BY <1>0, <1>4 DEF C!Reported, C!Record, ClientInv, Typed
  <2> QED
    BY <1>2, <2>1, <2>2
<1>5. CASE C!Finish(c, "error")
  BY <1>2, <1>5
<1> QED
  BY <1>3, <1>4, <1>5 DEF C!NotReported

LEMMA OthersKeepClients ==
    ASSUME PathsWellFormed, ClientInv,
           C!Move \/ (\E p \in C!Places : C!Write(p)) \/ UNCHANGED C!vars
    PROVE  ClientInv'
<1>1. UNCHANGED <<call, decision, result, claimed>>
  BY DEF C!Move, C!Write, C!vars, C!daemon
<1>2. WorldTyped'
  <2>1. CASE C!Move
    BY <2>1 DEF C!Move, C!daemon, ClientInv, Typed, WorldTyped, PathsWellFormed
  <2>2. CASE \E p \in C!Places : C!Write(p)
    BY <2>2 DEF C!Write, C!daemon, ClientInv, Typed, WorldTyped, PathsWellFormed
  <2>3. CASE UNCHANGED C!vars
    BY <2>3 DEF C!vars, ClientInv, Typed, WorldTyped
  <2> QED
    BY <2>1, <2>2, <2>3
<1>3. Typed' /\ OneHolds'
  BY <1>1, <1>2 DEF ClientInv, Typed, OneHolds
<1>4. \A c \in Calls : CallInv(c)' /\ Records(c)'
  BY <1>1 DEF ClientInv, CallInv, Proceeds, Does, Opens, Reports, Records
<1> QED
  BY <1>3, <1>4 DEF ClientInv

(* The invariant of the client, and with it the types of its state. *)
THEOREM ClientInvariant == ASSUME PathsWellFormed PROVE C!Spec => []ClientInv
<1>1. C!Init => ClientInv
  BY InitClient
<1>2. ClientInv /\ [C!Next]_(C!vars) => ClientInv'
  <2> SUFFICES ASSUME ClientInv, [C!Next]_(C!vars) PROVE ClientInv'
    OBVIOUS
  <2>1. ASSUME NEW c \in Calls, C!Ask(c) PROVE ClientInv'
    <3>1. CASE call[c].kind \in C!Files /\ ~C!WithinWorkspace(c)
      BY <2>1, <3>1, Ends DEF C!Ask, C!Kind, C!world, C!daemon
    <3> QED
      BY <2>1, <3>1, AsksKeeps, AsksOfFilesKeeps
  <2>2. ASSUME NEW c \in Calls, C!Answered(c) \/ C!NotAnswered(c) PROVE ClientInv'
    <3>1. CASE C!NotAnswered(c)
      BY <3>1, Ends DEF C!NotAnswered, C!world, C!daemon
    <3>2. CASE C!Answered(c) /\ decision[c] # "allow"
      <4>1. decision[c] = "refuse"
        BY <3>2 DEF C!Answered, ClientInv, Typed
      <4> QED
        BY <3>2, <4>1, BlockedKeeps DEF C!Answered
    <3> QED
      BY <2>2, <3>1, <3>2, AnsweredKeeps
  <2>3. ASSUME NEW c \in Calls,
               C!Verify(c) \/ C!List(c) \/ C!Moved(c) \/ C!Refuse(c) \/ C!Touch(c) \/ C!TouchFails(c)
        PROVE  ClientInv'
    <3>1. CASE C!Moved(c)
      BY <3>1, BlockedKeeps DEF C!Moved, C!Verifying, C!ReportsMove, C!Kind
    <3>2. CASE C!Refuse(c)
      BY <3>2, Ends DEF C!Refuse, C!Verifying, C!world, C!daemon
    <3>3. CASE C!TouchFails(c)
      BY <3>3, Ends DEF C!TouchFails, C!world, C!daemon
    <3> QED
      BY <2>3, <3>1, <3>2, <3>3, VerifyKeeps, ListKeeps, TouchKeeps
  <2>4. ASSUME NEW c \in Calls,
               C!Claim(c) \/ C!ClaimFails(c) \/ C!Run(c) \/ C!RunFails(c) \/ C!Again(c)
        PROVE  ClientInv'
    <3>1. CASE C!Claim(c) /\ call[c].plan \in claimed
      BY <3>1, Ends DEF C!Claim, C!world, C!daemon
    <3>2. CASE C!ClaimFails(c)
      BY <3>2, Ends DEF C!ClaimFails, C!world, C!daemon
    <3>3. CASE C!RunFails(c)
      BY <3>3, Ends DEF C!RunFails, C!world, C!daemon
    <3> QED
      BY <2>4, <3>1, <3>2, <3>3, ClaimKeeps, RunKeeps, AgainKeeps
  <2>5. ASSUME NEW c \in Calls, C!Decide(c) \/ C!Reported(c) \/ C!NotReported(c) PROVE ClientInv'
    BY <2>5, DecideKeeps, ReportKeeps
  <2> QED
    BY <2>1, <2>2, <2>3, <2>4, <2>5, OthersKeepClients DEF C!Next
<1> QED
  BY <1>1, <1>2, PTL DEF C!Spec

(* Every variable of the client and of the control plane keeps its type. *)
THEOREM ClientTyped == ASSUME PathsWellFormed PROVE C!Spec => []C!ClientTypeOK
<1>1. ClientInv => C!ClientTypeOK
  BY DEF ClientInv, Typed, WorldTyped, ACall, Statuses, Ran, C!ClientTypeOK
<1> QED
  BY <1>1, ClientInvariant, PTL

(* wrapTool, the guarded tools and the executor: what an agent is told of  *)
(* a call and what is recorded of its plan is what was done; it was done   *)
(* once at most, on an allow, by whichever execution claimed the plan; and *)
(* a file outside the workspace was opened only where a link came to lie   *)
(* between check and opening, or where what is written was one already.    *)
THEOREM AgentsAreToldTruth == ASSUME PathsWellFormed PROVE C!Spec => []C!ToldAsRecorded
<1>1. ClientInv => C!ToldAsRecorded
  <2> SUFFICES ASSUME ClientInv, NEW c \in Calls
               PROVE  /\ call[c].outcome = "ok" => /\ call[c].ran = 1
                                                   /\ C!Recorded(c) = call[c].status
                      /\ call[c].ran = 1 => /\ decision[call[c].plan] = "allow"
                                            /\ C!Recorded(c) # "blocked"
                      /\ result[c] \in Ran =>
                            \E d \in Calls : call[d].plan = c /\ call[d].ran = 1
                      /\ call[c].ran = 1 =>
                            \A d \in Calls \ {c} :
                                call[d].plan = call[c].plan => call[d].ran = 0
                      /\ call[c].touched \in Outside /\ call[c].touched = call[c].led =>
                            C!Kind(c) = "write" /\ call[c].led # call[c].at
    BY DEF C!ToldAsRecorded, Ran
  <2>1. CallInv(c) /\ Records(c) /\ call[c].plan \in Calls /\ call[c] \in ACall
    BY DEF ClientInv, Typed, ACall
  <2>2. call[c].outcome = "ok" => call[c].ran = 1 /\ C!Recorded(c) = call[c].status
    BY <2>1 DEF CallInv, Reports, C!Recorded
  <2>3. ASSUME call[c].ran = 1
        PROVE  decision[call[c].plan] = "allow" /\ C!Recorded(c) # "blocked"
    <3>1. decision[call[c].plan] = "allow" /\ Records(call[c].plan)
      BY <2>1, <2>3 DEF CallInv, Does, ClientInv
    <3>2. CASE call[call[c].plan].kind = "bash"
      BY <3>1, <3>2 DEF Records, C!Recorded
    <3>3. CASE call[call[c].plan].kind # "bash"
      <4>1. call[c].plan = c
        BY <2>1, <3>3 DEF CallInv, Proceeds
      <4> QED
        BY <2>3, <3>1, <3>3, <4>1 DEF Records, C!Recorded
    <3> QED
      BY <3>1, <3>2, <3>3
  <2>4. ASSUME call[c].ran = 1, NEW d \in Calls \ {c}, call[d].plan = call[c].plan
        PROVE  call[d].ran = 0
    <3>1. call[d].ran = 0 \/ call[d].ran = 1
      BY DEF ClientInv, Typed, ACall
    <3> QED
      BY <2>4, <3>1 DEF ClientInv, OneHolds, Holds
  <2> QED
    BY <2>1, <2>2, <2>3, <2>4 DEF CallInv, Opens, Records, C!Kind
<1> QED
  BY <1>1, ClientInvariant, PTL
=============================================================================
