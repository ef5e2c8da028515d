----------------------- MODULE ReleaseAdmissionProofs -----------------------
(***************************************************************************)
(* Proofs about ReleaseAdmission for any admissions, stamps, cutovers,     *)
(* daemons, sessions, turns and number of paper mutations.                 *)
(*                                                                         *)
(* The authorities only ever compare epochs, statuses and singletons, so   *)
(* the argument is: there is one of each (Singular); a stamp carries the   *)
(* epoch of an admission that was accepted and stays so, and whatever was  *)
(* opened before the last paper mutation has an older epoch (Fenced); a    *)
(* turn past its check has a session whose binding never changes           *)
(* (TurnsPlaced).                                                          *)
(***************************************************************************)
EXTENDS ReleaseAdmission, FiniteSetTheorems, TLAPS

AdmType == [status : {"none", "open", "accepted", "revoked", "expired"},
            elapsed : BOOLEAN, epoch : 0..MaxEpoch]
StampType == [status : {"none", "active", "closed"},
              adm : Admissions \union {NoAdmission}, epoch : 0..MaxEpoch]
CutoverType == [status : {"none", "open", "closed"}, stamp : Stamps]
DaemonType == [row : {"none", "active", "stopped", "stale"},
               pc : {"off", "built", "idle", "cleared", "working", "ended"},
               trust : BOOLEAN]
TurnType == [status : {"none", "checked", "queued", "leased", "delivered", "ended"},
             session : Sessions \union {NoSession},
             scope : Admissions \union {NoAdmission},
             by : Generations \union {NoGeneration}]

\* TypeOK in parts, without the counts.
AuthorityTyped ==
  /\ adm \in [Admissions -> AdmType]
  /\ evidence \in [Admissions -> 0..MaxEpoch] /\ touched \subseteq Admissions
  /\ epoch \in 1..MaxEpoch /\ frozen \in BOOLEAN
  /\ stamp \in [Stamps -> StampType]
  /\ cutover \in [Cutovers -> CutoverType]
RuntimeTyped ==
  /\ daemon \in [Generations -> DaemonType]
  /\ holder \in Generations \union {NoGeneration}
  /\ api_trust \in BOOLEAN
ClientTyped ==
  /\ session \in [Sessions -> Admissions \union {NoAdmission, NoSession}]
  /\ turn \in [Turns -> TurnType]

\* At most one open admission, active stamp and open cutover.
Singular ==
  /\ \A a, b \in Admissions : adm[a].status = "open" /\ adm[b].status = "open" => a = b
  /\ \A x, y \in Stamps : stamp[x].status = "active" /\ stamp[y].status = "active" => x = y
  /\ \A x, y \in Cutovers : cutover[x].status = "open" /\ cutover[y].status = "open" => x = y

\* At most one active liveness row.
OneDaemon == \A g, h \in Generations :
               daemon[g].row = "active" /\ daemon[h].row = "active" => g = h

\* Epochs grow, a paper mutation leaves every admission behind, and an active
\* stamp is that of an accepted admission with the stamp's epoch.
Fenced ==
  /\ \A a \in Admissions : adm[a].epoch <= epoch
  /\ \A a \in touched : adm[a].status # "none" /\ adm[a].epoch < epoch
  /\ \A x \in Stamps : stamp[x].status = "active" =>
       /\ stamp[x].adm \in Admissions
       /\ adm[stamp[x].adm].status = "accepted"
       /\ stamp[x].epoch = adm[stamp[x].adm].epoch

AuthorityInv == AuthorityTyped /\ Singular /\ Fenced /\ OneAdmission

\* A turn past its check has a registered session.
TurnsPlaced ==
  \A c \in Turns : turn[c].status # "none" =>
    turn[c].session \in Sessions /\ session[turn[c].session] # NoSession

\* The inductive invariant.
AdmissionInv == /\ AuthorityInv
                /\ RuntimeTyped /\ OneDaemon
                /\ ClientTyped /\ TurnsPlaced /\ WindowClean

\* A set with at most one element counts at most one.
LEMMA CountLone ==
  ASSUME NEW S, \A x, y \in S : x = y
  PROVE  Cardinality(S) <= 1
<1>1. CASE S = {}
  BY <1>1, FS_EmptySet
<1>2. CASE S # {}
  <2>1. PICK x \in S : TRUE
    BY <1>2
  <2>2. S = {x}
    BY <2>1
  <2> QED BY <2>2, FS_Singleton
<1> QED BY <1>1, <1>2

\* The invariant contains the state properties that the runs check.
LEMMA AdmissionInvImplies == AdmissionInv => TypeOK /\ OneAdmission /\ WindowClean
<1> SUFFICES ASSUME AdmissionInv PROVE TypeOK
  BY DEF AdmissionInv, AuthorityInv
<1>1. Cardinality({a \in Admissions : adm[a].status = "open"}) <= 1
  BY CountLone DEF AdmissionInv, AuthorityInv, Singular
<1>2. Cardinality({x \in Stamps : stamp[x].status = "active"}) <= 1
  BY CountLone DEF AdmissionInv, AuthorityInv, Singular
<1>3. Cardinality({x \in Cutovers : cutover[x].status = "open"}) <= 1
  BY CountLone DEF AdmissionInv, AuthorityInv, Singular
<1>4. Cardinality({g \in Generations : daemon[g].row = "active"}) <= 1
  BY CountLone DEF AdmissionInv, OneDaemon
<1> QED BY <1>1, <1>2, <1>3, <1>4
    DEF AdmissionInv, AuthorityInv, AuthorityTyped, RuntimeTyped, ClientTyped, TypeOK,
        AdmType, StampType, CutoverType, DaemonType, TurnType

\* Nothing is open, stamped, running or asked for at first.
LEMMA AdmissionInvInit == Init => AdmissionInv
<1> SUFFICES ASSUME Init PROVE AdmissionInv
  OBVIOUS
<1> USE MaxEpochAssumption, NamesAssumption DEF Init
<1>1. (CHOOSE y \in Stamps : TRUE) \in Stamps
  OBVIOUS
<1>2. AuthorityTyped
  BY <1>1 DEF AuthorityTyped, AdmType, StampType, CutoverType
<1>3. Singular /\ Fenced /\ OneAdmission
  BY DEF Singular, Fenced, OneAdmission
<1>4. RuntimeTyped /\ OneDaemon
  BY DEF RuntimeTyped, OneDaemon, DaemonType
<1>5. ClientTyped /\ TurnsPlaced /\ WindowClean
  BY DEF ClientTyped, TurnsPlaced, WindowClean, TurnType, Nonterminal
<1> QED BY <1>2, <1>3, <1>4, <1>5 DEF AdmissionInv, AuthorityInv

-----------------------------------------------------------------------------
(* The authorities.                                                        *)

\* What writing the expiry of an elapsed window changes.
LEMMA ExpireFields ==
  ASSUME AuthorityTyped
  PROVE  /\ _expire_if_needed \in [Admissions -> AdmType]
         /\ \A b \in Admissions :
              /\ _expire_if_needed[b].epoch = adm[b].epoch
              /\ _expire_if_needed[b].elapsed = adm[b].elapsed
              /\ _expire_if_needed[b].status = IF adm[b].status = "open" /\ adm[b].elapsed
                                               THEN "expired" ELSE adm[b].status
<1>1. ASSUME NEW b \in Admissions
      PROVE  /\ _expire_if_needed[b] \in AdmType
             /\ _expire_if_needed[b].epoch = adm[b].epoch
             /\ _expire_if_needed[b].elapsed = adm[b].elapsed
             /\ _expire_if_needed[b].status = IF adm[b].status = "open" /\ adm[b].elapsed
                                              THEN "expired" ELSE adm[b].status
  <2>1. adm[b] \in AdmType
    BY DEF AuthorityTyped
  <2> QED BY <2>1 DEF _expire_if_needed, AdmType
<1> QED BY <1>1 DEF _expire_if_needed

\* An admission may end, expire or elapse, and is opened only into a world with
\* no other open admission and no open cutover.
AdmissionMove(b) ==
  /\ adm'[b].epoch = adm[b].epoch \/ (adm[b].status = "none" /\ adm'[b].epoch = epoch)
  /\ adm[b].status = "none" \/ adm'[b].epoch = adm[b].epoch
  /\ adm[b].status = "accepted" => adm'[b].status = "accepted"
  /\ adm[b].status # "none" => adm'[b].status # "none"

\* What such moves of the admissions keep of the authorities' invariant, with
\* the rest of the authorities as it was.
LEMMA AdmissionsMove ==
  ASSUME AuthorityInv, UNCHANGED <<touched, epoch, frozen, stamp, cutover>>,
         adm' \in [Admissions -> AdmType],
         evidence' \in [Admissions -> 0..MaxEpoch],
         \A b \in Admissions : AdmissionMove(b),
         \A b, d \in Admissions : adm'[b].status = "open" /\ adm'[d].status = "open" => b = d,
         \A b \in Admissions : Open(b)' => Open(b) \/ \A x \in Cutovers : cutover[x].status # "open"
  PROVE  AuthorityInv'
<1>1. AuthorityTyped'
  BY DEF AuthorityInv, AuthorityTyped
<1>2. Singular'
  BY DEF AuthorityInv, Singular
<1>3. Fenced'
  BY DEF AuthorityInv, AuthorityTyped, Fenced, AdmissionMove, AdmType
<1>4. OneAdmission'
  <2> SUFFICES ASSUME NEW x \in Cutovers, cutover[x].status = "open"
               PROVE  /\ \A a \in Admissions : ~Open(a)'
                      /\ stamp[cutover[x].stamp].status = "active"
                      /\ adm'[stamp[cutover[x].stamp].adm].status = "accepted"
    BY DEF OneAdmission
  <2>1. /\ \A a \in Admissions : ~Open(a)
        /\ stamp[cutover[x].stamp].status = "active"
        /\ adm[stamp[cutover[x].stamp].adm].status = "accepted"
    BY DEF AuthorityInv, OneAdmission
  <2>2. stamp[cutover[x].stamp].adm \in Admissions
    BY <2>1 DEF AuthorityInv, AuthorityTyped, CutoverType, Fenced
  <2> QED BY <2>1, <2>2 DEF AdmissionMove
<1> QED BY <1>1, <1>2, <1>3, <1>4 DEF AuthorityInv

\* Opening an admission.
LEMMA OpenKeeps ==
  ASSUME AuthorityInv, NEW a \in Admissions, open(a)
  PROVE  /\ AuthorityInv'
         /\ \A b \in Admissions \ {a} : ~Open(b)'
<1> DEFINE new == [status |-> "open", elapsed |-> FALSE, epoch |-> epoch]
           e == _expire_if_needed
<1>1. AuthorityTyped /\ epoch \in 0..MaxEpoch
  BY MaxEpochAssumption DEF AuthorityInv, AuthorityTyped
<1>2. /\ e \in [Admissions -> AdmType]
      /\ \A b \in Admissions : /\ e[b].epoch = adm[b].epoch
                               /\ e[b].elapsed = adm[b].elapsed
                               /\ e[b].status = IF adm[b].status = "open" /\ adm[b].elapsed
                                                THEN "expired" ELSE adm[b].status
  BY <1>1, ExpireFields
<1>3. adm' = [e EXCEPT ![a] = new]
  BY DEF open
<1>4. new \in AdmType /\ new.status = "open" /\ new.epoch = epoch
  BY <1>1 DEF AdmType
<1> HIDE DEF new, e
<1>5. /\ adm' \in [Admissions -> AdmType] /\ adm'[a] = new
      /\ \A b \in Admissions \ {a} : adm'[b] = e[b]
  BY <1>2, <1>3, <1>4
<1>6. \A b \in Admissions \ {a} : adm'[b].status # "open"
  BY <1>2, <1>5 DEF open, Open
<1>7. \A x \in Cutovers : cutover[x].status # "open"
  BY DEF open, AuthorityInv, OneAdmission
<1>8. \A b \in Admissions : AdmissionMove(b)
  BY <1>2, <1>4, <1>5 DEF AdmissionMove, open
<1>9. evidence' \in [Admissions -> 0..MaxEpoch]
  BY <1>1 DEF open, AuthorityTyped
<1>10. UNCHANGED <<touched, epoch, frozen, stamp, cutover>>
  BY DEF open
<1>11. AuthorityInv'
  BY <1>5, <1>6, <1>7, <1>8, <1>9, <1>10, AdmissionsMove
<1> QED BY <1>6, <1>11 DEF Open

\* Whatever else happens to an admission opens none.
LEMMA OtherMovesKeep ==
  ASSUME AuthorityInv, NEW a \in Admissions,
         Replay(a) \/ Elapse(a) \/ RecordEvidence(a) \/ accept(a) \/ revoke(a)
  PROVE  /\ AuthorityInv'
         /\ \A b \in Admissions : Open(b)' => Open(b)
<1>1. AuthorityTyped
  BY DEF AuthorityInv
<1>2. /\ UNCHANGED <<touched, epoch, frozen, stamp, cutover>>
      /\ evidence' \in [Admissions -> 0..MaxEpoch]
  BY <1>1, MaxEpochAssumption
     DEF Replay, Elapse, RecordEvidence, accept, revoke, AuthorityTyped
<1>3. /\ adm' \in [Admissions -> AdmType]
      /\ \A b \in Admissions :
           /\ AdmissionMove(b)
           /\ adm'[b].status = "open" => adm[b].status = "open"
           /\ Open(b)' => Open(b)
  <2> DEFINE e == _expire_if_needed
  <2>1. /\ e \in [Admissions -> AdmType]
        /\ \A b \in Admissions : /\ e[b].epoch = adm[b].epoch
                                 /\ e[b].elapsed = adm[b].elapsed
                                 /\ e[b].status = IF adm[b].status = "open" /\ adm[b].elapsed
                                                  THEN "expired" ELSE adm[b].status
    BY <1>1, ExpireFields
  <2>2. CASE Replay(a)
    BY <2>1, <2>2 DEF Replay, AdmissionMove, Open
  <2>3. CASE Elapse(a)
    BY <1>1, <2>3 DEF Elapse, AuthorityTyped, AdmType, AdmissionMove, Open
  <2>4. CASE RecordEvidence(a)
    BY <1>1, <2>4 DEF RecordEvidence, AuthorityTyped, AdmissionMove, Open
  <2>5. CASE accept(a)
    <3>1. adm' = [e EXCEPT ![a].status = "accepted"]
      BY <2>5 DEF accept
    <3>2. adm[a].status = "open"
      BY <2>5 DEF accept, Open
    <3> HIDE DEF e
    <3>3. /\ adm' \in [Admissions -> AdmType]
          /\ adm'[a].epoch = e[a].epoch /\ adm'[a].status = "accepted"
          /\ \A b \in Admissions \ {a} : adm'[b] = e[b]
      BY <2>1, <3>1 DEF AdmType
    <3> QED BY <2>1, <3>2, <3>3 DEF AdmissionMove, Open
  <2>6. CASE revoke(a)
    BY <1>1, <2>6 DEF revoke, AuthorityTyped, AdmType, AdmissionMove, Open
  <2> QED BY <2>2, <2>3, <2>4, <2>5, <2>6
<1>4. \A b, d \in Admissions : adm'[b].status = "open" /\ adm'[d].status = "open" => b = d
  BY <1>3 DEF AuthorityInv, Singular
<1> QED BY <1>2, <1>3, <1>4, AdmissionsMove

\* A paper mutation leaves every admission behind.
LEMMA BumpKeeps ==
  ASSUME AuthorityInv, NEW f \in BOOLEAN, bump_agent_v02_paper_authority_epoch(f)
  PROVE  AuthorityInv' /\ UNCHANGED adm
<1> USE DEF bump_agent_v02_paper_authority_epoch
<1>1. AuthorityTyped'
  BY MaxEpochAssumption DEF AuthorityInv, AuthorityTyped
<1>2. Singular' /\ OneAdmission'
  BY DEF AuthorityInv, Singular, OneAdmission, Open
<1>3. Fenced'
  BY MaxEpochAssumption DEF AuthorityInv, AuthorityTyped, Fenced, AdmType
<1> QED BY <1>1, <1>2, <1>3 DEF AuthorityInv

\* Stamps and cutovers.
LEMMA ReleaseKeeps ==
  ASSUME AuthorityInv,
         \/ \E x \in Stamps, a \in Admissions : create_release_stamp(x, a)
         \/ \E x \in Stamps : close_release_stamp(x)
         \/ \E x \in Cutovers : close_public_cutover(x)
         \/ \E x \in Cutovers, y \in Stamps : create_public_cutover(x, y)
  PROVE  AuthorityInv' /\ UNCHANGED adm
<1>1. AuthorityTyped /\ epoch \in 0..MaxEpoch
  BY MaxEpochAssumption DEF AuthorityInv, AuthorityTyped
<1>2. ASSUME NEW x \in Stamps, NEW a \in Admissions, create_release_stamp(x, a)
      PROVE  AuthorityInv' /\ UNCHANGED adm
  <2> DEFINE new == [status |-> "active", adm |-> a, epoch |-> epoch]
  <2>1. /\ new \in StampType /\ new.status = "active" /\ new.adm = a /\ new.epoch = epoch
    BY <1>1 DEF StampType
  <2>2. stamp' = [stamp EXCEPT ![x] = new]
    BY <1>2 DEF create_release_stamp
  <2> HIDE DEF new
  <2>3. /\ stamp' \in [Stamps -> StampType] /\ stamp'[x] = new
        /\ \A y \in Stamps \ {x} : stamp'[y] = stamp[y] /\ stamp'[y].status # "active"
    BY <1>1, <1>2, <2>1, <2>2 DEF create_release_stamp, AuthorityTyped
  <2>4. \A y \in Cutovers : cutover[y].status # "open"
    BY <1>1, <1>2 DEF create_release_stamp, AuthorityInv, AuthorityTyped, CutoverType,
                      OneAdmission
  <2>5. AuthorityTyped'
    BY <1>1, <1>2, <2>3 DEF AuthorityTyped, create_release_stamp
  <2>6. Singular'
    BY <1>2, <2>3 DEF AuthorityInv, Singular, create_release_stamp
  <2>7. Fenced'
    BY <1>2, <2>1, <2>3 DEF AuthorityInv, Fenced, create_release_stamp
  <2>8. OneAdmission'
    BY <1>2, <2>4 DEF OneAdmission, create_release_stamp
  <2> QED BY <1>2, <2>5, <2>6, <2>7, <2>8 DEF AuthorityInv, create_release_stamp
<1>3. ASSUME NEW x \in Stamps, close_release_stamp(x)
      PROVE  AuthorityInv' /\ UNCHANGED adm
  <2>1. /\ stamp' \in [Stamps -> StampType] /\ stamp'[x].status = "closed"
        /\ \A y \in Stamps \ {x} : stamp'[y] = stamp[y]
    BY <1>1, <1>3 DEF close_release_stamp, AuthorityTyped, StampType
  <2>2. UNCHANGED <<adm, evidence, touched, epoch, frozen, cutover>>
    BY <1>3 DEF close_release_stamp
  <2>3. \A y \in Cutovers : cutover[y].status = "open" => cutover[y].stamp \in Stamps \ {x}
    BY <1>1, <1>3 DEF close_release_stamp, AuthorityTyped, CutoverType
  <2>4. AuthorityTyped' /\ Singular' /\ Fenced'
    BY <2>1, <2>2 DEF AuthorityInv, AuthorityTyped, Singular, Fenced
  <2>5. OneAdmission'
    BY <2>1, <2>2, <2>3 DEF AuthorityInv, OneAdmission, Open
  <2> QED BY <2>2, <2>4, <2>5 DEF AuthorityInv
<1>4. ASSUME NEW x \in Cutovers, close_public_cutover(x)
      PROVE  AuthorityInv' /\ UNCHANGED adm
  <2>1. /\ cutover' \in [Cutovers -> CutoverType] /\ cutover'[x].status = "closed"
        /\ \A y \in Cutovers \ {x} : cutover'[y] = cutover[y]
    BY <1>1, <1>4 DEF close_public_cutover, AuthorityTyped, CutoverType
  <2>2. UNCHANGED <<adm, evidence, touched, epoch, frozen, stamp>>
    BY <1>4 DEF close_public_cutover
  <2>3. AuthorityTyped' /\ Singular' /\ Fenced' /\ OneAdmission'
    BY <2>1, <2>2 DEF AuthorityInv, AuthorityTyped, Singular, Fenced, OneAdmission, Open
  <2> QED BY <2>2, <2>3 DEF AuthorityInv
<1>5. ASSUME NEW x \in Cutovers, NEW y \in Stamps, create_public_cutover(x, y)
      PROVE  AuthorityInv' /\ UNCHANGED adm
  <2>1. /\ cutover' \in [Cutovers -> CutoverType]
        /\ cutover'[x].status = "open" /\ cutover'[x].stamp = y
        /\ \A z \in Cutovers \ {x} : cutover'[z] = cutover[z] /\ cutover'[z].status # "open"
    BY <1>1, <1>5 DEF create_public_cutover, AuthorityTyped, CutoverType
  <2>2. UNCHANGED <<adm, evidence, touched, epoch, frozen, stamp>>
    BY <1>5 DEF create_public_cutover
  <2>3. AuthorityTyped' /\ Singular' /\ Fenced'
    BY <2>1, <2>2 DEF AuthorityInv, AuthorityTyped, Singular, Fenced
  <2>4. stamp[y].status = "active" /\ \A b \in Admissions : ~Open(b)
    BY <1>5 DEF create_public_cutover
  <2>5. adm[stamp[y].adm].status = "accepted"
    BY <2>4 DEF AuthorityInv, Fenced
  <2>6. OneAdmission'
    BY <2>1, <2>2, <2>4, <2>5 DEF OneAdmission, Open
  <2> QED BY <2>2, <2>3, <2>6 DEF AuthorityInv
<1> QED BY <1>2, <1>3, <1>4, <1>5

\* What an operator does leaves runtime, sessions and turns alone, and a
\* window opens only over turns that are over.
LEMMA AuthoritiesKeep ==
  ASSUME AdmissionInv, Authorities
  PROVE  AdmissionInv'
<1>1. UNCHANGED <<daemon, holder, api_trust, session, turn>>
  BY DEF Authorities, open, Replay, Elapse, RecordEvidence, accept, revoke,
         create_release_stamp, close_release_stamp, close_public_cutover,
         create_public_cutover, bump_agent_v02_paper_authority_epoch
<1>2. AuthorityInv
  BY DEF AdmissionInv
<1>3. ASSUME AuthorityInv',
             \/ \A b \in Admissions : Open(b)' => Open(b)
             \/ \A c \in Turns : ~Nonterminal(c)
      PROVE  AdmissionInv'
  <2>1. WindowClean'
    BY <1>1, <1>3 DEF AdmissionInv, WindowClean, Nonterminal
  <2> QED BY <1>1, <1>3, <2>1
      DEF AdmissionInv, RuntimeTyped, OneDaemon, ClientTyped, TurnsPlaced
<1>4. ASSUME UNCHANGED adm PROVE \A b \in Admissions : Open(b)' => Open(b)
  BY <1>4 DEF Open
<1>5. ASSUME NEW a \in Admissions, open(a) PROVE AdmissionInv'
  BY <1>2, <1>3, <1>5, OpenKeeps DEF open
<1>6. ASSUME NEW a \in Admissions,
             Replay(a) \/ Elapse(a) \/ RecordEvidence(a) \/ accept(a) \/ revoke(a)
      PROVE  AdmissionInv'
  BY <1>2, <1>3, <1>6, OtherMovesKeep
<1>7. ASSUME NEW f \in BOOLEAN, bump_agent_v02_paper_authority_epoch(f)
      PROVE  AdmissionInv'
  BY <1>2, <1>3, <1>4, <1>7, BumpKeeps
<1>8. CASE \/ \E x \in Stamps, a \in Admissions : create_release_stamp(x, a)
           \/ \E x \in Stamps : close_release_stamp(x)
           \/ \E x \in Cutovers : close_public_cutover(x)
           \/ \E x \in Cutovers, y \in Stamps : create_public_cutover(x, y)
  BY <1>2, <1>3, <1>4, <1>8, ReleaseKeeps
<1> QED BY <1>5, <1>6, <1>7, <1>8 DEF Authorities

-----------------------------------------------------------------------------
(* Daemons, sessions and turns.                                            *)

\* What keeps the invariant while the authorities stand still: good daemons,
\* sessions bound once, turns in registered sessions, and no turn that comes
\* alive outside an open window.
LEMMA ClientStep ==
  ASSUME AdmissionInv, UNCHANGED authority, RuntimeTyped', OneDaemon', ClientTyped',
         \A s \in Sessions : session[s] # NoSession => session'[s] = session[s],
         \A c \in Turns : turn'[c].status # "none" =>
           \/ turn[c].status # "none" /\ turn'[c].session = turn[c].session
           \/ turn'[c].session \in Sessions /\ session[turn'[c].session] # NoSession,
         \A c \in Turns : Nonterminal(c)' =>
           \/ Nonterminal(c)
           \/ /\ turn[c].status # "none"
              /\ \A a \in Admissions : Open(a) => session[turn[c].session] = a,
         \A c \in Turns : Nonterminal(c)' => turn'[c].session = turn[c].session
  PROVE  AdmissionInv'
<1>1. AuthorityInv' /\ \A a \in Admissions : Open(a)' <=> Open(a)
  BY DEF authority, AdmissionInv, AuthorityInv, AuthorityTyped, Singular, Fenced,
         OneAdmission, Open
<1>2. TurnsPlaced'
  BY DEF AdmissionInv, TurnsPlaced
<1>3. WindowClean'
  <2> SUFFICES ASSUME NEW a \in Admissions, Open(a), NEW c \in Turns, Nonterminal(c)'
               PROVE  session'[turn'[c].session] = a
    BY <1>1 DEF WindowClean
  <2>1. session[turn[c].session] = a /\ turn[c].status # "none"
    BY DEF AdmissionInv, WindowClean, Nonterminal
  <2>2. turn[c].session \in Sessions /\ session[turn[c].session] # NoSession
    BY <2>1 DEF AdmissionInv, TurnsPlaced
  <2> QED BY <2>1, <2>2
<1> QED BY <1>1, <1>2, <1>3 DEF AdmissionInv

\* A daemon's row becomes active only when the others no longer are.
LEMMA ConnectorsKeep ==
  ASSUME AdmissionInv, Connectors
  PROVE  AdmissionInv'
<1>1. /\ RuntimeTyped /\ OneDaemon /\ ClientTyped
      /\ daemon \in [Generations -> DaemonType] /\ turn \in [Turns -> TurnType]
  BY DEF AdmissionInv, RuntimeTyped, ClientTyped
<1>2. UNCHANGED <<authority, api_trust, session>>
  BY DEF Connectors, LoseConnection, build_connector_runtime, acquire, heartbeat, stop,
         Crash, PassGate, ClaimNothing, claim_next, DispatchClaimed
<1>3. RuntimeTyped' /\ OneDaemon'
  <2>1. ASSUME NEW g \in Generations, NEW n \in DaemonType,
               n.row = "active" => daemon[g].row = "active",
               daemon' = [daemon EXCEPT ![g] = n],
               holder' \in Generations \union {NoGeneration}
        PROVE  RuntimeTyped' /\ OneDaemon'
    BY <1>1, <1>2, <2>1 DEF RuntimeTyped, OneDaemon
  <2>2. CASE LoseConnection
    BY <1>1, <1>2, <2>2 DEF LoseConnection, RuntimeTyped, OneDaemon
  <2>3. \A g \in Generations : daemon[g] \in DaemonType
    BY <1>1
  <2>5. ASSUME NEW g \in Generations, NEW pc \in {"built", "idle", "cleared", "working", "ended"},
               daemon' = [daemon EXCEPT ![g].pc = pc],
               holder' \in Generations \union {NoGeneration}
        PROVE  RuntimeTyped' /\ OneDaemon'
    <3> DEFINE n == [daemon[g] EXCEPT !.pc = pc]
    <3>1. daemon' = [daemon EXCEPT ![g] = n]
      BY <1>1, <2>5
    <3>2. n \in DaemonType /\ n.row = daemon[g].row
      BY <2>3 DEF DaemonType
    <3> HIDE DEF n
    <3> QED BY <2>1, <2>5, <3>1, <3>2
  <2>6. ASSUME NEW g \in Generations, acquire(g), holder = NoGeneration
        PROVE  RuntimeTyped' /\ OneDaemon'
    <3>1. /\ daemon' = [h \in Generations |->
               IF h = g THEN [daemon[g] EXCEPT !.pc = "idle", !.row = "active"]
               ELSE IF daemon[h].row = "active"
                    THEN [daemon[h] EXCEPT !.row = "stale"] ELSE daemon[h]]
          /\ holder' = g
      BY <2>6 DEF acquire
    <3>2. ASSUME NEW h \in Generations
          PROVE  daemon'[h] \in DaemonType /\ (daemon'[h].row = "active" => h = g)
      BY <1>1, <3>1 DEF DaemonType
    <3> QED BY <1>2, <3>1, <3>2, <1>1 DEF RuntimeTyped, OneDaemon
  <2>7. ASSUME NEW g \in Generations, acquire(g), holder # NoGeneration
        PROVE  RuntimeTyped' /\ OneDaemon'
    BY <1>1, <2>5, <2>7 DEF acquire, RuntimeTyped
  <2>8. ASSUME NEW g \in Generations, NEW trust \in BOOLEAN, build_connector_runtime(g, trust)
        PROVE  RuntimeTyped' /\ OneDaemon'
    <3> DEFINE n == [daemon[g] EXCEPT !.pc = "built", !.trust = trust]
    <3>1. daemon' = [daemon EXCEPT ![g] = n]
      BY <1>1, <2>8 DEF build_connector_runtime
    <3>2. n \in DaemonType /\ n.row = daemon[g].row
      BY <2>3 DEF DaemonType
    <3> HIDE DEF n
    <3> QED BY <1>1, <2>1, <2>8, <3>1, <3>2 DEF build_connector_runtime, RuntimeTyped
  <2>9. ASSUME NEW g \in Generations, stop(g)
        PROVE  RuntimeTyped' /\ OneDaemon'
    <3> DEFINE r == IF daemon[g].row = "active" THEN "stopped" ELSE daemon[g].row
               n == [daemon[g] EXCEPT !.pc = "ended", !.row = r]
    <3>1. daemon' = [daemon EXCEPT ![g] = n]
      BY <1>1, <2>9 DEF stop
    <3>2. holder' \in Generations \union {NoGeneration}
      BY <2>9 DEF stop
    <3>3. n \in DaemonType /\ n.row # "active"
      BY <2>3 DEF DaemonType
    <3> HIDE DEF n
    <3> QED BY <2>1, <3>1, <3>2, <3>3
  <2>10. ASSUME NEW g \in Generations,
                \/ heartbeat(g) \/ Crash(g) \/ PassGate(g) \/ ClaimNothing(g)
                \/ \E c \in Turns : claim_next(g, c) \/ DispatchClaimed(g, c)
         PROVE  RuntimeTyped' /\ OneDaemon'
    <3>1. holder' \in Generations \union {NoGeneration}
      BY <1>1, <2>10 DEF heartbeat, Crash, PassGate, ClaimNothing, claim_next,
                         DispatchClaimed, RuntimeTyped
    <3>2. \E pc \in {"built", "idle", "cleared", "working", "ended"} :
            daemon' = [daemon EXCEPT ![g].pc = pc]
      BY <2>10 DEF heartbeat, Crash, PassGate, ClaimNothing, claim_next, DispatchClaimed
    <3> QED BY <2>5, <3>1, <3>2
  <2> QED BY <2>2, <2>6, <2>7, <2>8, <2>9, <2>10 DEF Connectors
<1>4. /\ turn' \in [Turns -> TurnType]
      /\ \A c \in Turns : /\ turn'[c].session = turn[c].session
                          /\ turn'[c].status # "none" => turn[c].status # "none"
                          /\ Nonterminal(c)' => Nonterminal(c)
  <2>1. CASE UNCHANGED turn
    BY <1>1, <2>1 DEF Nonterminal
  <2>2. ASSUME NEW g \in Generations, NEW c \in Turns, claim_next(g, c) \/ DispatchClaimed(g, c)
        PROVE  <1>4!1 /\ <1>4!2
    <3>1. Nonterminal(c) /\ turn[c].status # "none" /\ turn[c] \in TurnType
      BY <1>1, <2>2 DEF claim_next, DispatchClaimed, Nonterminal
    <3>2. PICK st \in {"leased", "delivered", "ended", "queued"}, by \in {g, NoGeneration} :
            turn' = [turn EXCEPT ![c] = [turn[c] EXCEPT !.status = st, !.by = by]]
      <4>1. CASE claim_next(g, c)
        BY <1>1, <4>1 DEF claim_next
      <4>2. CASE DispatchClaimed(g, c)
        <5>1. PICK probed \in BOOLEAN :
                turn' = [turn EXCEPT ![c].by = NoGeneration,
                  ![c].status = IF probed /\ network_gate(g) THEN "delivered"
                                ELSE IF probed /\ definitely_closed THEN "ended" ELSE "queued"]
          BY <4>2 DEF DispatchClaimed
        <5> DEFINE st == IF probed /\ network_gate(g) THEN "delivered"
                         ELSE IF probed /\ definitely_closed THEN "ended" ELSE "queued"
        <5>2. st \in {"leased", "delivered", "ended", "queued"}
          OBVIOUS
        <5>3. turn' = [turn EXCEPT ![c] = [turn[c] EXCEPT !.by = NoGeneration, !.status = st]]
          BY <1>1, <5>1
        <5> HIDE DEF st
        <5>4. [turn[c] EXCEPT !.by = NoGeneration, !.status = st]
                = [turn[c] EXCEPT !.status = st, !.by = NoGeneration]
          BY <3>1 DEF TurnType
        <5> QED BY <5>2, <5>3, <5>4
      <4> QED BY <2>2, <4>1, <4>2
    <3> DEFINE n == [turn[c] EXCEPT !.status = st, !.by = by]
    <3>3. n \in TurnType /\ n.session = turn[c].session
      BY <3>1 DEF TurnType
    <3> HIDE DEF n
    <3> QED BY <1>1, <3>1, <3>2, <3>3 DEF n, Nonterminal
  <2> QED BY <2>1, <2>2
      DEF Connectors, LoseConnection, build_connector_runtime, acquire, heartbeat, stop,
          Crash, PassGate, ClaimNothing
<1>5. ClientTyped'
  BY <1>1, <1>2, <1>4 DEF ClientTyped
<1> QED BY <1>2, <1>3, <1>4, <1>5, ClientStep

\* Pick finds an admission if there is one.
LEMMA PickFinds ==
  ASSUME NEW S \in SUBSET Admissions
  PROVE  /\ S = {} => Pick(S) = NoAdmission
         /\ S # {} => Pick(S) \in S
BY DEF Pick

\* An open admission is the one in force, or the stale one that blocks all
\* others; a released one is the release's.
LEMMA InForce ==
  ASSUME AuthorityInv
  PROVE  /\ active_admission # NoAdmission =>
              active_admission \in Admissions /\ Current(active_admission)
         /\ release_admission # NoAdmission =>
              release_admission \in Admissions /\ Released(release_admission)
         /\ \A a \in Admissions : Open(a) =>
              /\ active_admission \in {a, NoAdmission}
              /\ active_admission = NoAdmission => stale_admission = a
         /\ \A a \in Admissions : Released(a) => release_admission = a
<1> DEFINE C == {a \in Admissions : Current(a)}
           O == {a \in Admissions : Open(a)}
           R == {a \in Admissions : Released(a)}
<1>1. /\ C # {} => active_admission \in C
      /\ C = {} => active_admission = NoAdmission
      /\ O # {} => stale_admission \in O
      /\ R # {} => release_admission \in R
      /\ R = {} => release_admission = NoAdmission
  BY PickFinds DEF active_admission, stale_admission, release_admission
<1>2. \A a, b \in Admissions : Open(a) /\ Open(b) => a = b
  BY DEF AuthorityInv, Singular, Open
<1>3. \A a \in Admissions : Current(a) => Open(a)
  BY DEF Current
<1>4. \A a, b \in Admissions : Released(a) /\ Released(b) => a = b
  BY DEF AuthorityInv, Singular, Released
<1> QED BY <1>1, <1>2, <1>3, <1>4, NamesAssumption

\* A turn the trigger lets through belongs to whatever is in force.
LEMMA AdmittedInForce ==
  ASSUME AuthorityInv, NEW s, turn_admitted(s), NEW a \in Admissions, Open(a) \/ Released(a)
  PROVE  session[s] = a
<1>1. CASE Open(a)
  BY <1>1, InForce, NamesAssumption DEF turn_admitted
<1>2. CASE Released(a)
  BY <1>2, InForce, NamesAssumption DEF turn_admitted
<1> QED BY <1>1, <1>2

\* The web client and the API.
LEMMA ClientsKeep ==
  ASSUME AdmissionInv, Clients
  PROVE  AdmissionInv'
<1>1. /\ AuthorityInv /\ RuntimeTyped /\ OneDaemon
      /\ turn \in [Turns -> TurnType]
      /\ session \in [Sessions -> Admissions \union {NoAdmission, NoSession}]
  BY DEF AdmissionInv, ClientTyped
<1>2. UNCHANGED <<authority, daemon, holder>>
  BY DEF Clients, RestartApi, bind_agent_v02_candidate_session, CheckTurn, create_command,
         EndTurn
<1>3. RuntimeTyped' /\ OneDaemon'
  BY <1>1, <1>2 DEF Clients, RestartApi, bind_agent_v02_candidate_session, CheckTurn,
                    create_command, EndTurn, RuntimeTyped, OneDaemon
<1>4. ASSUME NEW trust \in BOOLEAN, RestartApi(trust) PROVE AdmissionInv'
  <2>1. ASSUME NEW c \in Turns
        PROVE  /\ turn'[c] \in TurnType
               /\ turn'[c].session = turn[c].session
               /\ turn'[c].status # "none" => turn[c].status # "none"
               /\ Nonterminal(c)' => Nonterminal(c)
    <3>1. turn[c] \in TurnType
      BY <1>1
    <3> QED BY <1>4, <3>1 DEF RestartApi, TurnType, Nonterminal
  <2>2. ClientTyped' /\ UNCHANGED session
    BY <1>1, <1>4, <2>1 DEF RestartApi, ClientTyped
  <2> QED BY <1>2, <1>3, <2>1, <2>2, ClientStep
<1>5. ASSUME NEW s \in Sessions, bind_agent_v02_candidate_session(s) PROVE AdmissionInv'
  <2>1. /\ active_admission \in Admissions \union {NoAdmission}
        /\ release_admission \in Admissions \union {NoAdmission}
    BY <1>1, InForce
  <2>2. ClientTyped'
    BY <1>1, <1>5, <2>1 DEF bind_agent_v02_candidate_session, ClientTyped
  <2>3. UNCHANGED turn /\ \A t \in Sessions : session[t] # NoSession => session'[t] = session[t]
    BY <1>1, <1>5 DEF bind_agent_v02_candidate_session
  <2>4. \A c \in Turns : Nonterminal(c)' => Nonterminal(c)
    BY <2>3 DEF Nonterminal
  <2> QED BY <1>2, <1>3, <2>2, <2>3, <2>4, ClientStep
<1>6. ASSUME NEW c \in Turns, NEW s \in Sessions, CheckTurn(c, s) PROVE AdmissionInv'
  <2> DEFINE n == [turn[c] EXCEPT !.status = "checked", !.session = s]
  <2>1. turn' = [turn EXCEPT ![c] = n] /\ UNCHANGED session
    BY <1>1, <1>6 DEF CheckTurn
  <2>2. n \in TurnType /\ n.status = "checked" /\ n.session = s
    BY <1>1 DEF TurnType
  <2> HIDE DEF n
  <2>3. /\ turn' \in [Turns -> TurnType] /\ turn'[c] = n
        /\ \A d \in Turns \ {c} : turn'[d] = turn[d]
    BY <1>1, <2>1, <2>2
  <2>4. ClientTyped' /\ \A d \in Turns : Nonterminal(d)' => Nonterminal(d) /\ d # c
    BY <1>1, <2>1, <2>2, <2>3 DEF ClientTyped, Nonterminal
  <2>5. session[s] # NoSession
    BY <1>6 DEF CheckTurn
  <2> QED BY <1>2, <1>3, <2>1, <2>2, <2>3, <2>4, <2>5, ClientStep
<1>7. ASSUME NEW c \in Turns, create_command(c) PROVE AdmissionInv'
  <2> DEFINE st == IF turn_admitted(turn[c].session) THEN "queued" ELSE "ended"
             n == [turn[c] EXCEPT !.status = st, !.scope = active_admission]
  <2>1. turn' = [turn EXCEPT ![c] = n] /\ UNCHANGED session
    BY <1>1, <1>7 DEF create_command
  <2>2. active_admission \in Admissions \union {NoAdmission}
    BY <1>1, InForce
  <2>3. n \in TurnType /\ n.status = st /\ n.session = turn[c].session
    BY <1>1, <2>2 DEF TurnType
  <2>4. /\ turn[c].status # "none"
        /\ st = "queued" => \A a \in Admissions : Open(a) => session[turn[c].session] = a
    BY <1>1, <1>7, AdmittedInForce DEF create_command
  <2>5. st \in {"queued", "ended"}
    OBVIOUS
  <2> HIDE DEF n, st
  <2>6. /\ turn' \in [Turns -> TurnType] /\ turn'[c] = n
        /\ \A d \in Turns \ {c} : turn'[d] = turn[d]
    BY <1>1, <2>1, <2>3
  <2>7. /\ ClientTyped'
        /\ \A d \in Turns : Nonterminal(d)' => Nonterminal(d) \/ (d = c /\ st = "queued")
        /\ \A d \in Turns : turn'[d].session = turn[d].session
    BY <1>1, <2>1, <2>3, <2>5, <2>6 DEF ClientTyped, Nonterminal
  <2> QED BY <1>2, <1>3, <2>1, <2>4, <2>6, <2>7, ClientStep
<1>8. ASSUME NEW c \in Turns, EndTurn(c) PROVE AdmissionInv'
  <2>1. /\ turn' \in [Turns -> TurnType] /\ UNCHANGED session
        /\ \A d \in Turns : turn'[d].session = turn[d].session
        /\ turn[c].status \in {"delivered", "leased"}
        /\ \A d \in Turns \ {c} : turn'[d] = turn[d]
    <3>1. CASE turn' = [turn EXCEPT ![c].status = "ended"]
      BY <1>1, <1>8, <3>1 DEF EndTurn, TurnType
    <3>2. CASE turn' = [turn EXCEPT ![c].status = "queued", ![c].by = NoGeneration]
      <4> DEFINE n == [turn[c] EXCEPT !.status = "queued", !.by = NoGeneration]
      <4>1. turn' = [turn EXCEPT ![c] = n]
        BY <1>1, <3>2
      <4>2. n \in TurnType /\ n.session = turn[c].session
        BY <1>1 DEF TurnType
      <4> HIDE DEF n
      <4> QED BY <1>1, <1>8, <4>1, <4>2 DEF EndTurn
    <3> QED BY <1>8, <3>1, <3>2 DEF EndTurn
  <2>2. ClientTyped' /\ \A d \in Turns : Nonterminal(d)' => Nonterminal(d)
    BY <1>1, <2>1 DEF ClientTyped, Nonterminal
  <2> QED BY <1>2, <1>3, <2>1, <2>2, ClientStep
<1> QED BY <1>4, <1>5, <1>6, <1>7, <1>8 DEF Clients

\* Every action keeps the invariant.
LEMMA AdmissionInvNext == AdmissionInv /\ [Next]_vars => AdmissionInv'
<1> SUFFICES ASSUME AdmissionInv, [Next]_vars PROVE AdmissionInv'
  OBVIOUS
<1>1. CASE UNCHANGED vars
  <2>1. RuntimeTyped' /\ OneDaemon' /\ ClientTyped' /\ UNCHANGED authority
    BY <1>1 DEF vars, AdmissionInv, RuntimeTyped, OneDaemon, ClientTyped
  <2>2. UNCHANGED <<session, turn>> /\ \A c \in Turns : Nonterminal(c)' => Nonterminal(c)
    BY <1>1 DEF vars, Nonterminal
  <2> QED BY <2>1, <2>2, ClientStep
<1> QED BY <1>1, AuthoritiesKeep, ConnectorsKeep, ClientsKeep DEF Next

\* The inductive invariant holds in every behaviour.
THEOREM AdmissionInvariant == Spec => []AdmissionInv
BY AdmissionInvInit, AdmissionInvNext, PTL DEF Spec

\* Rows keep their types and the one-active, one-open indexes are never hit.
THEOREM AdmissionsTyped == Spec => []TypeOK
BY AdmissionInvariant, AdmissionInvImplies, PTL

\* A candidate window and a public release are never open together, and an open
\* cutover has an active stamp of an accepted admission.
THEOREM OneAdmissionAtATime == Spec => []OneAdmission
BY AdmissionInvariant, AdmissionInvImplies, PTL

\* No turn from outside an open candidate window is alive while it is open.
THEOREM WindowsAreClean == Spec => []WindowClean
BY AdmissionInvariant, AdmissionInvImplies, PTL

-----------------------------------------------------------------------------
(* What a step may never do.                                               *)

NothingStale ==
  /\ \A a \in touched : adm'[a].status = "accepted" => adm[a].status = "accepted"
  /\ \A x \in Stamps : stamp'[x].status = "active" /\ stamp'[x].adm \in touched
                         => stamp[x].status = "active"
  /\ \A x \in Cutovers : cutover'[x].status = "open"
                         /\ stamp[cutover'[x].stamp].adm \in touched
                         => cutover[x].status = "open"
  /\ \A s \in Sessions : session'[s] \in touched => session[s] = session'[s]

\* Only an admission of the current epoch is accepted, stamped, cut over to or
\* bound, and the touched ones are older.
LEMMA StaleStep == AdmissionInv /\ [Next]_vars => [NothingStale]_vars
<1> SUFFICES ASSUME AdmissionInv, Next PROVE NothingStale
  OBVIOUS
<1>1. /\ AuthorityInv /\ AuthorityTyped /\ session \in [Sessions -> Admissions \union {NoAdmission, NoSession}]
      /\ touched \subseteq Admissions
      /\ \A a \in touched : adm[a].status # "none" /\ adm[a].epoch # epoch
  BY DEF AdmissionInv, AuthorityInv, AuthorityTyped, ClientTyped, Fenced, AdmType
<1>2. ASSUME UNCHANGED <<adm, stamp, cutover, session>> PROVE NothingStale
  BY <1>2 DEF NothingStale
<1>3. CASE Authorities
  <2>1. UNCHANGED session
    BY <1>3 DEF Authorities, open, Replay, Elapse, RecordEvidence, accept, revoke,
           create_release_stamp, close_release_stamp, close_public_cutover,
           create_public_cutover, bump_agent_v02_paper_authority_epoch
  <2>2. ASSUME NEW a \in Admissions,
               open(a) \/ Replay(a) \/ Elapse(a) \/ RecordEvidence(a) \/ accept(a) \/ revoke(a)
        PROVE  NothingStale
    <3>1. UNCHANGED <<stamp, cutover>>
      BY <2>2 DEF open, Replay, Elapse, RecordEvidence, accept, revoke
    <3>2. \A b \in touched : adm'[b].status = "accepted" => adm[b].status = "accepted"
      <4> DEFINE e == _expire_if_needed
      <4>1. /\ e \in [Admissions -> AdmType]
            /\ \A b \in Admissions : e[b].status = "accepted" => adm[b].status = "accepted"
        BY <1>1, ExpireFields
      <4>2. CASE open(a)
        <5>1. adm' = [e EXCEPT ![a] = [status |-> "open", elapsed |-> FALSE, epoch |-> epoch]]
              /\ adm[a].status = "none"
          BY <4>2 DEF open
        <5> HIDE DEF e
        <5> QED BY <1>1, <4>1, <5>1
      <4>3. CASE accept(a)
        <5>1. adm' = [e EXCEPT ![a].status = "accepted"] /\ adm[a].epoch = epoch
          BY <4>3 DEF accept
        <5> HIDE DEF e
        <5> QED BY <1>1, <4>1, <5>1
      <4>4. CASE Replay(a)
        BY <1>1, <4>1, <4>4 DEF Replay
      <4>5. CASE Elapse(a) \/ RecordEvidence(a) \/ revoke(a)
        BY <1>1, <4>5 DEF Elapse, RecordEvidence, revoke, AuthorityTyped, AdmType
      <4> QED BY <2>2, <4>2, <4>3, <4>4, <4>5
    <3> QED BY <2>1, <3>1, <3>2 DEF NothingStale
  <2>3. ASSUME NEW x \in Stamps, NEW a \in Admissions, create_release_stamp(x, a)
        PROVE  NothingStale
    BY <1>1, <2>1, <2>3 DEF create_release_stamp, NothingStale, AuthorityTyped
  <2>4. ASSUME NEW x \in Stamps, close_release_stamp(x) PROVE NothingStale
    BY <1>1, <2>1, <2>4 DEF close_release_stamp, NothingStale, AuthorityTyped, StampType
  <2>5. ASSUME NEW x \in Cutovers, close_public_cutover(x) PROVE NothingStale
    BY <1>1, <2>1, <2>5 DEF close_public_cutover, NothingStale, AuthorityTyped, CutoverType
  <2>6. ASSUME NEW x \in Cutovers, NEW y \in Stamps, create_public_cutover(x, y)
        PROVE  NothingStale
    <3>1. stamp[y].adm \notin touched
      BY <1>1, <2>6 DEF create_public_cutover, AuthorityInv, Fenced
    <3> QED BY <1>1, <2>1, <2>6, <3>1 DEF create_public_cutover, NothingStale, AuthorityTyped
  <2>7. ASSUME NEW f \in BOOLEAN, bump_agent_v02_paper_authority_epoch(f) PROVE NothingStale
    BY <1>2, <2>1, <2>7 DEF bump_agent_v02_paper_authority_epoch
  <2> QED BY <1>3, <2>2, <2>3, <2>4, <2>5, <2>6, <2>7 DEF Authorities
<1>4. CASE Connectors
  BY <1>2, <1>4 DEF Connectors, LoseConnection, build_connector_runtime, acquire, heartbeat,
     stop, Crash, PassGate, ClaimNothing, claim_next, DispatchClaimed, authority
<1>5. CASE Clients
  <2>1. ASSUME NEW s \in Sessions, bind_agent_v02_candidate_session(s) PROVE NothingStale
    <3>1. active_admission \notin touched
      BY <1>1, InForce, NamesAssumption DEF Current
    <3>2. release_admission \notin touched
      <4>1. ASSUME NEW a \in touched, Released(a) PROVE FALSE
        <5>1. PICK x \in Cutovers :
                /\ cutover[x].status = "open"
                /\ stamp[cutover[x].stamp].status = "active"
                /\ stamp[cutover[x].stamp].adm = a /\ stamp[cutover[x].stamp].epoch = epoch
          BY <4>1 DEF Released
        <5>2. cutover[x].stamp \in Stamps
          BY <1>1 DEF AuthorityTyped, CutoverType
        <5> QED BY <1>1, <4>1, <5>1, <5>2 DEF AuthorityInv, Fenced
      <4> QED BY <1>1, <4>1, InForce, NamesAssumption
    <3>3. UNCHANGED authority
      BY <2>1 DEF bind_agent_v02_candidate_session
    <3> QED BY <1>1, <2>1, <3>1, <3>2, <3>3
        DEF bind_agent_v02_candidate_session, NothingStale, authority
  <2> QED BY <1>2, <1>5, <2>1
      DEF Clients, RestartApi, CheckTurn, create_command, EndTurn, authority
<1> QED BY <1>3, <1>4, <1>5 DEF Next

\* Evidence from before a paper mutation opens nothing afterwards.
THEOREM StaleEvidenceIsFenced == Spec => StaleEvidenceOpensNothing
BY AdmissionInvariant, StaleStep, PTL DEF Spec, StaleEvidenceOpensNothing, NothingStale

InTheirAdmission ==
  \A c \in Turns : turn[c].status = "checked" /\ turn'[c].status = "queued" =>
    \A a \in Admissions : Open(a) \/ Released(a) => session[turn[c].session] = a

\* Only the insert queues a checked turn, and its trigger compares again.
LEMMA TurnStep == AdmissionInv /\ [Next]_vars => [InTheirAdmission]_vars
<1> SUFFICES ASSUME AdmissionInv, Next, NEW c \in Turns,
                    turn[c].status = "checked", turn'[c].status = "queued",
                    NEW a \in Admissions, Open(a) \/ Released(a)
             PROVE  session[turn[c].session] = a
  BY DEF InTheirAdmission
<1>1. AuthorityInv /\ turn \in [Turns -> TurnType]
  BY DEF AdmissionInv, ClientTyped
<1>2. ~UNCHANGED turn
  OBVIOUS
<1>3. ASSUME NEW d \in Turns, create_command(d) PROVE turn_admitted(turn[c].session)
  <2>1. d = c
    BY <1>1, <1>3 DEF create_command
  <2> QED BY <1>1, <1>3, <2>1 DEF create_command, TurnType
<1>4. ASSUME NEW d \in Turns, EndTurn(d) \/ \E s \in Sessions : CheckTurn(d, s) PROVE FALSE
  BY <1>1, <1>4 DEF EndTurn, CheckTurn, TurnType
<1>5. ASSUME NEW t \in BOOLEAN, RestartApi(t) PROVE FALSE
  BY <1>1, <1>5 DEF RestartApi, TurnType
<1>6. ~Authorities
  BY <1>2 DEF Authorities, open, Replay, Elapse, RecordEvidence, accept, revoke,
         create_release_stamp, close_release_stamp, close_public_cutover,
         create_public_cutover, bump_agent_v02_paper_authority_epoch
<1>7. ~Connectors
  <2>1. ASSUME NEW g \in Generations, NEW d \in Turns, claim_next(g, d) \/ DispatchClaimed(g, d)
        PROVE  FALSE
    <3>1. d # c /\ turn'[c] = turn[c]
      BY <1>1, <2>1 DEF claim_next, DispatchClaimed
    <3> QED BY <3>1
  <2> QED BY <1>2, <2>1 DEF Connectors, LoseConnection, build_connector_runtime, acquire,
             heartbeat, stop, Crash, PassGate, ClaimNothing
<1>8. \E d \in Turns : create_command(d)
  BY <1>2, <1>4, <1>5, <1>6, <1>7 DEF Next, Clients, bind_agent_v02_candidate_session
<1> QED BY <1>1, <1>3, <1>8, AdmittedInForce

\* A turn enters the ledger only in the admission that is in force, although
\* its check and its insert are two transactions.
THEOREM TurnsStayInTheirAdmission == Spec => TurnsInTheirAdmission
BY AdmissionInvariant, TurnStep, PTL DEF Spec, TurnsInTheirAdmission, InTheirAdmission

=============================================================================
