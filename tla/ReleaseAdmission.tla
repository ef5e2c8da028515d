-------------------------- MODULE ReleaseAdmission --------------------------
(***************************************************************************)
(* Who may write to Hermes: the candidate admission authority, the release *)
(* authority (stamps and public cutovers), the paper-authority epoch that  *)
(* fences both, the liveness generations of the connector daemon and the   *)
(* two database triggers that bind sessions and turns to an admission.     *)
(*                                                                         *)
(* Every authority method is one transaction under the workspace's         *)
(* advisory locks, so it is one action; what runs in several transactions  *)
(* (a turn that is checked and then inserted, a daemon that is gated and   *)
(* then acquires or claims) is several actions.  An admission, a stamp and *)
(* a cutover are named by the client action that opens them: repeating the *)
(* action returns the stored receipt and changes nothing, except that a    *)
(* repeated open or accept still commits the expiry it has just written.   *)
(***************************************************************************)
EXTENDS Naturals, FiniteSets

CONSTANTS
  Admissions, Stamps, Cutovers, \* client actions of the operator
  Generations,                  \* connector daemons, one start each
  Sessions, Turns,              \* of the web client
  NoAdmission, NoGeneration, NoSession,
  MaxEpoch                      \* bound on paper mutations

ASSUME MaxEpochAssumption == MaxEpoch \in Nat \ {0}
ASSUME NamesAssumption == /\ NoAdmission \notin Admissions \union {NoSession}
                          /\ NoSession \notin Admissions \union Sessions
                          /\ NoGeneration \notin Generations
                          /\ Stamps # {}

VARIABLES
  adm,       \* agent_v02_candidate_admissions
  evidence,  \* the epoch of an admission's verified evidence set, 0 for none
  touched,   \* history: admissions opened before the last paper mutation
  epoch,     \* the owner's and the workspace's paper_authority_epoch
  frozen,    \* kill_switch of the one canonical paper account
  stamp,     \* agent_v02_release_stamps
  cutover,   \* agent_v02_public_cutovers
  daemon,    \* each daemon: its row, its own progress, its trust setting
  holder,    \* the daemon whose connection holds the session lock
  api_trust, \* the trust setting of the running API process
  session,   \* hermes_workspace_sessions: NoSession or the bound admission
  turn       \* a conversation turn, from its check to its end

authority == <<adm, evidence, touched, epoch, frozen, stamp, cutover>>
vars == <<authority, daemon, holder, api_trust, session, turn>>

-----------------------------------------------------------------------------
(* What the authorities say at this moment. *)

Open(a) == adm[a].status = "open" /\ ~adm[a].elapsed

\* authority.active and the first query of both triggers.
Current(a) == Open(a) /\ adm[a].epoch = epoch /\ frozen

\* The join of the active stamp, its open cutover, the accepted admission
\* and the current epoch.
Released(a) ==
  \E x \in Cutovers :
     /\ cutover[x].status = "open"
     /\ LET s == stamp[cutover[x].stamp] IN
          /\ s.status = "active" /\ s.adm = a
          /\ adm[a].status = "accepted" /\ s.epoch = epoch

Pick(S) == IF S = {} THEN NoAdmission ELSE CHOOSE a \in S : TRUE

active_admission == Pick({a \in Admissions : Current(a)})
stale_admission == Pick({a \in Admissions : Open(a)})
release_admission == Pick({a \in Admissions : Released(a)})

\* Every other blocker of the release gate (flags, digests, capabilities)
\* only closes it further.
release_ready == release_admission # NoAdmission

\* evaluate_connector_liveness: the active row has to carry the runtime
\* digest this API expects, and trust mode has a digest of its own.
connector_ready ==
  \E g \in Generations : /\ daemon[g].row = "active"
                         /\ daemon[g].trust = api_trust
                         /\ holder # NoGeneration

\* chat_write_ready of the composer's readiness; its admission mode is never
\* a candidate's.
chat_write_ready == (release_ready \/ api_trust) /\ connector_ready

\* The projection behind chat_write_ready names no candidate admission.
expected_admission == NoAdmission

require_current_session_admission(s) ==
  chat_write_ready /\ session[s] = expected_admission

Nonterminal(c) == turn[c].status \in {"queued", "leased", "delivered"}

-----------------------------------------------------------------------------
(* Candidate admissions. *)

_expire_if_needed ==
  [a \in Admissions |->
     IF adm[a].status = "open" /\ adm[a].elapsed
     THEN [adm[a] EXCEPT !.status = "expired"] ELSE adm[a]]

open_undrained(a) ==
  /\ adm[a].status = "none"
  /\ \A b \in Admissions : ~Open(b)
  /\ ~\E x \in Cutovers : cutover[x].status = "open"
  /\ \A g \in Generations : daemon[g].row # "active"
  /\ adm' = [_expire_if_needed EXCEPT
               ![a] = [status |-> "open", elapsed |-> FALSE, epoch |-> epoch]]
  /\ UNCHANGED <<evidence, touched, epoch, frozen, stamp, cutover,
                 daemon, holder, api_trust, session, turn>>

open(a) ==
  /\ adm[a].status = "none"
  /\ \A b \in Admissions : ~Open(b)
  /\ ~\E x \in Cutovers : /\ cutover[x].status = "open"
                          /\ stamp[cutover[x].stamp].status = "active"
  /\ \A g \in Generations : daemon[g].row # "active"
  /\ \A c \in Turns : ~Nonterminal(c)
  /\ adm' = [_expire_if_needed EXCEPT
               ![a] = [status |-> "open", elapsed |-> FALSE, epoch |-> epoch]]
  /\ UNCHANGED <<evidence, touched, epoch, frozen, stamp, cutover,
                 daemon, holder, api_trust, session, turn>>

\* An open or accept that finds its receipt commits only the expiry.
Replay(a) ==
  /\ adm[a].status # "none"
  /\ adm' = _expire_if_needed
  /\ UNCHANGED <<evidence, touched, epoch, frozen, stamp, cutover,
                 daemon, holder, api_trust, session, turn>>

Elapse(a) ==
  /\ Open(a)
  /\ adm' = [adm EXCEPT ![a].elapsed = TRUE]
  /\ UNCHANGED <<evidence, touched, epoch, frozen, stamp, cutover,
                 daemon, holder, api_trust, session, turn>>

\* The verified evidence set of an admission; its trigger refuses an epoch
\* that has moved on.
RecordEvidence(a) ==
  /\ adm[a].status = "open" /\ adm[a].epoch = epoch /\ evidence[a] = 0
  /\ evidence' = [evidence EXCEPT ![a] = epoch]
  /\ UNCHANGED <<adm, touched, epoch, frozen, stamp, cutover,
                 daemon, holder, api_trust, session, turn>>

accept_unfenced(a) ==
  /\ Open(a)
  /\ \A g \in Generations : daemon[g].row # "active"
  /\ evidence[a] = adm[a].epoch
  /\ adm' = [_expire_if_needed EXCEPT ![a].status = "accepted"]
  /\ UNCHANGED <<evidence, touched, epoch, frozen, stamp, cutover,
                 daemon, holder, api_trust, session, turn>>

\* accept, with the trigger that compares the admission's epoch, its
\* evidence's and the current one.
accept(a) ==
  /\ Open(a)
  /\ \A g \in Generations : daemon[g].row # "active"
  /\ \A c \in Turns : turn[c].scope = a => ~Nonterminal(c)
  /\ evidence[a] = adm[a].epoch /\ adm[a].epoch = epoch
  /\ adm' = [_expire_if_needed EXCEPT ![a].status = "accepted"]
  /\ UNCHANGED <<evidence, touched, epoch, frozen, stamp, cutover,
                 daemon, holder, api_trust, session, turn>>

\* revoke does not look at the TTL.
revoke(a) ==
  /\ adm[a].status = "open"
  /\ adm' = [adm EXCEPT ![a].status = "revoked"]
  /\ UNCHANGED <<evidence, touched, epoch, frozen, stamp, cutover,
                 daemon, holder, api_trust, session, turn>>

\* Every write of a paper table advances the epoch in its own transaction.
bump_agent_v02_paper_authority_epoch(kill_switch) ==
  /\ epoch < MaxEpoch
  /\ epoch' = epoch + 1 /\ frozen' = kill_switch
  /\ touched' = {a \in Admissions : adm[a].status # "none"}
  /\ UNCHANGED <<adm, evidence, stamp, cutover,
                 daemon, holder, api_trust, session, turn>>

-----------------------------------------------------------------------------
(* Release stamps and public cutovers. *)

create_release_stamp(x, a) ==
  /\ stamp[x].status = "none"
  /\ \A b \in Admissions : ~Open(b)
  /\ \A y \in Stamps : stamp[y].status # "active"
  /\ adm[a].status = "accepted"
  /\ evidence[a] = adm[a].epoch /\ adm[a].epoch = epoch
  /\ stamp' = [stamp EXCEPT ![x] = [status |-> "active", adm |-> a, epoch |-> epoch]]
  /\ UNCHANGED <<adm, evidence, touched, epoch, frozen, cutover,
                 daemon, holder, api_trust, session, turn>>

create_public_cutover_early(x, y) ==
  /\ cutover[x].status = "none"
  /\ stamp[y].status = "active" /\ stamp[y].epoch = epoch
  /\ \A z \in Cutovers : cutover[z].status # "open"
  /\ cutover' = [cutover EXCEPT ![x] = [status |-> "open", stamp |-> y]]
  /\ UNCHANGED <<adm, evidence, touched, epoch, frozen, stamp,
                 daemon, holder, api_trust, session, turn>>

create_public_cutover(x, y) ==
  /\ cutover[x].status = "none"
  /\ \A b \in Admissions : ~Open(b)
  /\ stamp[y].status = "active" /\ stamp[y].epoch = epoch
  /\ \A z \in Cutovers : cutover[z].status # "open"
  /\ cutover' = [cutover EXCEPT ![x] = [status |-> "open", stamp |-> y]]
  /\ UNCHANGED <<adm, evidence, touched, epoch, frozen, stamp,
                 daemon, holder, api_trust, session, turn>>

close_public_cutover(x) ==
  /\ cutover[x].status = "open"
  /\ cutover' = [cutover EXCEPT ![x].status = "closed"]
  /\ UNCHANGED <<adm, evidence, touched, epoch, frozen, stamp,
                 daemon, holder, api_trust, session, turn>>

close_release_stamp(x) ==
  /\ stamp[x].status = "active"
  /\ \A y \in Cutovers : cutover[y].stamp = x => cutover[y].status # "open"
  /\ stamp' = [stamp EXCEPT ![x].status = "closed"]
  /\ UNCHANGED <<adm, evidence, touched, epoch, frozen, cutover,
                 daemon, holder, api_trust, session, turn>>

-----------------------------------------------------------------------------
(* The connector daemon and its liveness generation. *)

\* build_connector_runtime: trust mode, or a release that is ready.
build_connector_runtime(g, trust) ==
  /\ daemon[g].pc = "off"
  /\ trust \/ release_ready
  /\ daemon' = [daemon EXCEPT ![g].pc = "built", ![g].trust = trust]
  /\ UNCHANGED <<authority, holder, api_trust, session, turn>>

acquire_beside(g) ==
  /\ daemon[g].pc = "built"
  /\ IF holder = NoGeneration
     THEN /\ holder' = g
          /\ daemon' = [daemon EXCEPT ![g].pc = "idle", ![g].row = "active"]
     ELSE /\ daemon' = [daemon EXCEPT ![g].pc = "ended"]
          /\ UNCHANGED holder
  /\ UNCHANGED <<authority, api_trust, session, turn>>

\* The session lock, then one transaction: the row a lost daemon left active
\* becomes stale.  Without the lock the daemon ends.
acquire(g) ==
  /\ daemon[g].pc = "built"
  /\ IF holder = NoGeneration
     THEN /\ holder' = g
          /\ daemon' = [h \in Generations |->
               IF h = g THEN [daemon[g] EXCEPT !.pc = "idle", !.row = "active"]
               ELSE IF daemon[h].row = "active"
                    THEN [daemon[h] EXCEPT !.row = "stale"] ELSE daemon[h]]
     ELSE /\ daemon' = [daemon EXCEPT ![g].pc = "ended"]
          /\ UNCHANGED holder
  /\ UNCHANGED <<authority, api_trust, session, turn>>

\* The connection that holds the lock breaks; the daemon does not know.
LoseConnection ==
  /\ holder # NoGeneration
  /\ holder' = NoGeneration
  /\ UNCHANGED <<authority, daemon, api_trust, session, turn>>

Running(g) == daemon[g].pc \in {"idle", "cleared", "working"}

\* The heartbeat on the broken connection fails: the runtime is asked to
\* stop, and close finds the lease gone and leaves the row as it is.
heartbeat(g) ==
  /\ Running(g) /\ holder # g /\ daemon[g].pc # "working"
  /\ daemon' = [daemon EXCEPT ![g].pc = "ended"]
  /\ UNCHANGED <<authority, holder, api_trust, session, turn>>

stop(g) ==
  /\ daemon[g].pc \in {"idle", "cleared"} /\ holder = g
  /\ holder' = NoGeneration
  /\ daemon' = [daemon EXCEPT ![g].pc = "ended",
                  ![g].row = IF @ = "active" THEN "stopped" ELSE @]
  /\ UNCHANGED <<authority, api_trust, session, turn>>

Crash(g) ==
  /\ Running(g)
  /\ holder' = IF holder = g THEN NoGeneration ELSE holder
  /\ daemon' = [daemon EXCEPT ![g].pc = "ended"]
  /\ UNCHANGED <<authority, api_trust, session, turn>>

\* A gate of a trust-mode daemon asks no database.
network_gate(g) == daemon[g].trust \/ release_ready

PassGate(g) ==
  /\ daemon[g].pc = "idle" /\ network_gate(g)
  /\ daemon' = [daemon EXCEPT ![g].pc = "cleared"]
  /\ UNCHANGED <<authority, holder, api_trust, session, turn>>

\* claim_next in the scope every daemon is built with: no candidate.
claim_next(g, c) ==
  /\ daemon[g].pc = "cleared"
  /\ turn[c].status = "queued" /\ turn[c].scope = NoAdmission
  /\ turn' = [turn EXCEPT ![c].status = "leased", ![c].by = g]
  /\ daemon' = [daemon EXCEPT ![g].pc = "working"]
  /\ UNCHANGED <<authority, holder, api_trust, session>>

ClaimNothing(g) ==
  /\ daemon[g].pc = "cleared"
  /\ \A c \in Turns : turn[c].status = "queued" => turn[c].scope # NoAdmission
  /\ daemon' = [daemon EXCEPT ![g].pc = "idle"]
  /\ UNCHANGED <<authority, holder, api_trust, session, turn>>

\* _release_blocker_is_retryable: a closed stamp or cutover is definitive, an
\* epoch that has moved on is not.
definitely_closed ==
  \/ \A x \in Stamps : stamp[x].status # "active"
  \/ /\ \E x \in Stamps : stamp[x].status = "active" /\ stamp[x].epoch = epoch
     /\ \A y \in Cutovers : cutover[y].status # "open"

\* The second gate, after the claim; a probe that fails, or a heartbeat that
\* has failed by then, sends the turn back to the queue.
DispatchClaimed(g, c) ==
  /\ daemon[g].pc = "working"
  /\ turn[c].status = "leased" /\ turn[c].by = g
  /\ \E probed \in BOOLEAN :
       turn' = [turn EXCEPT ![c].by = NoGeneration,
         ![c].status = IF probed /\ network_gate(g) THEN "delivered"
                       ELSE IF probed /\ definitely_closed THEN "ended" ELSE "queued"]
  /\ daemon' = [daemon EXCEPT ![g].pc = "idle"]
  /\ UNCHANGED <<authority, holder, api_trust, session>>

\* The Run of a delivered turn ends, or the lease of a dead daemon lapses;
\* both are recorded by whichever daemon reconciles.
EndTurn(c) ==
  /\ \/ /\ turn[c].status = "delivered"
        /\ turn' = [turn EXCEPT ![c].status = "ended"]
     \/ /\ turn[c].status = "leased" /\ ~Running(turn[c].by)
        /\ turn' = [turn EXCEPT ![c].status = "queued", ![c].by = NoGeneration]
  /\ UNCHANGED <<authority, daemon, holder, api_trust, session>>

-----------------------------------------------------------------------------
(* The API: sessions and conversation turns. *)

RestartApi(trust) ==
  /\ api_trust' = trust
  /\ turn' = [c \in Turns |-> IF turn[c].status = "checked"
                              THEN [turn[c] EXCEPT !.status = "ended"] ELSE turn[c]]
  /\ UNCHANGED <<authority, daemon, holder, session>>

\* The trigger on the insert of a managed session: refused while an open
\* candidate's epoch is stale, else bound to the candidate or the release.
bind_agent_v02_candidate_session(s) ==
  /\ session[s] = NoSession
  /\ active_admission = NoAdmission => stale_admission = NoAdmission
  /\ active_admission = NoAdmission \/ release_admission = NoAdmission
  /\ session' = [session EXCEPT ![s] =
       IF active_admission # NoAdmission THEN active_admission ELSE release_admission]
  /\ UNCHANGED <<authority, daemon, holder, api_trust, turn>>

\* submit_conversation_turn up to its readiness check.
CheckTurn(c, s) ==
  /\ turn[c].status = "none" /\ session[s] # NoSession
  /\ require_current_session_admission(s)
  /\ turn' = [turn EXCEPT ![c].status = "checked", ![c].session = s]
  /\ UNCHANGED <<authority, daemon, holder, api_trust, session>>

\* What the trigger on the insert of a conversation turn lets through.
turn_admitted_unchecked(s) == TRUE

turn_admitted(s) ==
  IF active_admission # NoAdmission
  THEN release_admission = NoAdmission /\ session[s] = active_admission
  ELSE /\ stale_admission = NoAdmission
       /\ session[s] = release_admission

\* The insert is a transaction of its own, after the check.
create_command(c) ==
  /\ turn[c].status = "checked"
  /\ turn' = [turn EXCEPT
       ![c].status = IF turn_admitted(turn[c].session) THEN "queued" ELSE "ended",
       ![c].scope = active_admission]
  /\ UNCHANGED <<authority, daemon, holder, api_trust, session>>

-----------------------------------------------------------------------------
Init ==
  /\ adm = [a \in Admissions |-> [status |-> "none", elapsed |-> FALSE, epoch |-> 0]]
  /\ evidence = [a \in Admissions |-> 0] /\ touched = {}
  /\ epoch = 1 /\ frozen = TRUE
  /\ stamp = [x \in Stamps |-> [status |-> "none", adm |-> NoAdmission, epoch |-> 0]]
  /\ cutover = [x \in Cutovers |-> [status |-> "none", stamp |-> CHOOSE y \in Stamps : TRUE]]
  /\ daemon = [g \in Generations |-> [row |-> "none", pc |-> "off", trust |-> FALSE]]
  /\ holder = NoGeneration
  /\ api_trust \in BOOLEAN
  /\ session = [s \in Sessions |-> NoSession]
  /\ turn = [c \in Turns |-> [status |-> "none", session |-> NoSession,
                              scope |-> NoAdmission, by |-> NoGeneration]]

Authorities ==
  \/ \E a \in Admissions :
        \/ open(a) \/ Replay(a) \/ Elapse(a) \/ RecordEvidence(a)
        \/ accept(a) \/ revoke(a)
        \/ \E x \in Stamps : create_release_stamp(x, a)
  \/ \E x \in Stamps : close_release_stamp(x)
  \/ \E x \in Cutovers : close_public_cutover(x)
  \/ \E x \in Cutovers, y \in Stamps : create_public_cutover(x, y)
  \/ \E f \in BOOLEAN : bump_agent_v02_paper_authority_epoch(f)

Connectors ==
  \/ LoseConnection
  \/ \E g \in Generations :
        \/ \E trust \in BOOLEAN : build_connector_runtime(g, trust)
        \/ acquire(g) \/ heartbeat(g) \/ stop(g) \/ Crash(g)
        \/ PassGate(g) \/ ClaimNothing(g)
        \/ \E c \in Turns : claim_next(g, c) \/ DispatchClaimed(g, c)

Clients ==
  \/ \E trust \in BOOLEAN : RestartApi(trust)
  \/ \E s \in Sessions : bind_agent_v02_candidate_session(s)
  \/ \E c \in Turns, s \in Sessions : CheckTurn(c, s)
  \/ \E c \in Turns : create_command(c) \/ EndTurn(c)

Next == Authorities \/ Connectors \/ Clients

Spec == Init /\ [][Next]_vars

-----------------------------------------------------------------------------
(* Properties. *)

\* The stored rows have their columns' types and the one-active, one-open
\* indexes of the schema are never hit.
TypeOK ==
  /\ adm \in [Admissions -> [status : {"none", "open", "accepted", "revoked", "expired"},
                             elapsed : BOOLEAN, epoch : 0..MaxEpoch]]
  /\ evidence \in [Admissions -> 0..MaxEpoch] /\ touched \subseteq Admissions
  /\ epoch \in 1..MaxEpoch /\ frozen \in BOOLEAN
  /\ stamp \in [Stamps -> [status : {"none", "active", "closed"},
                           adm : Admissions \union {NoAdmission}, epoch : 0..MaxEpoch]]
  /\ cutover \in [Cutovers -> [status : {"none", "open", "closed"}, stamp : Stamps]]
  /\ daemon \in [Generations -> [row : {"none", "active", "stopped", "stale"},
                 pc : {"off", "built", "idle", "cleared", "working", "ended"}, trust : BOOLEAN]]
  /\ holder \in Generations \union {NoGeneration}
  /\ api_trust \in BOOLEAN
  /\ session \in [Sessions -> Admissions \union {NoAdmission, NoSession}]
  /\ turn \in [Turns -> [status : {"none", "checked", "queued", "leased", "delivered", "ended"},
                         session : Sessions \union {NoSession},
                         scope : Admissions \union {NoAdmission},
                         by : Generations \union {NoGeneration}]]
  /\ Cardinality({a \in Admissions : adm[a].status = "open"}) <= 1
  /\ Cardinality({x \in Stamps : stamp[x].status = "active"}) <= 1
  /\ Cardinality({x \in Cutovers : cutover[x].status = "open"}) <= 1
  /\ Cardinality({g \in Generations : daemon[g].row = "active"}) <= 1

\* A candidate window and a public release are never open together, however
\* opens, stamps, cutovers, expiries and closes interleave: the state both
\* triggers refuse as impossible.  A release is closed outside in: an open
\* cutover always belongs to an active stamp of an accepted admission.
OneAdmission ==
  \A x \in Cutovers : cutover[x].status = "open" =>
    /\ \A a \in Admissions : ~Open(a)
    /\ stamp[cutover[x].stamp].status = "active"
    /\ adm[stamp[cutover[x].stamp].adm].status = "accepted"

\* While a candidate window is open no turn from outside it is alive in the
\* ledger: open waits for the drain, and a turn that passed its readiness
\* check before the window opened is refused by the insert's trigger.
WindowClean ==
  \A a \in Admissions : Open(a) =>
    \A c \in Turns : Nonterminal(c) => session[turn[c].session] = a

\* Evidence from before a paper mutation opens nothing afterwards: no
\* acceptance, stamp, cutover or session binding names an admission opened
\* before the last write of a paper table.
StaleEvidenceOpensNothing ==
  [][/\ \A a \in touched : adm'[a].status = "accepted" => adm[a].status = "accepted"
     /\ \A x \in Stamps : stamp'[x].status = "active" /\ stamp'[x].adm \in touched
                            => stamp[x].status = "active"
     /\ \A x \in Cutovers : cutover'[x].status = "open"
                            /\ stamp[cutover'[x].stamp].adm \in touched
                            => cutover[x].status = "open"
     /\ \A s \in Sessions : session'[s] \in touched => session[s] = session'[s]]_vars

\* A turn enters the ledger only while its session's admission is the one in
\* force, although the check and the insert are two transactions.
TurnsInTheirAdmission ==
  [][\A c \in Turns : turn[c].status = "checked" /\ turn'[c].status = "queued" =>
       \A a \in Admissions : Open(a) \/ Released(a) => session[turn[c].session] = a]_vars

\* Under an open release a session registered for it may take a turn, as the
\* comment on the NULL scope in require_current_session_admission has it.
ReleaseSessionWritable ==
  \A s \in Sessions :
    ~api_trust /\ chat_write_ready /\ session[s] = release_admission
      => require_current_session_admission(s)
=============================================================================
