---------------------------- MODULE ActionAudit ----------------------------
(***************************************************************************)
(* What verify_log.py says of the actions and positions of a log (its      *)
(* checks 1 and 3, and the anchors of the run; src/tools/verify_log.py),   *)
(* of the log a Rerun records.                                             *)
(***************************************************************************)
EXTENDS Rerun

Numbers(type) == {e.req : e \in Events(type)}

ReqMissingResult == Numbers("action_request") \ Numbers("action_result")
ReqMissingRequest == Numbers("action_result") \ Numbers("action_request")

Duplicates(type) ==
    {log[j].req : j \in {l \in Places(log, type) :
        \E i \in Places(log, type) : i < l /\ log[i].req = log[l].req}}
DuplicateReqIds == Duplicates("action_request") \cup Duplicates("action_result")

ReqResultMismatch ==
    {e.req : e \in {r \in Events("action_result") :
        \E q \in Events("action_request") : q.req = r.req /\ q.what # r.what}}

DepositMissingPosition ==
    {e.req : e \in {r \in Events("action_result") :
        r.ok /\ r.what = "deposit" /\ r.ids = <<>>}}

\* a mutant of Created: liquidity that is added opens no position
CreatedByName(j) ==
    {cfg.primary} \cup UNION {ToSet(log[i].ids) : i \in {l \in 1 .. j - 1 :
        log[l].type = "position_created"}}

\* The positions known before event j: the primary of the configuration, and
\* those the log says were opened.
Created(j) ==
    {cfg.primary} \cup UNION {ToSet(log[i].ids) : i \in {l \in 1 .. j - 1 :
        log[l].type \in {"position_created", "position_liquidity_added"}}}

StateMissingCreation ==
    {log[j].ids[1] : j \in {l \in 1 .. Len(log) :
        /\ log[l].type \in {"position_observation", "position_withdrawn",
                            "position_closed"}
        /\ log[l].ids[1] \notin Created(l)}}

MissingRunAnchors ==
    {type \in {"run_started", "run_stopped"} :
        Cardinality(Places(log, type)) # 1}

Recording == phase \in {"running", "stopping"}

\* Every alarm of the verifier has its cause, and each cause its alarm: a
\* request without a result is a call that raised or was cut, a position
\* without an origin is an extra position the keeper was configured with, and
\* only a run that was killed has no end.
AuditExact ==
    ~Recording =>
        /\ ReqMissingResult = lost
        /\ StateMissingCreation \subseteq ToSet(cfg.extras)
        /\ phase = "stopped" => MissingRunAnchors = {}
        /\ phase = "dead" => MissingRunAnchors = {"run_stopped"}
        /\ {} = ReqMissingRequest \cup DuplicateReqIds \cup ReqResultMismatch
                  \cup DepositMissingPosition
=============================================================================
