-------------------------------- MODULE Core --------------------------------
(***************************************************************************)
(* The values of ports: core.c, with what ports.c, expr.c, virtual.c and   *)
(* api.c do to the fields it works on.                                     *)
(*                                                                         *)
(* core_poll() reads the ports, and evaluates the expressions of those     *)
(* that depend on a changed one.  Everything between two callbacks of the  *)
(* SDK is one step: no callback interrupts another.                        *)
(*                                                                         *)
(* Bit masks of slots are sets of ports: a port keeps its slot, and the    *)
(* reuse of the slot of a removed port is left out.  So is a peripheral    *)
(* that gives an id to a port of another kind than before.  Expressions    *)
(* have no time and no state, ports no transforms, and writes to hardware  *)
(* succeed.                                                                *)
(* The events that changes raise are in Sessions and Webhooks, the saving  *)
(* of values in Config.                                                    *)
(***************************************************************************)
EXTENDS Integers, Sequences, FiniteSets

CONSTANTS
    Inputs,         \* peripheral ports that are not writable
    Outputs,        \* peripheral ports that are
    VirtualPorts,   \* ids of virtual ports; always writable
    SlowPorts,      \* their sampling_interval is longer than a poll takes
    PersistedPorts,
    Exprs,          \* the expressions that requests give
    NoExpr,         \* NULL
    Sequences,      \* the sequences that requests give
    Undefined,      \* not a number
    Activities,     \* bound: what else may happen, see the actions
    MaxRequests     \* bound: requests and changes of inputs in a behaviour

Ports    == Inputs \cup Outputs \cup VirtualPorts
Writable == Outputs \cup VirtualPorts
Values   == {0, 1}
Reading  == Values \cup {Undefined}

\* $p and AND($p, $q) are the conjunction of their ports, NOT($p) is negated.
Expr     == [negated : BOOLEAN, args : SUBSET Ports]
Sequence == [values : Seq(Values), pos : Nat, repeat : Nat]

\* A port without a sequence: sequence_pos is negative, its memory is freed.
NoSequence == [values |-> << >>, pos |-> 0, repeat |-> 0]

ASSUME CoreAssumption ==
    /\ IsFiniteSet(Ports)
    /\ Inputs \cap Outputs = {} /\ (Inputs \cup Outputs) \cap VirtualPorts = {}
    /\ PersistedPorts \subseteq Ports /\ SlowPorts \subseteq Ports
    /\ Exprs \subseteq Expr /\ NoExpr \notin Exprs
    /\ Sequences \subseteq Sequence
    /\ \A s \in Sequences : s.pos = 0 /\ s.values # << >>
    /\ Undefined \notin Values /\ MaxRequests \in Nat
    /\ Activities \subseteq {"value", "attributes", "enabled", "virtual",
                             "sequence", "restart", "ota", "peripherals"}

VARIABLES
    ports,              \* all_ports
    enabled,            \* those with PORT_FLAG_ENABLED
    sexpr, expr,        \* the text of the expression, and the parsed one
    change_dep_mask,    \* the bits set in the mask of a port
    last_read_value,
    change_reason,
    hw_value,           \* what read_value() of the port returns
    sequence,
    change_mask,        \* as core_poll() finds it; it sets it to 0
    force_eval_expressions_mask,
    polling_enabled,
    downloading,        \* ota_current_state() == OTA_STATE_DOWNLOADING
    requests,           \* number of requests and changes of inputs so far
    stale, deaf         \* history: ports that the code lets depart from their
                        \* expressions, until these are evaluated again; ports
                        \* whose expression names a port that was made again and
                        \* whose mask has not been rebuilt since

exprs  == <<sexpr, expr, change_dep_mask>>
values == <<last_read_value, hw_value, change_reason>>
masks  == <<change_mask, force_eval_expressions_mask>>
modes  == <<polling_enabled, downloading>>
vars   == <<ports, enabled, exprs, values, sequence, masks, modes, requests, stale, deaf>>

\* The types of the variables.  A port that is not registered has the fields
\* that port_new() gives it.
TypeOK ==
    /\ ports \subseteq Ports /\ enabled \subseteq ports
    /\ sexpr \in [Ports -> Exprs \cup {NoExpr}]
    /\ expr \in [Ports -> Exprs \cup {NoExpr}]
    /\ change_dep_mask \in [Ports -> SUBSET Ports]
    /\ last_read_value \in [Ports -> Reading] /\ hw_value \in [Ports -> Reading]
    /\ change_reason \in [Ports -> {"native", "api", "sequence", "expression"}]
    /\ sequence \in [Ports -> Sequence]
    /\ change_mask \subseteq Ports /\ force_eval_expressions_mask \subseteq Ports
    /\ polling_enabled \in BOOLEAN /\ downloading \in BOOLEAN
    /\ requests \in 0..MaxRequests /\ stale \subseteq Ports /\ deaf \subseteq Ports

-----------------------------------------------------------------------------
(* Expressions *)

\* The ports an expression names, registered or not.
Args(e) == IF e = NoExpr THEN {} ELSE e.args

\* The value of e when the enabled ports are en and last_read_value is v.
expr_eval(e, en, v) ==
    IF \E p \in e.args : p \notin en \/ v[p] = Undefined
    THEN Undefined
    ELSE IF (\A p \in e.args : v[p] = 1) = e.negated THEN 0 ELSE 1

\* The dependency mask of each port when the parsed expressions are ex and
\* the registered ports P.
DepMask(ex, P) == [p \in Ports |-> Args(ex[p]) \cap P]

\* The ports visited from e when p itself is not entered and the parsed
\* expressions are ex.
Visited(ex, e, p) ==
    LET within[n \in Nat] ==
            IF n = 0 THEN Args(e) \ {p}
            ELSE within[n - 1] \cup
                 UNION {Args(ex[q]) \ {p} : q \in within[n - 1]}
    IN  within[Cardinality(Ports)]

\* Mutant: the search does not go further than the expression.
LoopsThrough_Shallow(ex, e, p) == \E q \in Args(e) \ {p} : p \in Args(ex[q])

\* expr_check_loops(e, p) > 1: p is met again, deeper than in e itself.
LoopsThrough(ex, e, p) == \E q \in Visited(ex, e, p) : p \in Args(ex[q])

-----------------------------------------------------------------------------
(* The start, with any expressions saved for the outputs, and what changes *)
(* outside of the program                                                  *)

Init ==
    /\ ports = Inputs \cup Outputs /\ enabled = ports
    /\ sexpr \in [Ports -> Exprs \cup {NoExpr}]
    /\ \A p \in Ports \ Outputs : sexpr[p] = NoExpr
    /\ expr = sexpr
    /\ change_dep_mask = DepMask(expr, ports)
    /\ hw_value = [p \in Ports |-> IF p \in Outputs THEN 0 ELSE Undefined]
    /\ last_read_value = hw_value
    /\ change_reason = [p \in Ports |-> "native"]
    /\ sequence = [p \in Ports |-> NoSequence]
    /\ change_mask = Ports
    /\ force_eval_expressions_mask = {p \in Ports : sexpr[p] # NoExpr}
    /\ polling_enabled = FALSE /\ downloading = FALSE
    /\ requests = 0 /\ stale = {} /\ deaf = {}

\* A reset once the settings are saved, and what ports_init() makes of the
\* ports: an output starts with its persisted value, or else with the value v
\* of its peripheral; a virtual port only with a persisted one.
Restart ==
    /\ "restart" \in Activities /\ requests < MaxRequests
    /\ \E v \in [Outputs -> Values] :
       LET starts == [p \in Ports |->
               IF p \in Inputs \/ p \notin ports THEN Undefined
               ELSE IF p \in PersistedPorts THEN last_read_value[p]
               ELSE IF p \in Outputs THEN v[p] ELSE Undefined]
       IN  /\ last_read_value' = starts
           /\ hw_value' = [p \in Ports |->
                  IF p \in Inputs THEN hw_value[p]
                  ELSE IF p \in enabled /\ starts[p] # Undefined THEN starts[p]
                  ELSE IF p \in Outputs \cap ports THEN v[p] ELSE Undefined]
    /\ expr' = [p \in Ports |-> IF p \in enabled THEN sexpr[p] ELSE NoExpr]
    /\ change_dep_mask' = DepMask(expr', ports)
    /\ change_reason' = [p \in Ports |-> "native"]
    /\ sequence' = [p \in Ports |-> NoSequence]
    /\ change_mask' = Ports
    /\ force_eval_expressions_mask' = {p \in enabled : sexpr[p] # NoExpr}
    /\ polling_enabled' = FALSE /\ downloading' = FALSE
    /\ requests' = requests + 1 /\ stale' = {} /\ deaf' = {}
    /\ UNCHANGED <<ports, enabled, sexpr>>

\* The first connection to Wi-Fi, or the timer that waits for it.
EnablePolling ==
    /\ ~polling_enabled /\ polling_enabled' = TRUE
    /\ UNCHANGED <<ports, enabled, exprs, values, sequence, masks, downloading,
                   requests, stale, deaf>>

OtaChanges ==
    /\ "ota" \in Activities
    /\ \/ ~downloading /\ requests < MaxRequests /\ requests' = requests + 1
       \/ downloading /\ UNCHANGED requests
    /\ downloading' = ~downloading
    /\ UNCHANGED <<ports, enabled, exprs, values, sequence, masks,
                   polling_enabled, stale, deaf>>

\* The hardware changes the value that an input reads.
InputChanges(p, v) ==
    /\ p \in Inputs /\ v # hw_value[p]
    /\ requests < MaxRequests /\ requests' = requests + 1
    /\ hw_value' = [hw_value EXCEPT ![p] = v]
    /\ UNCHANGED <<ports, enabled, exprs, last_read_value, change_reason,
                   sequence, masks, modes, stale, deaf>>

-----------------------------------------------------------------------------
(* core_poll() *)

\* The ports whose value is read and found changed, when those in due are at
\* the end of their sampling_interval.
Changed(due) == {p \in enabled \cap due :
                    hw_value[p] # Undefined /\ hw_value[p] # last_read_value[p]}

\* Mutant: a port that depends on itself is evaluated after its own writes.
Skipped_Never(p, mask, byExpression) == FALSE

\* handle_value_changes() skips a port that depends on itself, and whose own
\* expression made the change.
Skipped(p, mask, byExpression) ==
    p \in mask /\ p \in byExpression /\ p \in change_dep_mask[p]

\* Mutant: the mask of forced evaluations is cleared but not used.
Evaluated_NotForced(mask, byExpression) ==
    {p \in enabled \cap Writable :
        /\ expr[p] # NoExpr
        /\ ~Skipped(p, mask, byExpression)
        /\ mask \cap change_dep_mask[p] # {}}

Evaluated(mask, byExpression) ==
    {p \in enabled \cap Writable :
        /\ expr[p] # NoExpr
        /\ ~Skipped(p, mask, byExpression)
        /\ \/ mask \cap change_dep_mask[p] # {}
           \/ p \in force_eval_expressions_mask}

\* The ports in due are read, then the expressions evaluated; `stale` loses
\* those evaluated, and gets those whose last_read_value already equals the
\* result although the hardware has been given another value since.
Poll(due) ==
    LET changed      == Changed(due)
        byExpression == {p \in changed : change_reason[p] = "expression"}
        read      == [p \in Ports |-> IF p \in changed THEN hw_value[p]
                                                       ELSE last_read_value[p]]
        evaluated == Evaluated(change_mask \cup changed, byExpression)
        result(p) == expr_eval(expr[p], enabled, read)
        written   == {p \in evaluated : result(p) \notin {Undefined, read[p]}}
    IN  /\ last_read_value' = read
        /\ hw_value' = [p \in Ports |-> IF p \in written THEN result(p)
                                                         ELSE hw_value[p]]
        /\ change_reason' = [p \in Ports |->
               IF p \in written THEN "expression"
               ELSE IF p \in changed THEN "native" ELSE change_reason[p]]
        /\ change_mask' = {} /\ force_eval_expressions_mask' = {}
        /\ stale' = (stale \ evaluated) \cup
               {p \in evaluated : result(p) = read[p] /\ hw_value[p] # read[p]}

core_poll(due) ==
    /\ IF downloading THEN UNCHANGED <<values, masks, stale>> ELSE Poll(due)
    /\ UNCHANGED <<ports, enabled, exprs, sequence, modes, requests, deaf>>

\* Any of the slow ports may be due.
Due == {(Ports \ SlowPorts) \cup S : S \in SUBSET SlowPorts}

\* The handler of TASK_ID_POLL, which has posted itself again.
PollTask(due) == polling_enabled /\ core_poll(due)

\* GET /ports/id/value polls too, whether polling is enabled or not.
GetPortValue(due) == "value" \in Activities /\ core_poll(due)

-----------------------------------------------------------------------------
(* The requests of the API.  One with several attributes has the effect of *)
(* one request for each, but for what an error leaves out.                 *)

Request == requests < MaxRequests /\ requests' = requests + 1

\* port_write_value(p, v, reason)
Write(p, v, reason) ==
    /\ hw_value' = [hw_value EXCEPT ![p] = v]
    /\ change_reason' = [change_reason EXCEPT ![p] = reason]

\* port_sequence_cancel(p), if p has a sequence
CancelSequence(p) == sequence' = [sequence EXCEPT ![p] = NoSequence]

\* The end of api_patch_port(): an enabled port is given its last value once
\* more.  Otherwise a port in `updated` has had update_port_expression().
Rewrites(p, en) == p \in en \cap Writable /\ last_read_value[p] # Undefined

EndOfPatch(p, en, updated) ==
    IF Rewrites(p, en)
    THEN Write(p, last_read_value[p], "native")
    ELSE /\ change_reason' = [change_reason EXCEPT
                ![p] = IF p \in updated THEN "native" ELSE @]
         /\ UNCHANGED hw_value

\* The ports that EndOfPatch() may make depart from their expression.
Rewritten(p, en) ==
    IF Rewrites(p, en) /\ last_read_value[p] # hw_value[p] THEN {p} ELSE {}

\* An attribute that does not matter here, as the display name.
PatchAttributes(p) ==
    /\ "attributes" \in Activities /\ p \in ports /\ Request
    /\ EndOfPatch(p, enabled, {})
    /\ stale' = stale \cup Rewritten(p, enabled)
    /\ UNCHANGED <<ports, enabled, exprs, last_read_value, sequence, masks, modes, deaf>>

\* port_enable(): ports whose expressions name p get a value for it, which
\* is no change.
Enable(p) ==
    /\ "enabled" \in Activities /\ p \in ports \ enabled /\ Request
    /\ enabled' = enabled \cup {p}
    /\ expr' = [expr EXCEPT ![p] = sexpr[p]]
    /\ change_dep_mask' = [change_dep_mask EXCEPT ![p] = Args(sexpr[p]) \cap ports]
    /\ LET updated == IF sexpr[p] # NoExpr THEN {p} ELSE {}
       IN  /\ force_eval_expressions_mask' = force_eval_expressions_mask \cup updated
           /\ EndOfPatch(p, enabled', updated)
    /\ stale' = stale \cup Rewritten(p, enabled')
                      \cup {q \in Ports : p \in Args(expr[q])}
    /\ deaf' = deaf \ {p}
    /\ UNCHANGED <<ports, sexpr, last_read_value, sequence, change_mask, modes>>

\* Mutant: the sequence goes on.
Disable_KeepsSequence(p) ==
    /\ "enabled" \in Activities /\ p \in enabled /\ Request
    /\ enabled' = enabled \ {p}
    /\ expr' = [expr EXCEPT ![p] = NoExpr]
    /\ UNCHANGED <<ports, sexpr, change_dep_mask, values, sequence, masks, modes, stale, deaf>>

\* port_disable()
Disable(p) ==
    /\ "enabled" \in Activities /\ p \in enabled /\ Request
    /\ enabled' = enabled \ {p}
    /\ expr' = [expr EXCEPT ![p] = NoExpr]
    /\ CancelSequence(p)
    /\ UNCHANGED <<ports, sexpr, change_dep_mask, values, masks, modes, stale, deaf>>

\* The old expression and the sequence are gone before the new one is checked.
PatchExpression(p, e) ==
    /\ p \in ports \cap Writable /\ Request
    /\ CancelSequence(p)
    /\ IF e # NoExpr /\ LoopsThrough(expr, e, p)
       THEN /\ sexpr' = [sexpr EXCEPT ![p] = NoExpr]
            /\ expr' = [expr EXCEPT ![p] = NoExpr]
            /\ UNCHANGED <<change_dep_mask, values, force_eval_expressions_mask, stale, deaf>>
       ELSE /\ sexpr' = [sexpr EXCEPT ![p] = e]
            /\ expr' = [expr EXCEPT ![p] = IF p \in enabled THEN e ELSE NoExpr]
            /\ change_dep_mask' = [change_dep_mask EXCEPT
                   ![p] = IF expr'[p] # NoExpr THEN Args(e) \cap ports ELSE @]
            /\ force_eval_expressions_mask' = force_eval_expressions_mask \cup {p}
            /\ EndOfPatch(p, enabled, {p})
            /\ stale' = stale \cup Rewritten(p, enabled)
            /\ deaf' = deaf \ {p}
            /\ UNCHANGED last_read_value
    /\ UNCHANGED <<ports, enabled, change_mask, modes>>

\* A port with an expression takes values too.
PatchValue(p, v) ==
    /\ "value" \in Activities /\ p \in enabled \cap Writable /\ Request
    /\ Write(p, v, "api")
    /\ stale' = stale \cup (IF v # hw_value[p] THEN {p} ELSE {})
    /\ UNCHANGED <<ports, enabled, exprs, last_read_value, sequence, masks, modes, deaf>>

\* The running sequence is gone before the new one is checked: s is
\* NoSequence when it is refused.
PatchSequence(p, s) ==
    /\ "sequence" \in Activities
    /\ p \in enabled \cap Writable /\ expr[p] = NoExpr /\ Request
    /\ sequence' = [sequence EXCEPT ![p] = s]
    /\ UNCHANGED <<ports, enabled, exprs, values, masks, modes, stale, deaf>>

\* Where on_sequence_timer() goes in a sequence s: to the next value, from the
\* end to the first one.
Ended(s)   == s.pos = Len(s.values)
NextPos(s) == IF Ended(s) THEN 1 ELSE s.pos + 1
Advanced(s) ==
    [values |-> s.values, pos |-> NextPos(s),
     repeat |-> IF Ended(s) /\ s.repeat > 1 THEN s.repeat - 1 ELSE s.repeat]

\* on_sequence_timer(): the sequence ends when it has been repeated enough
\* (`repeat` is 0 for ever).
OnSequenceTimer(p) ==
    LET s == sequence[p]
    IN  /\ s # NoSequence
        /\ \/ /\ Ended(s) /\ s.repeat = 1
              /\ CancelSequence(p) /\ UNCHANGED values
           \/ /\ ~(Ended(s) /\ s.repeat = 1)
              /\ sequence' = [sequence EXCEPT ![p] = Advanced(s)]
              /\ Write(p, s.values[NextPos(s)], "sequence")
              /\ UNCHANGED last_read_value
        /\ UNCHANGED <<ports, enabled, exprs, masks, modes, requests, stale, deaf>>

\* Mutant: the masks are not rebuilt.
AddPort_KeepsMasks(p) ==
    /\ "virtual" \in Activities /\ p \in VirtualPorts \ ports /\ Request
    /\ ports' = ports \cup {p} /\ enabled' = enabled \cup {p}
    /\ UNCHANGED <<exprs, values, sequence, masks, modes, stale, deaf>>

\* A new virtual port is enabled and has no value.
AddPort(p) ==
    /\ "virtual" \in Activities /\ p \in VirtualPorts \ ports /\ Request
    /\ ports' = ports \cup {p} /\ enabled' = enabled \cup {p}
    /\ change_dep_mask' = DepMask(expr, ports')
    /\ stale' = stale \cup deaf /\ deaf' = {}
    /\ UNCHANGED <<sexpr, expr, values, sequence, masks, modes>>

\* The ports in gone are cleaned up, unregistered and freed; the peripherals
\* then make the ports in made.  A new port is not enabled, and an output has
\* the value v that its peripheral starts with.
Replace(gone, made, v) ==
    /\ ports' = (ports \ gone) \cup made /\ enabled' = enabled \ gone
    /\ sexpr' = [p \in Ports |-> IF p \in gone THEN NoExpr ELSE sexpr[p]]
    /\ expr' = [p \in Ports |-> IF p \in gone THEN NoExpr ELSE expr[p]]
    /\ last_read_value' =
           [p \in Ports |-> IF p \in gone THEN Undefined ELSE last_read_value[p]]
    /\ hw_value' = [p \in Ports |-> IF p \in made \cap Outputs THEN v[p]
                                    ELSE IF p \in gone \ Inputs THEN Undefined
                                    ELSE hw_value[p]]
    /\ change_reason' =
           [p \in Ports |-> IF p \in gone THEN "native" ELSE change_reason[p]]
    /\ sequence' = [p \in Ports |-> IF p \in gone THEN NoSequence ELSE sequence[p]]
    /\ UNCHANGED <<masks, modes>>

NoStart == [p \in Outputs |-> 0]

\* DELETE /ports/id
DeletePort(p) ==
    /\ "virtual" \in Activities /\ p \in VirtualPorts \cap ports /\ Request
    /\ Replace({p}, {}, NoStart)
    /\ change_dep_mask' = DepMask(expr', ports')
    /\ stale' = (stale \cup deaf) \ {p} /\ deaf' = {}

\* PUT /peripherals: all ports but the virtual ones go, the masks are rebuilt,
\* and only then the new peripherals make their ports, which no mask gets.
\* `made` has fewer ports when a field of the request is refused.
PutPeripherals(made, v) ==
    LET gone == ports \ VirtualPorts
    IN  /\ "peripherals" \in Activities /\ Request
        /\ Replace(gone, made, v)
        /\ change_dep_mask' = DepMask(expr', ports \ gone)
        /\ stale' = (stale \cup deaf) \ gone
        /\ deaf' = {p \in Ports : Args(expr'[p]) \cap made # {}}

\* PUT /ports: all ports go, and the peripherals make theirs again.  What the
\* request then restores has the effect of a POST or PATCH for each port.
PutPorts(v) ==
    /\ "peripherals" \in Activities /\ Request
    /\ Replace(ports, ports \ VirtualPorts, v)
    /\ change_dep_mask' = [p \in Ports |-> {}]
    /\ stale' = {} /\ deaf' = {}

Next ==
    \/ Restart \/ EnablePolling \/ OtaChanges
    \/ \E due \in Due : PollTask(due) \/ GetPortValue(due)
    \/ \E p \in Ports :
          \/ \E v \in Reading : InputChanges(p, v)
          \/ PatchAttributes(p) \/ Enable(p) \/ Disable(p)
          \/ \E e \in Exprs \cup {NoExpr} : PatchExpression(p, e)
          \/ \E v \in Values : PatchValue(p, v)
          \/ \E s \in Sequences \cup {NoSequence} : PatchSequence(p, s)
          \/ OnSequenceTimer(p) \/ AddPort(p) \/ DeletePort(p)
    \/ \E v \in [Outputs -> Values] :
          PutPorts(v) \/ \E made \in SUBSET (Inputs \cup Outputs) : PutPeripherals(made, v)

Spec == Init /\ [][Next]_vars

\* Timers fire, a download ends, the task posts itself for ever and time
\* passes, so each slow port is due again and again.
Fairness ==
    /\ WF_vars(EnablePolling) /\ WF_vars(downloading /\ OtaChanges)
    /\ \A p \in Ports : WF_vars(OnSequenceTimer(p))
    /\ WF_vars(PollTask(Ports))
    /\ \A p \in SlowPorts : WF_vars(\E due \in Due : p \in due /\ PollTask(due))

FairSpec == Spec /\ Fairness

-----------------------------------------------------------------------------
(* Properties *)

\* The mask of a port that has an expression holds the ports it names that are
\* registered and no others, however ports came and went since
\* (port_rebuild_change_dep_mask() in api.c and ports.c): a missing bit is a
\* change that is never noticed, one too many that of another port.  Only what
\* PUT /peripherals makes after it has rebuilt the masks is missing from them,
\* until POST, DELETE or the port's own PATCH rebuilds them again.
DepsCurrent ==
    \A p \in Ports : expr[p] # NoExpr =>
        /\ change_dep_mask[p] \subseteq Args(expr[p]) \cap ports
        /\ p \notin deaf => change_dep_mask[p] = Args(expr[p]) \cap ports

\* What the comment "Rebuild deps mask for all ports, as the new port might be
\* among their deps" of api_post_ports() asks of every new port, without the
\* exception of PUT /peripherals.
DepsComplete ==
    \A p \in Ports : expr[p] # NoExpr => change_dep_mask[p] = Args(expr[p]) \cap ports

\* A sequence runs only on an enabled port without expression, so that the
\* two never write the same port in turns: each operation that gives a port
\* an expression, disables or removes it cancels the sequence.
SequenceExclusive ==
    \A p \in Ports :
        sequence[p] # NoSequence => p \in enabled \cap Writable /\ expr[p] = NoExpr

\* Ports whose hardware has to have the value of their expression: it
\* has one, does not depend on the port itself, and its evaluation is not due.
Following ==
    {p \in enabled \cap Writable :
        /\ expr[p] # NoExpr /\ p \notin Args(expr[p])
        /\ p \notin force_eval_expressions_mask
        /\ expr_eval(expr[p], enabled, last_read_value) # Undefined}

AsExpression(p) == hw_value[p] = expr_eval(expr[p], enabled, last_read_value)

\* Between two polls, an expression has been evaluated with the values last
\* read and its port written, except where `stale` says that the code lets
\* it depart (core_poll(), handle_value_changes()) and where a port is `deaf`
\* to the ports that PUT /peripherals has made.
ExpressionsFollow == \A p \in Following \ (stale \cup deaf) : AsExpression(p)

\* What the comment "Evaluate a port's expression when one of its deps
\* changed" of core.c promises, with no exception.
ExpressionsAlwaysFollow == \A p \in Following : AsExpression(p)

\* Some ports make a loop: each depends on another one of them.
LoopIn(ex) == \E S \in SUBSET Ports :
    S # {} /\ \A p \in S : \E q \in S \ {p} : q \in Args(ex[p])

Loop == LoopIn(expr)

\* Where no other port is in a loop yet, expr_check_loops() finds just the
\* expressions that close one: it misses none, though it visits no port
\* twice, and refuses none for a port that is in its own expression.  This is
\* about all expressions, not the current ones: the first states are enough.
LoopCheckExact == requests = 0 =>
    \A ex \in [Ports -> [negated : {FALSE}, args : SUBSET Ports]] : \A p \in Ports :
        ~LoopIn([ex EXCEPT ![p] = NoExpr])
            => (LoopsThrough([ex EXCEPT ![p] = NoExpr], ex[p], p) <=> LoopIn(ex))

\* Ports whose expressions make no loop settle: what they read becomes what
\* is written to them, so that nothing is written any more.  A port that
\* depends on itself settles because handle_value_changes() skips it.  The
\* sequences of the run come to an end.
Settled == \A p \in enabled : hw_value[p] \in {last_read_value[p], Undefined}

PortsSettle == <>[]~Loop => <>[]Settled
=============================================================================
