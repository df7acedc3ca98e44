---------------------------- MODULE VpnContract ----------------------------
(***************************************************************************)
(* What the service's manager promises to the clients connected to it: the *)
(* state it is in and the signals one handler emits, in order.  Start and  *)
(* Stop answer commands; all but Die is what the manager may do by itself, *)
(* whatever OpenVPN, the network and the timers do.                        *)
(*                                                                         *)
(* OpenvpnManager implements this module (run manager_contract); the       *)
(* clients (VpnClients) are composed with it instead of with the manager.  *)
(***************************************************************************)
EXTENDS Sequences

VARIABLES
    state,      \* the state of the manager
    sent        \* the signals its last handler emitted

States  == {"Disconnected", "Connecting", "Connected"}
Signals == States \cup {"word", "ip", "error", "timedOut"}

\* A state is announced when it is entered, and only then.
Enter(st) == IF state = st THEN <<>> ELSE <<st>>

Says(st, signals) == state' = st /\ sent' = signals

\* Whatever the attempt in progress, it is left before a new one begins.  The
\* manager also does so by itself, when a daemon outlives its last chance.
Start == Says("Connecting", Enter("Disconnected") \o <<"Connecting">>)

Stop == Says("Disconnected", Enter("Disconnected"))

\* The manager or the daemon tries (again).
Retry == \E report \in {<<>>, <<"word">>} :
            Says("Connecting", Enter("Connecting") \o report)

\* The address, when the manager knows one, comes before the state.
Connect == \E address \in {<<>>, <<"ip">>} :
              Says("Connected", address \o Enter("Connected"))

\* Only an attempt times out, and it is over before clients hear of it.
TimeOut ==
    /\ state # "Disconnected"
    /\ Says("Disconnected", Enter("Connecting") \o <<"Disconnected", "timedOut">>)

\* The error is reported before or after the state, a word may precede both.
Fail == \/ Says("Disconnected", <<"error">> \o Enter("Disconnected"))
        \/ Says("Disconnected", Enter("Disconnected") \o <<"error">>)
        \/ Says("Disconnected", <<"word">> \o Enter("Disconnected") \o <<"error">>)

Report == \E s \in {<<>>, <<"word">>, <<"ip">>, <<"error">>} : Says(state, s)

\* The process dies without a word.
Die == Says("Disconnected", <<>>)

Spontaneous == Start \/ Stop \/ Retry \/ Connect \/ TimeOut \/ Fail \/ Report

Init == state = "Disconnected" /\ sent = <<>>

Next == Spontaneous \/ Die

Spec == Init /\ [][Next]_<<state, sent>>
=============================================================================
