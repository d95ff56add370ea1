----------------------------- MODULE PgDatabase -----------------------------
(***************************************************************************)
(* The pool of pg_database.cpp, with the count that the constructor and    *)
(* the destructor of pg_connection keep.  What a connection does for its   *)
(* caller is module PgConnection; here it succeeds or throws.              *)
(***************************************************************************)
EXTENDS Naturals, Sequences, FiniteSets

CONSTANTS Callers, m_max_connections

ASSUME PoolAssumption == m_max_connections \in Nat \ {0} /\ IsFiniteSet(Callers)

VARIABLES m_conn_count,
          m_idle,      \* connections that lie idle, all alike: their number
          m_waiting,   \* queue of callers
          events,      \* the loop's events that wake callers, in their order
          caller,      \* what each caller is doing
          overtaken,   \* a caller took a connection while another was woken
          overwritten  \* connections that were lost in a move assignment

poolVars == <<m_conn_count, m_idle, m_waiting, events, caller, overtaken, overwritten>>

PoolInit ==
  /\ m_conn_count = 0 /\ m_idle = 0
  /\ m_waiting = <<>> /\ events = <<>>
  /\ caller = [k \in Callers |-> "away"]
  /\ overtaken = FALSE /\ overwritten = 0

Becomes(k, pc) == caller' = [caller EXCEPT ![k] = pc]

\* get_connection, the three ways it may begin; the count is of connections
\* that exist, not of those that are being opened.
Open(k) ==
  /\ caller[k] = "away" /\ m_idle = 0 /\ m_conn_count < m_max_connections
  /\ Becomes(k, "connecting")
  /\ UNCHANGED <<m_conn_count, m_idle, m_waiting, events, overtaken, overwritten>>

Wait(k) ==
  /\ caller[k] = "away" /\ m_idle = 0 /\ m_conn_count >= m_max_connections
  /\ Becomes(k, "waiting")
  /\ m_waiting' = Append(m_waiting, k)
  /\ UNCHANGED <<m_conn_count, m_idle, events, overtaken, overwritten>>

TakeIdle(k) ==
  /\ caller[k] = "away" /\ m_idle > 0
  /\ m_idle' = m_idle - 1
  /\ Becomes(k, "using")
  /\ overtaken' = (overtaken \/ events # <<>>)
  /\ UNCHANGED <<m_conn_count, m_waiting, events, overwritten>>

\* client_socket::connect returns, or throws to the caller.
Connected(k) ==
  /\ caller[k] = "connecting"
  /\ \/ Becomes(k, "init") /\ m_conn_count' = m_conn_count + 1
     \/ Becomes(k, "away") /\ UNCHANGED m_conn_count
  /\ UNCHANGED <<m_idle, m_waiting, events, overtaken, overwritten>>

Drop_Fault(k) ==
  /\ caller[k] \in {"init", "using"}
  /\ Becomes(k, "away")
  /\ UNCHANGED <<m_conn_count, m_idle, m_waiting, events, overtaken, overwritten>>

\* pg_connection::init returns.
Ready(k) ==
  /\ caller[k] = "init"
  /\ Becomes(k, "using")
  /\ UNCHANGED <<m_conn_count, m_idle, m_waiting, events, overtaken, overwritten>>

\* init, or the caller's use of its connection, throws, and the connection is
\* destroyed.  No caller is woken.
Drop(k) ==
  /\ caller[k] \in {"init", "using"}
  /\ Becomes(k, "away")
  /\ m_conn_count' = m_conn_count - 1
  /\ UNCHANGED <<m_idle, m_waiting, events, overtaken, overwritten>>

Release_Fault(k) ==
  /\ caller[k] = "using"
  /\ Becomes(k, "away")
  /\ m_idle' = m_idle + 1
  /\ IF m_waiting = <<>> \/ m_idle > 0 THEN UNCHANGED <<m_waiting, events>>
     ELSE /\ events' = Append(events, Head(m_waiting))
          /\ m_waiting' = Tail(m_waiting)
  /\ UNCHANGED <<m_conn_count, overtaken, overwritten>>

Release(k) ==
  /\ caller[k] = "using"
  /\ Becomes(k, "away")
  /\ m_idle' = m_idle + 1
  /\ IF m_waiting = <<>> THEN UNCHANGED <<m_waiting, events>>
     ELSE /\ events' = Append(events, Head(m_waiting))
          /\ m_waiting' = Tail(m_waiting)
  /\ UNCHANGED <<m_conn_count, overtaken, overwritten>>

\* A connection is assigned to a variable that holds another one, as by a caller
\* that gets its next connection into the same variable: k has the variable and
\* j the connection that is moved.  The socket of the other one is closed, and
\* it is still counted.  (Moved into a new or an empty variable, a connection
\* stays one: so it goes from get_connection to its caller, and by release.)
Overwrite(k, j) ==
  /\ k # j /\ caller[k] = "using" /\ caller[j] = "using"
  /\ Becomes(j, "away")
  /\ overwritten' = overwritten + 1
  /\ UNCHANGED <<m_conn_count, m_idle, m_waiting, events, overtaken>>

\* The loop delivers an event: the waiter takes the front of m_idle without
\* looking, which is undefined where m_idle is empty.
Woken ==
  LET k == Head(events)
  IN  /\ events # <<>>
      /\ events' = Tail(events)
      /\ IF m_idle > 0 THEN m_idle' = m_idle - 1 /\ Becomes(k, "using")
         ELSE Becomes(k, "undefined") /\ UNCHANGED m_idle
      /\ UNCHANGED <<m_conn_count, m_waiting, overtaken, overwritten>>

Defined == \A k \in Callers : caller[k] # "undefined"

Proceed(k) == Connected(k) \/ Ready(k) \/ Release(k)

\* After the undefined behaviour nothing more is said.
PoolNext ==
  /\ Defined
  /\ \/ Woken
     \/ \E k \in Callers : Open(k) \/ Wait(k) \/ TakeIdle(k) \/ Proceed(k) \/ Drop(k)
     \/ \E k, j \in Callers : Overwrite(k, j)

PoolSpec == PoolInit /\ [][PoolNext]_poolVars

\* A connect and an init come back, a caller releases its connection in the
\* end or drops it, and the loop delivers its events.
PoolFairness ==
  WF_poolVars(Woken) /\ \A k \in Callers : WF_poolVars(Proceed(k))

-----------------------------------------------------------------------------
(* Properties *)

Holding == {k \in Callers : caller[k] \in {"init", "using"}}

\* The count is that of the connections that exist, through releases, moves
\* into empty variables and exceptions, and of those that were lost in a move
\* assignment, which the code never takes off.  It is what decides between
\* opening a connection and waiting.
CountExact == m_conn_count = m_idle + Cardinality(Holding) + overwritten

\* Connections lie idle for callers that have been woken and for no one else
\* while callers wait; a woken caller finds one, unless a caller that came
\* later took it before the loop delivered the event.
IdleForWoken == /\ m_waiting # <<>> => m_idle <= Len(events)
                /\ ~overtaken => m_idle >= Len(events) /\ Defined

\* A caller that waits is served, whoever else comes and goes, unless a
\* connection is lost, to an exception or in a move assignment: nobody is woken
\* for it.
Served ==
  \A k \in Callers :
    caller[k] = "waiting" ~>
      caller[k] # "waiting" \/ m_conn_count < m_max_connections
                             \/ overwritten > 0 \/ ~Defined
=============================================================================
