------------------------------ MODULE MetalClock ------------------------------
(***************************************************************************)
(* A clock and the callbacks that run before and after its rate changes    *)
(* (freedom-metal, metal/clock.h).  A callback is its own list cell, so    *)
(* the lists live in the callbacks' _next fields.                          *)
(***************************************************************************)
EXTENDS Integers, Sequences, FiniteSets

CONSTANTS
  Callback,    \* the clients, each with a pre- and a post-rate-change callback
  Rates,       \* what the vtable's set_rate_hz may select
  NULL

ClientsAssumption == IsFiniteSet(Callback) /\ NULL \notin Callback

VARIABLES
  list,        \* per kind: the head of the list and the callbacks' _next
  registered,  \* per kind: the callbacks in the order of their registration
  rate,        \* the clock's rate
  at, cur,     \* where metal_clock_set_rate_hz is, and its current callback
  called       \* per kind: the callbacks that this rate change has called

vars == <<list, registered, rate, at, cur, called>>

Kind == {"pre", "post"}
Link == Callback \cup {NULL}

-----------------------------------------------------------------------------

\* The cell that i steps along the list lead to (NULL stays NULL).
Walk(l) ==
  LET w[i \in 0 .. Cardinality(Callback)] ==
        IF i = 0 THEN l.head ELSE IF w[i - 1] = NULL THEN NULL ELSE l.next[w[i - 1]]
  IN w
Cells(l) == {Walk(l)[i] : i \in DOMAIN Walk(l)} \ {NULL}
Tails(l) == {c \in Cells(l) : l.next[c] = NULL}

\* Slip: the callback is put before the others.
AppendTo_first(l, cb) == [l EXCEPT !.head = cb, !.next[cb] = l.head]

\* _metal_clock_append_to_callbacks: cut cb, walk to the tail, hang cb there.
AppendTo(l, cb) ==
  LET cut == [l EXCEPT !.next[cb] = NULL] IN
  IF l.head = NULL THEN [cut EXCEPT !.head = cb]
  ELSE [cut EXCEPT !.next[CHOOSE c \in Tails(cut) : TRUE] = cb]

\* metal_clock_register_{pre,post}_rate_change_callback, once for each client.
register(k, cb) ==
  /\ at = "idle"
  /\ cb \notin {registered[k][i] : i \in DOMAIN registered[k]}
  /\ list' = [list EXCEPT ![k] = AppendTo(@, cb)]
  /\ registered' = [registered EXCEPT ![k] = Append(@, cb)]
  /\ UNCHANGED <<rate, at, cur, called>>

\* metal_clock_set_rate_hz is called...
set_rate_hz ==
  /\ at = "idle"
  /\ at' = "pre" /\ cur' = list["pre"].head
  /\ called' = [k \in Kind |-> <<>>]
  /\ UNCHANGED <<list, registered, rate>>

\* ...calls one callback of a list...
CallOne(k) ==
  /\ at = k /\ cur # NULL
  /\ cur' = list[k].next[cur]
  /\ called' = [called EXCEPT ![k] = Append(@, cur)]
  /\ UNCHANGED <<list, registered, rate, at>>

\* ...lets the driver select a rate ("which could be anything")...
vtable_set_rate_hz ==
  /\ at = "pre" /\ cur = NULL
  /\ rate' \in Rates
  /\ at' = "post" /\ cur' = list["post"].head
  /\ UNCHANGED <<list, registered, called>>

\* ...and returns.
Return ==
  /\ at = "post" /\ cur = NULL
  /\ at' = "idle"
  /\ UNCHANGED <<list, registered, rate, cur, called>>

-----------------------------------------------------------------------------

Init ==
  /\ list = [k \in Kind |-> [head |-> NULL, next |-> [c \in Callback |-> NULL]]]
  /\ registered = [k \in Kind |-> <<>>]
  /\ rate \in Rates
  /\ at = "idle" /\ cur = NULL
  /\ called = [k \in Kind |-> <<>>]

Change == (\E k \in Kind : CallOne(k)) \/ vtable_set_rate_hz \/ Return
Next == (\E k \in Kind, cb \in Callback : register(k, cb)) \/ set_rate_hz \/ Change
Safe == Init /\ [][Next]_vars

-----------------------------------------------------------------------------
(* Properties. *)

\* The cells of a list are the registered callbacks, no more and no fewer: no
\* registration cuts another one off (clock.h:61-79).
ListsHoldRegistered ==
  \A k \in Kind : Cells(list[k]) = {registered[k][i] : i \in DOMAIN registered[k]}

\* A rate change calls every registered callback once, in the order of their
\* registration, the ones before it before and the others after (clock.h:125-136).
EveryCallbackRuns ==
  [][/\ at = "pre" /\ at' = "post" => called["pre"] = registered["pre"]
     /\ at = "post" /\ at' = "idle" => called["post"] = registered["post"]]_vars

=============================================================================
