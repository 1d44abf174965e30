---- MODULE StopEvent ----
(* main.py's stop_event, the one object every thread of the collector reads: *)
(* a signal, a listener that cannot bind and a writer that died set it;      *)
(* nothing clears it while the process lives.                                *)

VARIABLE stop   \* stop_event.is_set()

\* on_signal: SIGTERM, SIGINT or SIGBREAK.
OnSignal == ~stop /\ stop' = TRUE
====
