----------------------------- MODULE Collector -----------------------------
(***************************************************************************)
(* One life of the collector process: the resolver and the listeners       *)
(* (Listener), the writer and main (Writer), sharing the queue, the drop   *)
(* counters and stop_event (Pipeline).                                     *)
(***************************************************************************)
EXTENDS Listener, Writer

collectorVars == <<sourcesVars, listenerVars, allWriterVars>>

CollectorInit == ListenersInit /\ WriterInit /\ MainInit

\* The listeners and the resolver are daemon threads: they run while the
\* process does.  The writer and main never touch what is theirs.
CollectorNext ==
  \/ alive /\ CollectNext /\ UNCHANGED <<writerVars, mainVars>>
  \/ /\ WriterStep \/ WriterError \/ MainDetects \/ MainExits
     /\ UNCHANGED <<sourcesVars, listenerVars>>
  \/ ~alive /\ UNCHANGED collectorVars

CollectorSpec == CollectorInit /\ [][CollectorNext]_collectorVars

----------------------------------------------------------------------------
\* From the socket to the table.  Every datagram received is a committed row,
\* on its way to one, counted as dropped, ignored or rejected, or lost with a
\* writer that died; none is both, none is two rows.
EndToEnd ==
  received + Tally(credit, Devices)
    = db.seq + db.useq + AtRisk + lost
      + drops.n + drops.ignored + drops.rejected + Cardinality(InHand)

\* The listeners' view of the writer (Take) is a sound abstraction of it: the
\* whole collector implements the listeners' specification.
ImplementsListeners == ListenersSpec
=============================================================================
