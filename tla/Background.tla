----------------------------- MODULE Background -----------------------------
(***************************************************************************)
(* The collector's two background threads, the resolver and the writer,    *)
(* each against everything the rest of the process may do to it.  They     *)
(* share nothing but stop_event, which either may find set at any moment,  *)
(* so each is looked at while the other rests: `part` says which one runs. *)
(* Module Collector has them together, with the listeners between them.    *)
(***************************************************************************)
EXTENDS Sources, Writer

VARIABLE part

backgroundVars == <<part, sourcesVars, allWriterVars>>

BackgroundInit ==
  /\ part \in {"resolver", "writer"}
  /\ SourcesInit /\ ProcessInit
  /\ part = "resolver" \/ \A h \in Hosts : dns[h] = Addrs

Resolving(A) == part = "resolver" /\ A /\ UNCHANGED <<part, pipelineVars, writerVars, mainVars>>
Writing(A) == part = "writer" /\ A /\ UNCHANGED <<part, sourcesVars>>

BackgroundNext == Resolving(FilterNext) \/ Writing(WriterNext)

\* The fairness of FilterSpec and of WriterFairSpec.
BackgroundSpec ==
  /\ BackgroundInit /\ [][BackgroundNext]_backgroundVars
  /\ WF_backgroundVars(Resolving(ResolverStep /\ UNCHANGED stop))
  /\ WF_backgroundVars(Resolving(MonoTick /\ UNCHANGED stop))
  /\ WF_backgroundVars(Writing(WriterStep)) /\ SF_backgroundVars(Writing(FlushDue))
  /\ WF_backgroundVars(Writing(MainDetects)) /\ WF_backgroundVars(Writing(MainExits))

\* Converges, of the behaviours in which the resolver runs: once the DNS stands
\* still, every host's current addresses end up in the allow-list and stay
\* there, unless the process is stopped first.
ResolverConverges == part = "resolver" => Converges
=============================================================================
