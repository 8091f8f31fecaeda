----------------------------- MODULE TraceExport -----------------------------
(* OpenTelemetry export: the workspace's exporters (actions/otel.ts) and       *)
(* exportOtelTrace, which a handler starts for each evidence event and does    *)
(* not wait for. It reads the enabled exporters through the handler's          *)
(* transaction, builds one span, and posts it to all of them; each may fail or *)
(* say nothing, and the handler goes on meanwhile.                             *)
EXTENDS Naturals, FiniteSets

CONSTANTS
  Exporters,       \* rows of workspace_otel_endpoints the workspace may have
  TraceEvents,     \* evidence events the handlers export
  Admins,          \* pages with the exporter list
  MaxPageWork,     \* forms submitted per page
  OriginTraces,    \* what an origin or an envelope may give as a trace: valid ids,
  NoTrace, BadTrace,   \* nothing, or an id that is not a W3C one
  NoExporter

ASSUME TraceExportAssumption ==
  /\ MaxPageWork \in Nat /\ {NoTrace, BadTrace} \subseteq OriginTraces
  /\ NoExporter \notin Exporters

VARIABLES
  exporters,  \* Exporters -> "absent", "enabled" or "disabled"
  down,       \* exporters that fail, or keep silent until the timer ends the request
  page,       \* Admins -> the form under way, and what toggleOtelEndpoint has read
  pageWork,
  export      \* TraceEvents -> where its export is, the exporters it read, those still
              \* to be posted to, those that got the span, and the trace the span is in
traceVars == <<exporters, down, page, pageWork, export>>

\* A span without a usable trace gets a trace of its own.
Fresh(e) == [fresh |-> e]
Traces == (OriginTraces \ {NoTrace, BadTrace}) \cup {Fresh(e) : e \in TraceEvents}
TraceTypeOK ==
  /\ exporters \in [Exporters -> {"absent", "enabled", "disabled"}] /\ down \subseteq Exporters
  /\ page \in [Admins -> [form : {"none", "toggle", "not_added", "not_found"}, of : Exporters \cup {NoExporter},
                          seen : {"absent", "enabled", "disabled"}]]
  /\ pageWork \in [Admins -> 0..MaxPageWork]
  /\ export \in [TraceEvents -> [at : {"none", "started", "posting", "over"}, read : SUBSET Exporters,
                                 left : SUBSET Exporters, got : SUBSET Exporters,
                                 trace : Traces \cup {NoTrace}]]

NoPage == [form |-> "none", of |-> NoExporter, seen |-> "absent"]
NoExport == [at |-> "none", read |-> {}, left |-> {}, got |-> {}, trace |-> NoTrace]
TraceInit ==
  /\ exporters \in [Exporters -> {"absent", "enabled", "disabled"}] /\ down \in SUBSET Exporters
  /\ page = [a \in Admins |-> NoPage] /\ pageWork = [a \in Admins |-> 0]
  /\ export = [e \in TraceEvents |-> NoExport]

\* A server action of the exporter list starts from a page that is at rest.
MaySubmit(a) ==
  /\ page[a].form # "toggle" /\ pageWork[a] < MaxPageWork
  /\ pageWork' = [pageWork EXCEPT ![a] = @ + 1]
\* addOtelEndpoint, with a form that passes its checks: it asks for the
\* workspace of a tenant transaction, and nothing has opened one.
AddExporter(a) ==
  /\ MaySubmit(a) /\ page' = [page EXCEPT ![a] = [NoPage EXCEPT !.form = "not_added"]]
  /\ UNCHANGED <<exporters, down, export>>
\* toggleOtelEndpoint: read, then write the opposite; the write finds no row
\* when it was deleted in between.
ToggleRead(a) ==
  /\ MaySubmit(a)
  /\ \E x \in Exporters :
       page' = [page EXCEPT ![a] =
         IF exporters[x] = "absent" THEN [NoPage EXCEPT !.form = "not_found"]
         ELSE [form |-> "toggle", of |-> x, seen |-> exporters[x]]]
  /\ UNCHANGED <<exporters, down, export>>
ToggleWrite(a) ==
  /\ page[a].form = "toggle"
  /\ exporters' = [exporters EXCEPT ![page[a].of] =
       IF @ = "absent" THEN @ ELSE IF page[a].seen = "enabled" THEN "disabled" ELSE "enabled"]
  /\ page' = [page EXCEPT ![a] = NoPage] /\ UNCHANGED <<down, pageWork, export>>
\* deleteOtelEndpoint
DeleteExporter(a) ==
  /\ MaySubmit(a) /\ \E x \in Exporters : exporters' = [exporters EXCEPT ![x] = "absent"]
  /\ UNCHANGED <<down, page, export>>

\* A handler has appended an evidence event and starts its export.
StartExport(e) ==
  /\ export[e].at = "none" /\ export' = [export EXCEPT ![e].at = "started"]
  /\ UNCHANGED <<exporters, down, page, pageWork>>
\* buildOtelSpan: what the origin says hides what the envelope says, and an id
\* that is not 32 hex digits is replaced.
SpanTrace(e, origin, envelope) ==
  LET given == IF origin # NoTrace THEN origin ELSE envelope
  IN IF given \in {NoTrace, BadTrace} THEN Fresh(e) ELSE given
\* loadWorkspaceOtelEndpoints; the read may fail, which is logged.
EnabledExporters == {x \in Exporters : exporters[x] = "enabled"}
LoadExporters(e) ==
  /\ export[e].at = "started"
  /\ \/ \E origin, envelope \in OriginTraces :
          export' = [export EXCEPT ![e] =
            [at |-> IF EnabledExporters = {} THEN "over" ELSE "posting", read |-> EnabledExporters,
             left |-> EnabledExporters, got |-> {}, trace |-> SpanTrace(e, origin, envelope)]]
     \/ export' = [export EXCEPT ![e].at = "over"]
  /\ UNCHANGED <<exporters, down, page, pageWork>>
\* postOtelTrace to one of them, which five seconds end at the latest.
\* Promise.allSettled goes by all of them.
\* mutant: Promise.all ends with the first that fails
LeftAfterFirst(e, x) == IF x \in down THEN {} ELSE export[e].left \ {x}
LeftAfter(e, x) == export[e].left \ {x}
PostTrace(e, x) ==
  /\ export[e].at = "posting" /\ x \in export[e].left
  /\ export' = [export EXCEPT ![e] =
       [at |-> IF LeftAfter(e, x) = {} THEN "over" ELSE @.at, read |-> @.read,
        left |-> LeftAfter(e, x), got |-> @.got \cup ({x} \ down), trace |-> @.trace]]
  /\ UNCHANGED <<exporters, down, page, pageWork>>

PageStep == \E a \in Admins : AddExporter(a) \/ ToggleRead(a) \/ ToggleWrite(a) \/ DeleteExporter(a)
ExportStep(e) == LoadExporters(e) \/ (\E x \in Exporters : PostTrace(e, x))
TraceNext == PageStep \/ \E e \in TraceEvents : StartExport(e) \/ ExportStep(e)
TraceSpec == TraceInit /\ [][TraceNext]_traceVars

-----------------------------------------------------------------------------
\* One exporter that fails does not keep the span from the others, whatever
\* happens on the settings page meanwhile.
NoneSkipped == \A e \in TraceEvents :
  export[e].at = "over" => export[e].read \ down = export[e].got

\* content/docs/trace.mdx: "You can add multiple endpoints." A form that passes
\* its checks is not answered with an error.
ExporterIsAdded == \A a \in Admins : page[a].form # "not_added"
=============================================================================
