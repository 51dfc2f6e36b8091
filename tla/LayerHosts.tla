----------------------------- MODULE LayerHosts -----------------------------
(***************************************************************************)
(* What TransientSurfaceHost and PairedTransientSurfaceHost do to the one  *)
(* surface, or the pair of content and dismiss surface, they own.  Each    *)
(* operator maps a record with the fields host, pending and output to its  *)
(* successor; the classes built on them keep further fields beside these.  *)
(***************************************************************************)

CONSTANT NoOutput

\* "opening": opened, not yet mapped by the compositor; "ended": closed by
\* the compositor or failed, which the program has not been told yet.
HostStates == {"none", "opening", "mapped", "ended"}

\* The fields: host is host_ or the pair's hosts, pending is pending_open_,
\* output is requested_output_.
HasSurface(h) == h.host # "none"
IsLive(h) == h.host \in {"opening", "mapped"}

CloseSurface(h) == [h EXCEPT !.host = "none"]
ClearPending(h) == [h EXCEPT !.pending = FALSE, !.output = NoOutput]
DestroySurface(h) == CloseSurface(ClearPending(h))

\* The surface is asked of the provider, which may fail to open it.
OpenPending(h, opens) ==
  IF h.pending /\ h.output # NoOutput
  THEN [h EXCEPT !.pending = FALSE, !.host = IF opens THEN "opening" ELSE @]
  ELSE h

OpenSurface(h, out, provider, opens) ==
  LET asked == [CloseSurface(h) EXCEPT !.pending = TRUE, !.output = out]
  IN  IF provider THEN OpenPending(asked, opens) ELSE asked

\* The provider goes: an open surface waits for it to come back.
Withdrawn(h) ==
  CloseSurface([h EXCEPT !.pending = IF HasSurface(h) THEN h.output # NoOutput ELSE @])
=============================================================================
