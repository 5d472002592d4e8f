------------------------------- MODULE MCDecoder -------------------------------
(***************************************************************************)
(* An instance of DisplaysetDecoder for TLC.                               *)
(***************************************************************************)
EXTENDS DisplaysetDecoder, Sequences, TLC

CONSTANTS r1, r2, a

\* An RCS leaves its region as it is, fills it or draws an object into it.
Drawing == {[fill |-> TRUE, object |-> NULL], [fill |-> FALSE, object |-> a]}

Symmetry == Permutations(PageId) \cup Permutations(RegionId)

\* What is in memory of a display set, and what is not yet parsed of it, whatever its contents.
Kept(set) ==
  << IF set.pcs = NULL THEN NULL ELSE << set.pcs.ours, set.pcs.state, set.pcs.infos >>,
     {<< r, set.rcs[r].object = NULL >> : r \in DOMAIN set.rcs}, set.cds,
     {<< r, set.ods[r] = NULL >> : r \in DOMAIN set.ods}, set.dds, set.eds >>

Ahead(seg) ==
  << seg.type, seg.id,
     CASE seg.type = "PCS" -> << seg.body.ours, seg.body.state, Cardinality(seg.body.shows) >>
       [] seg.type = "RCS" -> seg.body.object = NULL
       [] OTHER -> NULL >>

\* What the next steps and the properties depend on.  Of the display set of a queued page only
\* the region infos are read, of a page that is not the latest nothing, and of the counts of
\* blocks the properties say one thing.  Which regions a page shows is decided anew for every
\* page, colours that have been dropped are sent again before they matter, and everything is
\* drawn in a new epoch, before which it does not matter once something has been lost.
View ==
  LET new(p) == page[p].status = "new"
      shown == stream.composed = "sent"
      infos(p) == IF page[p].displayset.pcs = NULL THEN NULL ELSE page[p].displayset.pcs.infos
      current(p) == new(p) \/ p = latestDisplayPage
      dropped(r) == r \in DOMAIN stream.colours /\ stream.colours[r] = "dropped"
      seen(p) ==
        [r \in DOMAIN page[p].regions |->
           LET region == page[p].regions[r]
           IN  IF ~current(p) THEN region.pixmap
               ELSE << region.version, region.pixmap, IF dropped(r) THEN NULL ELSE region.clut,
                       shown /\ region.visible >>]
      known(p) ==
        << page[p].status, page[p].ours, page[p].version, seen(p),
           IF ~new(p) THEN infos(p)
           ELSE IF shown \/ page[p].displayset.pcs = NULL THEN page[p].displayset
           ELSE [page[p].displayset EXCEPT !.pcs.shows = {}] >>
      lost(p) ==
        << page[p].status, DOMAIN page[p].regions, PixmapsOf(p),
           IF new(p) THEN Kept(page[p].displayset) ELSE infos(p) >>
  IN  << latestDisplayPage, MemoryIsOwned, intact, packets, failures >>
      \o IF intact THEN << [p \in InUse |-> known(p)], job, pixmap, stream >>
         ELSE << [p \in InUse |-> lost(p)], DOMAIN pixmap, DOMAIN stream.rcs, job.stage, job.ours,
                 {Ahead(seg) : seg \in job.todo}, Kept(job.set), job.page, job.left >>

=============================================================================
