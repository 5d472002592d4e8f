--------------------------- MODULE DisplaysetDecoder ---------------------------
(***************************************************************************)
(* How libdvbsubdec turns a PES packet into a display page                 *)
(* (lssubsegparser.c, lssubdecoder.c, lssubsegdec.c): the segments are     *)
(* parsed into a display set, which is decoded into the regions of a new   *)
(* page, by themselves in a new epoch and on copies of the latest page's   *)
(* regions in the normal case.                                             *)
(*                                                                         *)
(* One packet is decoded in several steps, one for each segment and each   *)
(* region, because each may run out of memory; nothing comes in between.   *)
(* Memory is counted in blocks of the composition buffer and of the coded  *)
(* objects; pixmaps are kept one by one.  List nodes do not run out.       *)
(* A display set has at most one PCS and one DDS and ends with an EDS, a   *)
(* region has its own CLUT and at most one object, a CDS comes with the RCS *)
(* of its region, and the packet holds what the segment lengths say.  The  *)
(* segments come in the order of EN 300 743, in any order within a type.   *)
(***************************************************************************)
EXTENDS Integers, FiniteSets

CONSTANTS
  PageId,       \* memory for pages
  RegionId,     \* region ids; CLUT and object have the id of their region
  Stamp,        \* contents of objects
  Drawings,     \* what an RCS may do: records [fill, object]
  Versions,     \* number of versions, 16 in the code
  MaxFailures,  \* bound: allocations that fail
  MaxSent,      \* bound: regions that a normal-case display set sends
  MaxPackets,   \* bound: packets, of which a failure costs one
  NULL

ASSUME DecoderAssumption ==
  /\ IsFiniteSet(PageId) /\ IsFiniteSet(RegionId)
  /\ Drawings \subseteq [fill : BOOLEAN, object : Stamp \cup {NULL}]
  /\ NULL \notin PageId \cup Stamp
  /\ Versions \in Nat \ {0, 1} /\ MaxFailures \in Nat /\ MaxSent \in Nat /\ MaxPackets \in Nat

VARIABLES
  page,               \* the pages in use
  latestDisplayPage,
  pixmap,             \* what the pixmaps in use show
  composition,        \* blocks taken from the composition buffer
  coded,              \* blocks of object data taken from the pixel buffer
  job,                \* the call of ProcessPESPayLoad
  stream,             \* ghost: the page and its regions as the broadcaster defines them
  intact,             \* ghost: nothing was lost or reset since an epoch began
  packets,            \* packets that have been submitted
  failures            \* allocations that have failed

vars == << page, latestDisplayPage, pixmap, composition, coded, job, stream, intact,
           packets, failures >>

Version == 0 .. Versions - 1

Blank == "blank"

Pixels == Stamp \cup {Blank}

Some(S) == UNION {[R -> S] : R \in SUBSET RegionId}

RCS == [version : Version, fill : BOOLEAN, object : Stamp \cup {NULL}]

\* infos counts the region infos, shows names the regions found in them.
PCS == [ours : BOOLEAN, state : {"acquisition", "normal", "reserved"}, version : Version,
        infos : Nat, shows : SUBSET RegionId]

\* A page may have no composition.
ASSUME NullAssumption == NULL \notin PCS

\* A segment in the packet: id is its region and NULL if it has none, body what it defines.
Segment ==
  [type : {"DDS", "EDS"}, id : {NULL}, body : {NULL}]
  \cup [type : {"PCS"}, id : {NULL},
        body : [ours : BOOLEAN, state : {"acquisition", "normal", "reserved"}, version : Version,
                shows : SUBSET RegionId]]
  \cup [type : {"RCS"}, id : RegionId, body : RCS]
  \cup [type : {"CDS"}, id : RegionId, body : {NULL}]
  \cup [type : {"ODS"}, id : RegionId, body : Stamp]

Displayset == [pcs : PCS \cup {NULL}, rcs : Some(RCS), cds : SUBSET RegionId,
               ods : Some(Stamp \cup {NULL}), dds : BOOLEAN, eds : BOOLEAN]

\* A pixmap is named after the page and the region it was made for.
PixmapId == PageId \X RegionId

Region == [version : Version, clut : {"sent", "default"}, visible : BOOLEAN, pixmap : PixmapId]

Page == [status : {"new", "queued", "retired"}, ours : BOOLEAN, version : Version,
         dds : BOOLEAN, displayset : Displayset, regions : Some(Region)]

Stage == {"idle", "parsing", "parsed", "acquisition", "normal", "decoding", "copying",
          "updating", "failed", "crashed"}

\* The set parsed so far, the segments still to parse and the regions still to decode.
Job == [stage : Stage, ours : BOOLEAN, todo : SUBSET Segment, set : Displayset,
        page : PageId \cup {NULL}, left : SUBSET RegionId]

\* composed is "sent" if the last display set for this page, or decoded as one, had a PCS for
\* it, "implied" if it had none, and "other" if it had that of another page.  The colours of a
\* region are "dropped" if an RCS without a CDS came for it after they had been sent.
Stream == [shows : SUBSET RegionId, composed : {"sent", "implied", "other"}, version : Version,
           rcs : Some(RCS), pixels : Some(Pixels), colours : Some({"sent", "default", "dropped"})]

TypeOK ==
  /\ DOMAIN page \subseteq PageId /\ \A p \in DOMAIN page : page[p] \in Page
  /\ latestDisplayPage \in PageId \cup {NULL}
  /\ DOMAIN pixmap \subseteq PixmapId /\ \A x \in DOMAIN pixmap : pixmap[x] \in Pixels
  /\ composition \in Nat /\ coded \in Nat
  /\ job \in Job /\ stream \in Stream
  /\ intact \in BOOLEAN /\ packets \in 0 .. MaxPackets /\ failures \in 0 .. MaxFailures

EmptySet == [pcs |-> NULL, rcs |-> << >>, cds |-> {}, ods |-> << >>, dds |-> FALSE, eds |-> FALSE]

Idle == [stage |-> "idle", ours |-> TRUE, todo |-> {}, set |-> EmptySet, page |-> NULL, left |-> {}]

Init ==
  /\ page = << >> /\ latestDisplayPage = NULL
  /\ pixmap = << >> /\ composition = 0 /\ coded = 0
  /\ job = Idle /\ packets = 0 /\ failures = 0
  /\ stream = [shows |-> {}, composed |-> "sent", version |-> 0, rcs |-> << >>, pixels |-> << >>,
               colours |-> << >>]
  /\ intact = FALSE

InUse == DOMAIN page

\* A function with one more or another value.
With(f, x, v) == [y \in DOMAIN f \cup {x} |-> IF y = x THEN v ELSE f[y]]

\* A function with the values of another where that has any.
Over(f, g) == [x \in DOMAIN f \cup DOMAIN g |-> IF x \in DOMAIN f THEN f[x] ELSE g[x]]

\* What the code reads of the latest page.
Latest == page[latestDisplayPage]

\* An allocation fails, or whatever else makes the page differ from the stream.
Failing(failed) ==
  /\ failed => failures < MaxFailures
  /\ failures' = failures + (IF failed THEN 1 ELSE 0)
  /\ intact' = (intact /\ ~failed)

-----------------------------------------------------------------------------
(* The broadcaster                                                         *)

\* Pixels of a region after an RCS, by EN 300 743.
Drawn(old, rcs) == IF rcs.object # NULL THEN rcs.object ELSE IF rcs.fill THEN Blank ELSE old

Seg(type, id, body) == [type |-> type, id |-> id, body |-> body]

\* The segments of a display set.
Segments(d) ==
  (IF d.dds THEN {Seg("DDS", NULL, NULL)} ELSE {})
  \cup (IF d.state = "none" THEN {}
        ELSE {Seg("PCS", NULL, [ours |-> d.ours, state |-> d.state, version |-> d.version,
                                shows |-> d.shows])})
  \cup {Seg("RCS", r, d.rcs[r]) : r \in DOMAIN d.rcs}
  \cup {Seg("CDS", r, NULL) : r \in d.cds}
  \cup {Seg("ODS", r, d.rcs[r].object) : r \in {x \in DOMAIN d.rcs : d.rcs[x].object # NULL}}
  \cup {Seg("EDS", NULL, NULL)}

RCSWith(v) == {[version |-> v, fill |-> x.fill, object |-> x.object] : x \in Drawings}

Few(R) == {S \in SUBSET R : Cardinality(S) <= MaxSent}

\* An epoch begins with a DDS and shows all its regions.
Epochs ==
  UNION {{[state |-> "acquisition", ours |-> TRUE, version |-> 0, dds |-> TRUE,
           shows |-> DOMAIN rcs, rcs |-> rcs, cds |-> cds] : cds \in SUBSET DOMAIN rcs} :
         rcs \in Some(RCSWith(0))}

NextVersion(v) == (v + 1) % Versions

\* A region is sent again as it was, or changed and with the next version.
Resent == UNION {{rcs \in [R -> UNION {RCSWith(v) : v \in Version}] :
                    \A r \in R : rcs[r] = stream.rcs[r]
                               \/ rcs[r].version = NextVersion(stream.rcs[r].version)} :
                 R \in Few(DOMAIN stream.rcs)}

\* It comes with its CDS or without; its first CDS changes it.
Coloured(rcs) ==
  {R \in SUBSET DOMAIN rcs : \A r \in R : stream.colours[r] = "default" => rcs[r] # stream.rcs[r]}

\* A composition that shows other regions than before has the next version.
Update(shows, rcs, cds) ==
  [state |-> "normal", ours |-> TRUE, dds |-> FALSE, shows |-> shows, rcs |-> rcs, cds |-> cds,
   version |-> IF shows = stream.shows THEN stream.version ELSE NextVersion(stream.version)]

UpdateWithoutPCS(rcs, cds) ==
  [state |-> "none", ours |-> TRUE, dds |-> FALSE, rcs |-> rcs, cds |-> cds]

Updates ==
  UNION {{Update(shows, rcs, cds) : shows \in SUBSET DOMAIN stream.rcs, cds \in Coloured(rcs)}
         \cup {UpdateWithoutPCS(rcs, cds) : cds \in Coloured(rcs)} : rcs \in Resent}

AnRCS == [version |-> 0, fill |-> TRUE, object |-> NULL]

\* Display sets of another page in the same stream, and one with the reserved page state.
Others ==
  [state : {"acquisition", "normal"}, ours : {FALSE}, version : {0}, dds : {FALSE},
   shows : {{}}, rcs : {<< >>} \cup {[x \in {r} |-> AnRCS] : r \in RegionId}, cds : {{}}]
  \cup
  [state : {"reserved"}, ours : {TRUE}, version : {0}, dds : {FALSE}, shows : {{}},
   rcs : {<< >>}, cds : {{}}]

\* A CDS defines the colours of its region, for which they are sent again if they may have
\* been dropped and the region has not changed; without one a region keeps its colours.
Colours(d, r) ==
  LET old == IF d.state = "acquisition" THEN "default" ELSE stream.colours[r]
  IN  IF r \notin DOMAIN d.rcs THEN old
      ELSE IF r \notin d.cds THEN IF old = "default" THEN old ELSE "dropped"
      ELSE IF old = "dropped" /\ d.rcs[r] = stream.rcs[r] THEN old ELSE "sent"

\* What decides which regions are shown.  The code composes the page anew for a normal-case
\* display set of another page, too.
ComposedBy(d) ==
  CASE d.state = "none" -> IF stream.composed = "other" THEN "other" ELSE "implied"
    [] d.state = "normal" -> IF d.ours THEN "sent" ELSE "other"
    [] OTHER -> IF d.ours /\ d.state = "acquisition" THEN "sent" ELSE stream.composed

Broadcast(d) ==
  IF ~d.ours \/ d.state = "reserved" THEN [stream EXCEPT !.composed = ComposedBy(d)]
  ELSE LET old == IF d.state = "acquisition" THEN << >> ELSE stream.rcs
           was(r) == IF d.state = "acquisition" THEN Blank ELSE stream.pixels[r]
           regions == DOMAIN d.rcs \cup DOMAIN old
       IN  [shows |-> IF d.state = "none" THEN stream.shows ELSE d.shows,
            composed |-> ComposedBy(d),
            version |-> IF d.state = "none" THEN stream.version ELSE d.version,
            rcs |-> Over(d.rcs, old),
            pixels |-> [r \in regions |->
                          IF r \in DOMAIN d.rcs THEN Drawn(was(r), d.rcs[r]) ELSE stream.pixels[r]],
            colours |-> [r \in regions |-> Colours(d, r)]]

-----------------------------------------------------------------------------
(* Parsing                                                                 *)

\* Play hands over a packet that has a PTS; there is memory for its display set.
Submit(d) ==
  /\ job.stage = "idle" /\ InUse # PageId
  /\ packets + failures < MaxPackets /\ packets' = packets + 1
  /\ composition' = composition + 1
  /\ job' = [Idle EXCEPT !.stage = "parsing", !.ours = d.ours, !.todo = Segments(d)]
  /\ stream' = Broadcast(d)
  /\ intact' = (intact \/ (d.ours /\ d.state = "acquisition"))
  /\ UNCHANGED << page, latestDisplayPage, pixmap, coded, failures >>

\* The order of EN 300 743.
Rank == [DDS |-> 1, PCS |-> 2, RCS |-> 3, CDS |-> 4, ODS |-> 5, EDS |-> 6]

\* The segments of this type that may be the next in the packet.
Parsing(type) ==
  {seg \in job.todo : /\ job.stage = "parsing" /\ seg.type = type
                     /\ \A other \in job.todo : Rank[type] <= Rank[other.type]}

\* The display set that has been parsed so far, and what is left of the packet.
Parsed(set, todo) ==
  /\ job' = [job EXCEPT !.set = set, !.todo = todo,
                        !.stage = IF todo = {} THEN "parsed" ELSE "parsing"]
  /\ UNCHANGED << page, latestDisplayPage, pixmap, stream, packets >>

Without(seg) == job.todo \ {seg}

\* A PCS that there is no memory for is kept with the region infos it already has.
ParsePCS ==
  \E seg \in Parsing("PCS") : \E shows \in SUBSET seg.body.shows :
    /\ Failing(shows # seg.body.shows)
    /\ Parsed([job.set EXCEPT !.pcs = [ours |-> seg.body.ours, state |-> seg.body.state,
                 version |-> seg.body.version, infos |-> Cardinality(shows), shows |-> shows]],
              Without(seg))
    /\ composition' = composition + 1 + Cardinality(shows)
    /\ UNCHANGED coded

\* An RCS is kept without its object if there is no memory for that.
ParseRCS ==
  \E seg \in Parsing("RCS") : \E object \in {seg.body.object, NULL} :
    /\ Failing(object # seg.body.object)
    /\ Parsed([job.set EXCEPT !.rcs = With(@, seg.id, [seg.body EXCEPT !.object = object])],
              Without(seg))
    /\ composition' = composition + IF object = NULL THEN 1 ELSE 2
    /\ UNCHANGED coded

\* With one entry.
ParseCDS ==
  \E seg \in Parsing("CDS") :
    /\ Parsed([job.set EXCEPT !.cds = @ \cup {seg.id}], Without(seg))
    /\ composition' = composition + 2
    /\ UNCHANGED << coded, intact, failures >>

\* An ODS is kept even if there is no memory for its data.
ParseODS ==
  \E seg \in Parsing("ODS") : \E object \in {seg.body, NULL} :
    /\ Failing(object = NULL)
    /\ Parsed([job.set EXCEPT !.ods = With(@, seg.id, object)], Without(seg))
    /\ coded' = coded + IF object = NULL THEN 0 ELSE 1
    /\ composition' = composition + 1

ParseDDS ==
  \E seg \in Parsing("DDS") :
    /\ Parsed([job.set EXCEPT !.dds = TRUE], Without(seg))
    /\ composition' = composition + 1
    /\ UNCHANGED << coded, intact, failures >>

\* The end of the display set; it makes no difference if there is no memory for it.
ParseEDS ==
  \E seg \in Parsing("EDS") : \E eds \in BOOLEAN :
    /\ ~eds => failures < MaxFailures
    /\ failures' = failures + IF eds THEN 0 ELSE 1
    /\ Parsed([job.set EXCEPT !.eds = eds], {})
    /\ composition' = composition + IF eds THEN 1 ELSE 0
    /\ UNCHANGED << coded, intact >>

\* No memory for a segment, or for an entry of a CDS, which is then deleted: the rest of
\* the packet is skipped, and what has been parsed counts as the display set.
SegmentNewFails ==
  /\ job.stage = "parsing" /\ \E seg \in job.todo : seg.type # "EDS"
  /\ Failing(TRUE)
  /\ Parsed(job.set, {})
  /\ UNCHANGED << composition, coded >>

\* A header or a segment that goes beyond the packet: LS_ERROR_STREAM_DATA.
Truncated ==
  /\ job.stage = "parsing"
  /\ Failing(TRUE)
  /\ job' = [job EXCEPT !.stage = "failed"]
  /\ UNCHANGED << page, latestDisplayPage, pixmap, composition, coded, stream, packets >>

-----------------------------------------------------------------------------
(* Memory                                                                  *)

\* Blocks of the composition buffer that the segments of a display set take, by what they
\* hold and for which region.
SegmentBlocks(set) ==
  {<< "displayset", NULL >>}
  \cup (IF set.pcs = NULL THEN {} ELSE {<< "PCS", NULL >>} \cup {"info"} \X (1 .. set.pcs.infos))
  \cup {"RCS"} \X DOMAIN set.rcs
  \cup {"object"} \X {r \in DOMAIN set.rcs : set.rcs[r].object # NULL}
  \cup {"CDS", "entry"} \X set.cds
  \cup {"ODS"} \X DOMAIN set.ods
  \cup (IF set.dds THEN {<< "DDS", NULL >>} ELSE {})
  \cup (IF set.eds THEN {<< "EDS", NULL >>} ELSE {})

\* Blocks of the pixel buffer that its objects take, by region.
ObjectBlocks(set) == {r \in DOMAIN set.ods : set.ods[r] # NULL}

PageBlocks(p) ==
  {<< "page", NULL >>} \cup SegmentBlocks(page[p].displayset)
  \cup {"region"} \X DOMAIN page[p].regions

\* All the blocks of some pages.
BlocksOf(P) == UNION {{p} \X PageBlocks(p) : p \in P}

CodedOf(P) == UNION {{p} \X ObjectBlocks(page[p].displayset) : p \in P}

PixmapsOf(p) == {page[p].regions[r].pixmap : r \in DOMAIN page[p].regions}

PixmapsWithout(P) ==
  [x \in DOMAIN pixmap \ UNION {PixmapsOf(p) : p \in P} |-> pixmap[x]]

\* Variant of MemoryWithout: the regions are deleted, their pixmaps are not.
MemoryWithoutKeepingPixmaps(P) ==
  /\ composition' = composition - Cardinality(BlocksOf(P))
  /\ coded' = coded - Cardinality(CodedOf(P))
  /\ UNCHANGED pixmap

\* What LS_DisplayPageDelete gives back: the pages, their display sets and their regions.
MemoryWithout(P) ==
  /\ composition' = composition - Cardinality(BlocksOf(P))
  /\ coded' = coded - Cardinality(CodedOf(P))
  /\ pixmap' = PixmapsWithout(P)

PagesWithout(P) == [p \in InUse \ P |-> page[p]]

NewPixmap(r, pixels) == pixmap' = With(pixmap, << job.page, r >>, pixels)

-----------------------------------------------------------------------------
(* Decoding                                                                *)

Decodes ==
  /\ UNCHANGED << page, latestDisplayPage, pixmap, composition, coded, stream, packets >>

Fails == job' = [job EXCEPT !.stage = "failed"] /\ Decodes

\* A NULL pointer is read.
Crashes == job' = [job EXCEPT !.stage = "crashed"] /\ Decodes

\* Without a PCS the page gets a copy of the latest page's, for whose region infos memory
\* is taken but not written; if there is nothing to copy or no memory, it gets none.
Compositions ==
  IF job.set.pcs # NULL THEN {job.set.pcs}
  ELSE {NULL} \cup IF latestDisplayPage = NULL THEN {}
         ELSE {[Latest.displayset.pcs EXCEPT !.shows = s] :
                 s \in {t \in SUBSET RegionId : Cardinality(t) <= Latest.displayset.pcs.infos}}

PageStage ==
  IF job.set.pcs = NULL \/ job.set.pcs.state = "normal" THEN "normal"
  ELSE IF job.set.pcs.state = "acquisition" THEN "acquisition" ELSE "failed"

NewPage(p) ==
  \E pcs \in Compositions :
    /\ page' = With(page, p,
         [status |-> "new", dds |-> FALSE, regions |-> << >>,
          displayset |-> [job.set EXCEPT !.pcs = pcs],
          ours |-> pcs # NULL /\ pcs.ours, version |-> IF pcs = NULL THEN 0 ELSE pcs.version])
    /\ job' = [job EXCEPT !.page = p, !.set = EmptySet, !.stage = PageStage]
    /\ composition' = composition + 1
         + IF job.set.pcs = NULL /\ pcs # NULL THEN 1 + pcs.infos ELSE 0
    /\ Failing(pcs = NULL /\ latestDisplayPage # NULL)
    /\ UNCHANGED << latestDisplayPage, pixmap, coded, stream, packets >>

DisplayPageNew ==
  /\ job.stage = "parsed"
  /\ \/ \E p \in PageId \ InUse : NewPage(p)
     \/ Failing(TRUE) /\ Fails

Decoding == page[job.page]

Set == Decoding.displayset

\* Regions that are still to be decoded, with what the page takes over from the latest one.
Begin(stage, left, dds) ==
  /\ job' = [job EXCEPT !.stage = stage, !.left = left]
  /\ page' = [page EXCEPT ![job.page].dds = dds]
  /\ UNCHANGED << latestDisplayPage, pixmap, composition, coded, stream, packets >>

\* An epoch is decoded if it is for this service and has regions.
Accepted == Set.pcs.ours /\ Set.rcs # << >>

decodeEpochDisplayset ==
  /\ job.stage = "acquisition"
  /\ IF Accepted THEN Begin("decoding", DOMAIN Set.rcs, Set.dds) ELSE Fails
  /\ UNCHANGED << intact, failures >>

\* The normal case does not look at the page id.  Without a latest page it is decoded like
\* an epoch; with one, it needs its regions.
decodeNormalCaseDisplayset ==
  /\ job.stage = "normal"
  /\ IF Set.pcs = NULL THEN Crashes
     ELSE IF latestDisplayPage = NULL
       THEN IF Set.rcs = << >> THEN Fails ELSE Begin("decoding", DOMAIN Set.rcs, Set.dds)
       ELSE IF Latest.regions = << >> THEN Fails
            ELSE Begin("copying", DOMAIN Latest.regions, Set.dds \/ Latest.dds)
  /\ UNCHANGED << intact, failures >>

\* An object is drawn if the display set has its data; what fails with it is skipped.
DecodeODSBitmap(r, old) ==
  IF r \in DOMAIN Set.ods /\ Set.ods[r] # NULL THEN Set.ods[r] ELSE old

\* What an RCS makes of a region's pixels: it fills them, then draws its object.
DecodeRCS(r, old) ==
  LET filled == IF Set.rcs[r].fill THEN Blank ELSE old
  IN  IF Set.rcs[r].object = NULL THEN filled ELSE DecodeODSBitmap(r, filled)

\* Without a CDS in the same display set a region takes the default colours.
DecodeCDS(r) == IF r \in Set.cds THEN "sent" ELSE "default"

Left(r) == job.left \ {r}

\* LS_DisplayRegionNew or, for a page of another service, the RCS fails: the one ends the
\* decoding, the other leaves out the region.  A pixmap that fails is a crash.
DecodeRegion ==
  /\ job.stage = "decoding"
  /\ \E r \in job.left :
       \/ Failing(TRUE) /\ (Fails \/ (job.ours /\ Crashes))
       \/ /\ ~job.ours /\ job' = [job EXCEPT !.left = Left(r)] /\ Decodes
          /\ UNCHANGED << intact, failures >>
       \/ /\ job.ours
          /\ NewPixmap(r, DecodeRCS(r, Blank))
          /\ page' = [page EXCEPT ![job.page].regions = With(@, r,
               [version |-> Set.rcs[r].version, clut |-> DecodeCDS(r), pixmap |-> << job.page, r >>,
                visible |-> r \in Set.pcs.shows])]
          /\ composition' = composition + 1
          /\ job' = [job EXCEPT !.left = Left(r)]
          /\ UNCHANGED << latestDisplayPage, coded, stream, packets, intact, failures >>

\* Variant of DisplayRegionCopy: the region is copied with its pointer to the pixmap.
DisplayRegionCopyShared(r) == Latest.regions[r]

DisplayRegionCopy(r) == [Latest.regions[r] EXCEPT !.pixmap = << job.page, r >>]

Copied(r) ==
  [job EXCEPT !.left = IF Left(r) = {} THEN DOMAIN Set.rcs ELSE Left(r),
              !.stage = IF Left(r) = {} THEN "updating" ELSE "copying"]

\* A region that there is no memory for is left out.
CopyRegion ==
  /\ job.stage = "copying"
  /\ \E r \in job.left :
       \/ Failing(TRUE) /\ (Crashes \/ (job' = Copied(r) /\ Decodes))
       \/ /\ NewPixmap(r, pixmap[Latest.regions[r].pixmap])
          /\ page' = [page EXCEPT ![job.page].regions = With(@, r,
               [DisplayRegionCopy(r) EXCEPT !.visible = r \in Set.pcs.shows])]
          /\ composition' = composition + 1
          /\ job' = Copied(r)
          /\ UNCHANGED << latestDisplayPage, coded, stream, packets, intact, failures >>

\* Variant of Outdated: a version that has wrapped is taken for an old one.
OutdatedUnwrapped(r) ==
  \/ Decoding.regions[r].version < Set.rcs[r].version
  \/ Decoding.ours = Latest.ours /\ Decoding.version # Latest.version

Outdated(r) ==
  \/ Decoding.regions[r].version # Set.rcs[r].version
  \/ Decoding.ours = Latest.ours /\ Decoding.version # Latest.version

\* An RCS for a region the latest page does not have is ignored.
UpdateRegion ==
  /\ job.stage = "updating"
  /\ \E r \in job.left :
       /\ job' = [job EXCEPT !.left = Left(r)]
       /\ IF r \in DOMAIN Decoding.regions /\ job.ours /\ Outdated(r)
            THEN LET x == Decoding.regions[r].pixmap
                 IN  /\ pixmap' = [pixmap EXCEPT ![x] = DecodeRCS(r, @)]
                     /\ page' = [page EXCEPT ![job.page].regions[r] =
                                  [@ EXCEPT !.version = Set.rcs[r].version, !.clut = DecodeCDS(r)]]
            ELSE UNCHANGED << pixmap, page >>
  /\ UNCHANGED << latestDisplayPage, composition, coded, stream, packets, intact, failures >>

\* The page is queued; the latest page is deleted if it is retired.
Queue ==
  /\ job.stage \in {"decoding", "updating"} /\ job.left = {}
  /\ LET superseded == {p \in {latestDisplayPage} \ {NULL} : page[p].status = "retired"}
     IN  /\ MemoryWithout(superseded)
         /\ page' = [PagesWithout(superseded) EXCEPT ![job.page].status = "queued"]
  /\ latestDisplayPage' = job.page
  /\ job' = Idle
  /\ UNCHANGED << stream, packets, intact, failures >>

\* Variant of MemoryAfterFailure: the display set is deleted by itself and with its page.
MemoryAfterFailureTwice ==
  IF job.page # NULL
    THEN /\ composition' = composition - Cardinality(PageBlocks(job.page))
                                      - Cardinality(SegmentBlocks(Set))
         /\ coded' = coded - 2 * Cardinality(ObjectBlocks(Set))
         /\ pixmap' = [x \in DOMAIN pixmap \ PixmapsOf(job.page) |-> pixmap[x]]
    ELSE /\ composition' = composition - Cardinality(SegmentBlocks(job.set))
         /\ coded' = coded - Cardinality(ObjectBlocks(job.set))
         /\ UNCHANGED pixmap

\* The display set is deleted by itself and again with its page: its magic numbers are gone
\* by then, and the heap refuses the second time.
MemoryAfterFailure ==
  IF job.page # NULL THEN MemoryWithout({job.page})
  ELSE /\ composition' = composition - Cardinality(SegmentBlocks(job.set))
       /\ coded' = coded - Cardinality(ObjectBlocks(job.set))
       /\ UNCHANGED pixmap

CleanUp ==
  /\ job.stage = "failed"
  /\ MemoryAfterFailure
  /\ page' = PagesWithout({job.page})
  /\ job' = Idle
  /\ UNCHANGED << latestDisplayPage, stream, packets, intact, failures >>

-----------------------------------------------------------------------------
(* What becomes of the pages                                               *)

\* Variant of IsBase: the latest page is deleted like the others.
IsBaseNever(p) == FALSE

IsBase(p) == p = latestDisplayPage

\* A page has been displayed or has timed out: it is deleted unless it is the latest.
Retire(p) ==
  /\ job.stage = "idle" /\ p \in InUse /\ page[p].status = "queued"
  /\ IF IsBase(p)
       THEN page' = [page EXCEPT ![p].status = "retired"]
            /\ UNCHANGED << composition, coded, pixmap >>
       ELSE page' = PagesWithout({p}) /\ MemoryWithout({p})
  /\ UNCHANGED << latestDisplayPage, job, stream, packets, intact, failures >>

\* Variant of MemoryAfterReset: pages that have been displayed are left to themselves.
MemoryAfterResetKeepingRetired == MemoryWithout({p \in InUse : page[p].status = "queued"})

MemoryAfterReset == MemoryWithout(InUse)

Reset ==
  /\ job.stage = "idle" /\ latestDisplayPage # NULL
  /\ MemoryAfterReset
  /\ page' = PagesWithout(InUse)
  /\ latestDisplayPage' = NULL
  /\ intact' = FALSE
  /\ UNCHANGED << job, stream, packets, failures >>

Next ==
  \/ \E d \in Epochs \cup Updates \cup Others : Submit(d)
  \/ ParsePCS \/ ParseRCS \/ ParseCDS \/ ParseODS \/ ParseDDS \/ ParseEDS
  \/ SegmentNewFails \/ Truncated
  \/ DisplayPageNew \/ decodeEpochDisplayset \/ decodeNormalCaseDisplayset
  \/ DecodeRegion \/ CopyRegion \/ UpdateRegion
  \/ Queue \/ CleanUp
  \/ \E p \in PageId : Retire(p)
  \/ Reset

Spec == Init /\ [][Next]_vars

-----------------------------------------------------------------------------
(* Properties                                                              *)

\* Whatever fails on the way, every block of the service's buffers belongs to a page in use
\* or to the packet being decoded: nothing leaks, and nothing is given back twice.
MemoryIsOwned ==
  LET loose == IF job.stage # "idle" /\ job.page = NULL THEN SegmentBlocks(job.set) ELSE {}
      data == IF job.stage # "idle" /\ job.page = NULL THEN ObjectBlocks(job.set) ELSE {}
  IN  /\ composition = Cardinality(BlocksOf(InUse)) + Cardinality(loose)
      /\ coded = Cardinality(CodedOf(InUse)) + Cardinality(data)

\* A pixmap belongs to one region of one page: the regions of a normal-case page are copies.
OnePixmapEach ==
  /\ DOMAIN pixmap = UNION {PixmapsOf(p) : p \in InUse}
  /\ \A p, q \in InUse : \A r \in DOMAIN page[p].regions : \A s \in DOMAIN page[q].regions :
       page[p].regions[r].pixmap = page[q].regions[s].pixmap => p = q /\ r = s

\* The page on which the next normal-case display set is decoded is there, is not the one
\* being decoded, and has the composition that a display set without one takes over.
LatestIsDecodable ==
  latestDisplayPage # NULL =>
    /\ latestDisplayPage \in InUse
    /\ latestDisplayPage # job.page
    /\ Latest.displayset.pcs # NULL

\* If nothing was lost or reset since an epoch began that has regions, the latest page has these
\* regions, each with the pixels that all the display sets since then have drawn, those without
\* a PCS included, whatever was sent for another page.  Each has the colours sent with it, or
\* the default ones if none were sent in this epoch; once an RCS comes without the CDS that the
\* region has had, nothing is said of its colours.  The page shows the regions of the last PCS;
\* nothing is said of that after a display set that has none, or that of another page.
PageIsWhatWasSent ==
  intact /\ job.stage = "idle" /\ DOMAIN stream.rcs # {} =>
    /\ latestDisplayPage # NULL
    /\ DOMAIN Latest.regions = DOMAIN stream.rcs
    /\ \A r \in DOMAIN Latest.regions :
         LET region == Latest.regions[r]
         IN  /\ pixmap[region.pixmap] = stream.pixels[r]
             /\ stream.colours[r] # "dropped" => region.clut = stream.colours[r]
             /\ stream.composed = "sent" => region.visible = (r \in stream.shows)

\* A display set without a PCS "will result in a new page instance equivalent to a page
\* update" (lssubdecoder.c:1033-1038): the page goes on showing the regions it showed.
UpdateIsComposed ==
  intact /\ job.stage = "idle" /\ DOMAIN stream.rcs # {} /\ stream.composed = "implied" =>
    \A r \in DOMAIN Latest.regions : Latest.regions[r].visible = (r \in stream.shows)

\* Decoding the next page leaves the regions and pixels of queued pages as they are.
QueuedPagesKeep ==
  [][\A p \in InUse \cap InUse' :
       page[p].status # "new" =>
         /\ page'[p].regions = page[p].regions
         /\ PixmapsOf(p) \subseteq DOMAIN pixmap'
         /\ \A x \in PixmapsOf(p) : pixmap'[x] = pixmap[x]]_vars

=============================================================================
