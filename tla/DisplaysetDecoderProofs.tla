----------------------- MODULE DisplaysetDecoderProofs -----------------------
(***************************************************************************)
(* What holds of decoding for any number of pages, regions, segments,      *)
(* packets and failures.                                                   *)
(*                                                                         *)
(* The latest page can always be decoded upon, every pixmap has one owner, *)
(* and decoding a page leaves the queued ones alone.  None of these is     *)
(* inductive alone.  That a normal-case page never draws into the pixmaps  *)
(* of the page it was copied from needs each pixmap to be named after its  *)
(* page and region; that the latest page has a composition needs the page  *)
(* being decoded to have one from the stage on at which it is looked at;   *)
(* and that memory is given back for the right pages needs the page being  *)
(* decoded to be the only new one, and never the latest.                   *)
(*                                                                         *)
(* However many allocations fail and whatever they leave out, every block  *)
(* of the composition buffer and every block of coded data has one owner.  *)
(* The counts are of no use by themselves: a step that takes or gives back *)
(* a block changes them by the number of the blocks it names, which says   *)
(* something only if those blocks were not there before (SegmentsAreNew,   *)
(* RegionsAreNew) and are finitely many.  So the invariant keeps that each *)
(* segment is parsed once and each region added once, beside the two sums, *)
(* and for both it needs the types of the pages (TypeInv), for which in    *)
(* turn a region must be decoded only if the display set defines it        *)
(* (LeftIsSent).                                                           *)
(***************************************************************************)
EXTENDS DisplaysetDecoder, FiniteSetTheorems, TLAPS

\* Stages in which no page has been made yet.
Early == {"idle", "parsing", "parsed"}

\* Stages in which regions are decoded, for which there must be a composition.
Composed == {"acquisition", "decoding", "copying", "updating"}

\* There is a latest page, and it has these regions.
CopiesLatest(left) == latestDisplayPage # NULL /\ left \subseteq DOMAIN Latest.regions

JobShape ==
  /\ {"stage", "page", "set", "left", "todo", "ours"} \subseteq DOMAIN job
  /\ "pcs" \in DOMAIN job.set
  /\ job.stage \in Early => job.page = NULL
  /\ job.stage \in Composed \cup {"normal"} => job.page # NULL
  /\ job.page # NULL => job.page \in InUse
  /\ job.stage \in Composed => Set.pcs # NULL
  /\ job.stage = "copying" => CopiesLatest(job.left)

\* A page's own fields are there, and its pixmaps are its own.
PageShape(f) ==
  /\ {"status", "dds", "regions", "displayset", "ours", "version"} \subseteq DOMAIN f
  /\ "pcs" \in DOMAIN f.displayset
  /\ \A r \in DOMAIN f.regions :
       {"pixmap", "visible", "version", "clut"} \subseteq DOMAIN f.regions[r]

OwnPixmaps(p, f, pixmaps) ==
  \A r \in DOMAIN f.regions : f.regions[r].pixmap = << p, r >> /\ << p, r >> \in pixmaps

PagesShape ==
  /\ InUse \subseteq PageId
  /\ \A p \in InUse : /\ PageShape(page[p])
                      /\ OwnPixmaps(p, page[p], DOMAIN pixmap)
                      /\ page[p].status = "new" <=> p = job.page

PixmapsOwned ==
  \A x \in DOMAIN pixmap : \E p \in InUse : \E r \in DOMAIN page[p].regions : x = << p, r >>

DecoderInv == JobShape /\ PagesShape /\ PixmapsOwned /\ LatestIsDecodable

\* What a step keeps of the pages that are queued.
QueuedKept ==
  \A p \in InUse \cap InUse' :
    page[p].status # "new" =>
      /\ page'[p].regions = page[p].regions
      /\ PixmapsOf(p) \subseteq DOMAIN pixmap'
      /\ \A x \in PixmapsOf(p) : pixmap'[x] = pixmap[x]

-----------------------------------------------------------------------------
(* Functions                                                               *)

\* The pixmaps of a page are named after it.
LEMMA OwnNames ==
  ASSUME PagesShape, NEW p \in InUse
  PROVE  \A x \in PixmapsOf(p) :
           /\ x \in DOMAIN pixmap
           /\ \E r \in DOMAIN page[p].regions : x = << p, r >>
<1>1. \A r \in DOMAIN page[p].regions :
        page[p].regions[r].pixmap = << p, r >> /\ << p, r >> \in DOMAIN pixmap
  BY DEF PagesShape, OwnPixmaps
<1>2. SUFFICES ASSUME NEW x \in PixmapsOf(p)
               PROVE  x \in DOMAIN pixmap /\ \E r \in DOMAIN page[p].regions : x = << p, r >>
  OBVIOUS
<1>3. PICK r \in DOMAIN page[p].regions : x = page[p].regions[r].pixmap
  BY <1>2 DEF PixmapsOf
<1> QED  BY <1>1, <1>3

\* NULL is no page.
LEMMA NullIsNoPage == NULL \notin PageId
BY DecoderAssumption

-----------------------------------------------------------------------------
(* Steps that change neither the pages nor the pixmaps                     *)

LEMMA JobStep ==
  ASSUME DecoderInv, UNCHANGED << page, latestDisplayPage, pixmap >>,
         job'.page = job.page, JobShape'
  PROVE  DecoderInv' /\ QueuedKept
<1>1. InUse' = InUse /\ Latest' = Latest
  BY DEF InUse, Latest
<1>2. PagesShape'
  BY <1>1 DEF DecoderInv, PagesShape
<1>3. PixmapsOwned' /\ LatestIsDecodable'
  BY <1>1 DEF DecoderInv, PixmapsOwned, LatestIsDecodable
<1>4. QueuedKept
  BY <1>1, OwnNames DEF QueuedKept, DecoderInv
<1> QED  BY <1>2, <1>3, <1>4 DEF DecoderInv

LEMMA SubmitKeeps ==
  ASSUME DecoderInv, NEW d, Submit(d)
  PROVE  DecoderInv' /\ QueuedKept
<1>1. job' = [Idle EXCEPT !.stage = "parsing", !.ours = d.ours, !.todo = Segments(d)]
  BY DEF Submit
<1>2. UNCHANGED << page, latestDisplayPage, pixmap >> /\ job.stage = "idle"
  BY DEF Submit
<1>3. JobShape'
  BY <1>1 DEF JobShape, Idle, EmptySet, Early, Composed
<1>4. job'.page = job.page
  BY <1>1, <1>2 DEF Idle, DecoderInv, JobShape, Early
<1> QED  BY <1>2, <1>3, <1>4, JobStep

LEMMA ParsedKeeps ==
  ASSUME DecoderInv, job.stage = "parsing", NEW set, NEW todo, Parsed(set, todo),
         "pcs" \in DOMAIN set
  PROVE  DecoderInv' /\ QueuedKept
<1>1. job.page = NULL
  BY DEF DecoderInv, JobShape, Early
<1>2. job'.page = job.page /\ job'.set = set /\ job'.stage \in {"parsed", "parsing"}
      /\ DOMAIN job' = DOMAIN job
  BY DEF Parsed, DecoderInv, JobShape
<1>3. JobShape'
  BY <1>1, <1>2 DEF DecoderInv, JobShape, Early, Composed
<1> QED  BY <1>2, <1>3, JobStep DEF Parsed

\* A failure or a crash.
LEMMA StageKeeps ==
  ASSUME DecoderInv, UNCHANGED << page, latestDisplayPage, pixmap >>,
         NEW stage \in {"failed", "crashed"}, job' = [job EXCEPT !.stage = stage]
  PROVE  DecoderInv' /\ QueuedKept
<1>1. /\ job'.page = job.page /\ job'.set = job.set /\ job'.stage = stage
      /\ DOMAIN job' = DOMAIN job
  BY DEF DecoderInv, JobShape
<1>2. JobShape'
  BY <1>1 DEF DecoderInv, JobShape, Early, Composed, InUse
<1> QED  BY <1>1, <1>2, JobStep

LEMMA ParsingKeeps ==
  ASSUME DecoderInv,
         ParsePCS \/ ParseRCS \/ ParseCDS \/ ParseODS \/ ParseDDS \/ ParseEDS \/ SegmentNewFails
  PROVE  DecoderInv' /\ QueuedKept
<1> USE DEF Parsing
<1>1. "pcs" \in DOMAIN job.set
  BY DEF DecoderInv, JobShape
<1>2. CASE ParsePCS
  BY <1>1, <1>2, ParsedKeeps DEF ParsePCS
<1>3. CASE ParseRCS
  BY <1>1, <1>3, ParsedKeeps DEF ParseRCS
<1>4. CASE ParseCDS
  BY <1>1, <1>4, ParsedKeeps DEF ParseCDS
<1>5. CASE ParseODS
  BY <1>1, <1>5, ParsedKeeps DEF ParseODS
<1>6. CASE ParseDDS
  BY <1>1, <1>6, ParsedKeeps DEF ParseDDS
<1>7. CASE ParseEDS
  BY <1>1, <1>7, ParsedKeeps DEF ParseEDS
<1>8. CASE SegmentNewFails
  BY <1>1, <1>8, ParsedKeeps DEF SegmentNewFails
<1> QED  BY <1>2, <1>3, <1>4, <1>5, <1>6, <1>7, <1>8

LEMMA TruncatedKeeps ==
  ASSUME DecoderInv, Truncated
  PROVE  DecoderInv' /\ QueuedKept
BY StageKeeps DEF Truncated

LEMMA FailsKeeps ==
  ASSUME DecoderInv, Fails \/ Crashes
  PROVE  DecoderInv' /\ QueuedKept
BY StageKeeps DEF Fails, Crashes, Decodes

-----------------------------------------------------------------------------
(* Pages and regions that are added                                        *)

\* Making a page.
LEMMA NewPageKeeps ==
  ASSUME DecoderInv, job.stage = "parsed", NEW p \in PageId \ InUse, NewPage(p)
  PROVE  DecoderInv' /\ QueuedKept
<1>1. PICK pcs \in Compositions :
        /\ page' = With(page, p,
             [status |-> "new", dds |-> FALSE, regions |-> << >>,
              displayset |-> [job.set EXCEPT !.pcs = pcs],
              ours |-> pcs # NULL /\ pcs.ours, version |-> IF pcs = NULL THEN 0 ELSE pcs.version])
        /\ job' = [job EXCEPT !.page = p, !.set = EmptySet, !.stage = PageStage]
        /\ UNCHANGED << latestDisplayPage, pixmap >>
  BY DEF NewPage
<1> DEFINE made == [status |-> "new", dds |-> FALSE, regions |-> << >>,
                    displayset |-> [job.set EXCEPT !.pcs = pcs],
                    ours |-> pcs # NULL /\ pcs.ours,
                    version |-> IF pcs = NULL THEN 0 ELSE pcs.version]
<1>2. /\ made.status = "new" /\ made.displayset.pcs = pcs /\ "pcs" \in DOMAIN made.displayset
      /\ DOMAIN made.regions = {}
      /\ DOMAIN made = {"status", "dds", "regions", "displayset", "ours", "version"}
  <2>1. "pcs" \in DOMAIN job.set
    BY DEF DecoderInv, JobShape
  <2>2. DOMAIN << >> = {}
    OBVIOUS
  <2> QED  BY <2>1, <2>2
<1>3. page' = With(page, p, made)
  BY <1>1
<1> HIDE DEF made
<1>4. /\ InUse' = InUse \cup {p} /\ page'[p] = made
      /\ \A q \in InUse : q # p /\ page'[q] = page[q]
  <2>1. /\ DOMAIN page' = DOMAIN page \cup {p}
        /\ page'[p] = made
        /\ \A q \in DOMAIN page \ {p} : page'[q] = page[q]
    BY <1>3 DEF With
  <2>2. p \notin DOMAIN page
    BY DEF InUse
  <2> QED  BY <2>1, <2>2 DEF InUse
<1>5. job'.page = p /\ job'.stage = PageStage /\ job'.set = EmptySet /\ DOMAIN job' = DOMAIN job
  BY <1>1 DEF DecoderInv, JobShape
<1>6. p # NULL
  BY NullIsNoPage
<1>7. PageStage \in Composed => pcs # NULL
  BY DEF PageStage, Compositions, Composed
<1>8. PageStage \notin Early
  BY DEF PageStage, Early
<1>9. JobShape'
  BY <1>2, <1>4, <1>5, <1>6, <1>7, <1>8 DEF DecoderInv, JobShape, Set, Decoding, EmptySet, PageStage
<1>10. job.page = NULL
  BY DEF DecoderInv, JobShape, Early
<1>11. PagesShape'
  <2>1. ASSUME NEW q \in InUse
        PROVE  /\ PageShape(page'[q]) /\ OwnPixmaps(q, page'[q], DOMAIN pixmap')
               /\ page'[q].status = "new" <=> q = job'.page
    <3>1. q # p /\ page'[q] = page[q] /\ q \in PageId /\ job'.page = p /\ pixmap' = pixmap
      BY <1>1, <1>4, <1>5 DEF DecoderInv, PagesShape
    <3>2. /\ PageShape(page[q]) /\ OwnPixmaps(q, page[q], DOMAIN pixmap)
          /\ page[q].status = "new" <=> q = job.page
      BY DEF DecoderInv, PagesShape
    <3>3. q # NULL
      BY <3>1, NullIsNoPage
    <3> QED  BY <1>10, <3>1, <3>2, <3>3
  <2>2. PageShape(made) /\ OwnPixmaps(p, made, DOMAIN pixmap')
    BY <1>2 DEF PageShape, OwnPixmaps
  <2> QED  BY <1>2, <1>4, <1>5, <2>1, <2>2 DEF DecoderInv, PagesShape
<1>12. PixmapsOwned'
  BY <1>1, <1>4 DEF DecoderInv, PixmapsOwned
<1>13. LatestIsDecodable'
  BY <1>1, <1>4, <1>5 DEF DecoderInv, LatestIsDecodable, Latest
<1>14. QueuedKept
  BY <1>1, <1>4, OwnNames DEF DecoderInv, QueuedKept
<1> QED  BY <1>9, <1>11, <1>12, <1>13, <1>14 DEF DecoderInv

LEMMA DisplayPageNewKeeps ==
  ASSUME DecoderInv, DisplayPageNew
  PROVE  DecoderInv' /\ QueuedKept
BY NewPageKeeps, FailsKeeps DEF DisplayPageNew

\* What the steps that decode have in common: the page being decoded changes, keeps its
\* status and its display set, and its regions have pixmaps of their own; the other pages
\* and their pixmaps stay as they are.
LEMMA DecodingKeeps ==
  ASSUME DecoderInv, job.page # NULL,
         latestDisplayPage' = latestDisplayPage,
         DOMAIN page' = DOMAIN page,
         \A q \in InUse \ {job.page} : page'[q] = page[q],
         page'[job.page].status = page[job.page].status,
         page'[job.page].displayset = page[job.page].displayset,
         PageShape(page'[job.page]),
         OwnPixmaps(job.page, page'[job.page], DOMAIN pixmap'),
         DOMAIN page[job.page].regions \subseteq DOMAIN page'[job.page].regions,
         \A x \in DOMAIN pixmap' \ DOMAIN pixmap :
           \E r \in DOMAIN page'[job.page].regions : x = << job.page, r >>,
         \A q \in InUse \ {job.page} : \A r :
           << q, r >> \in DOMAIN pixmap =>
             /\ << q, r >> \in DOMAIN pixmap'
             /\ pixmap'[<< q, r >>] = pixmap[<< q, r >>],
         job'.page = job.page, JobShape'
  PROVE  DecoderInv' /\ QueuedKept
<1>1. InUse' = InUse /\ job.page \in InUse
  BY DEF InUse, DecoderInv, JobShape
<1>2. ASSUME NEW q \in InUse \ {job.page}
      PROVE  /\ PageShape(page[q]) /\ OwnPixmaps(q, page[q], DOMAIN pixmap)
             /\ page[q].status # "new"
  BY <1>2 DEF DecoderInv, PagesShape
<1>3. page[job.page].status = "new"
  BY <1>1 DEF DecoderInv, PagesShape
<1>4. ASSUME NEW q \in InUse \ {job.page} PROVE OwnPixmaps(q, page'[q], DOMAIN pixmap')
  BY <1>2 DEF OwnPixmaps
<1>5. PagesShape'
  BY <1>1, <1>2, <1>3, <1>4 DEF DecoderInv, PagesShape
<1>6. PixmapsOwned'
  <2>1. ASSUME NEW x \in DOMAIN pixmap'
        PROVE  \E p \in InUse : \E r \in DOMAIN page'[p].regions : x = << p, r >>
    <3>1. CASE x \in DOMAIN pixmap
      <4>1. PICK p \in InUse : \E r \in DOMAIN page[p].regions : x = << p, r >>
        BY <3>1 DEF DecoderInv, PixmapsOwned
      <4>2. DOMAIN page[p].regions \subseteq DOMAIN page'[p].regions
        OBVIOUS
      <4> QED  BY <4>1, <4>2
    <3>2. CASE x \notin DOMAIN pixmap
      BY <1>1, <3>2
    <3> QED  BY <3>1, <3>2
  <2> QED  BY <1>1, <2>1 DEF PixmapsOwned
<1>7. LatestIsDecodable'
  BY <1>1 DEF DecoderInv, LatestIsDecodable, Latest
<1>8. QueuedKept
  <2>1. ASSUME NEW q \in InUse, page[q].status # "new"
        PROVE  /\ page'[q].regions = page[q].regions
               /\ PixmapsOf(q) \subseteq DOMAIN pixmap'
               /\ \A x \in PixmapsOf(q) : pixmap'[x] = pixmap[x]
    <3>1. q # job.page
      BY <1>3, <2>1
    <3>2. \A x \in PixmapsOf(q) : x \in DOMAIN pixmap /\ \E r : x = << q, r >>
      BY OwnNames DEF DecoderInv
    <3> QED  BY <3>1, <3>2
  <2> QED  BY <2>1 DEF QueuedKept
<1> QED  BY <1>5, <1>6, <1>7, <1>8 DEF DecoderInv

\* The pages stay but for regions and flags of the page being decoded.
OthersKept ==
  /\ DOMAIN page' = DOMAIN page
  /\ page'[job.page].displayset = page[job.page].displayset
  /\ \A q \in InUse \ {job.page} : page'[q] = page[q]

\* The job goes on to a stage of decoding with the regions of left still to do.
LEMMA JobGoesOn ==
  ASSUME DecoderInv, job.page # NULL, Set.pcs # NULL,
         NEW stage \in {"decoding", "copying", "updating"}, NEW left,
         stage = "copying" => CopiesLatest(left),
         job' = [job EXCEPT !.stage = stage, !.left = left],
         latestDisplayPage' = latestDisplayPage,
         DOMAIN page' = DOMAIN page,
         \A q \in InUse \ {job.page} : page'[q] = page[q],
         page'[job.page].displayset = page[job.page].displayset
  PROVE  job'.page = job.page /\ JobShape'
<1>1. /\ job'.page = job.page /\ job'.set = job.set /\ job'.stage = stage
      /\ job'.left = left /\ DOMAIN job' = DOMAIN job
  BY DEF DecoderInv, JobShape
<1>2. Set'.pcs = Set.pcs
  BY <1>1 DEF Set, Decoding
<1>3. CopiesLatest(left) => CopiesLatest(left)'
  BY DEF CopiesLatest, Latest, DecoderInv, LatestIsDecodable
<1> QED  BY <1>1, <1>2, <1>3 DEF DecoderInv, JobShape, InUse, Early, Composed

LEMMA BeginKeeps ==
  ASSUME DecoderInv, job.page # NULL, Set.pcs # NULL,
         NEW stage \in {"decoding", "copying"}, NEW left, NEW dds, Begin(stage, left, dds),
         stage = "copying" => CopiesLatest(left)
  PROVE  DecoderInv' /\ QueuedKept
<1> DEFINE p == job.page
<1>1. p \in InUse /\ p \in DOMAIN page /\ PageShape(page[p]) /\ OwnPixmaps(p, page[p], DOMAIN pixmap)
  BY DEF DecoderInv, JobShape, PagesShape, InUse
<1>2. /\ page' = [page EXCEPT ![p].dds = dds]
      /\ UNCHANGED << latestDisplayPage, pixmap >>
      /\ job' = [job EXCEPT !.stage = stage, !.left = left]
  BY DEF Begin
<1> HIDE DEF p
<1>3. /\ DOMAIN page' = DOMAIN page
      /\ \A q \in InUse \ {p} : page'[q] = page[q]
      /\ page'[p] = [page[p] EXCEPT !.dds = dds]
  BY <1>1, <1>2 DEF InUse
<1>4. /\ DOMAIN page'[p] = DOMAIN page[p]
      /\ page'[p].status = page[p].status
      /\ page'[p].displayset = page[p].displayset
      /\ page'[p].regions = page[p].regions
  BY <1>1, <1>3 DEF PageShape
<1>5. PageShape(page'[p]) /\ OwnPixmaps(p, page'[p], DOMAIN pixmap')
  BY <1>1, <1>2, <1>4 DEF PageShape, OwnPixmaps
<1>6. job'.page = job.page /\ JobShape'
  BY <1>2, <1>3, <1>4, JobGoesOn DEF p
<1> QED  BY <1>2, <1>3, <1>4, <1>5, <1>6, DecodingKeeps DEF p

LEMMA decodeKeeps ==
  ASSUME DecoderInv, decodeEpochDisplayset \/ decodeNormalCaseDisplayset
  PROVE  DecoderInv' /\ QueuedKept
<1>1. CASE decodeEpochDisplayset
  <2>1. job.page # NULL /\ Set.pcs # NULL
    BY <1>1 DEF decodeEpochDisplayset, DecoderInv, JobShape, Composed
  <2> QED  BY <1>1, <2>1, BeginKeeps, FailsKeeps DEF decodeEpochDisplayset
<1>2. CASE decodeNormalCaseDisplayset
  <2>1. job.page # NULL
    BY <1>2 DEF decodeNormalCaseDisplayset, DecoderInv, JobShape
  <2>2. CASE Set.pcs = NULL
    BY <1>2, <2>2, FailsKeeps DEF decodeNormalCaseDisplayset
  <2>3. CASE Set.pcs # NULL
    BY <1>2, <2>1, <2>3, BeginKeeps, FailsKeeps DEF decodeNormalCaseDisplayset, CopiesLatest
  <2> QED  BY <2>2, <2>3
<1> QED  BY <1>1, <1>2

\* A region with a pixmap of its own is added to the page.
LEMMA AddKeeps ==
  ASSUME DecoderInv, job.page # NULL, NEW r, NEW region, NEW pixels,
         {"pixmap", "visible", "version", "clut"} \subseteq DOMAIN region,
         region.pixmap = << job.page, r >>,
         NewPixmap(r, pixels),
         page' = [page EXCEPT ![job.page].regions = With(@, r, region)],
         latestDisplayPage' = latestDisplayPage, job'.page = job.page,
         OthersKept => JobShape'
  PROVE  DecoderInv' /\ QueuedKept
<1> DEFINE p == job.page
<1>1. p \in InUse /\ p \in DOMAIN page /\ PageShape(page[p]) /\ OwnPixmaps(p, page[p], DOMAIN pixmap)
  BY DEF DecoderInv, JobShape, PagesShape, InUse
<1>2. pixmap' = With(pixmap, << p, r >>, pixels)
  BY DEF NewPixmap
<1>3. page' = [page EXCEPT ![p].regions = With(@, r, region)] /\ region.pixmap = << p, r >>
  OBVIOUS
<1> HIDE DEF p
<1>4. /\ DOMAIN page' = DOMAIN page
      /\ \A q \in InUse \ {p} : page'[q] = page[q]
      /\ page'[p] = [page[p] EXCEPT !.regions = With(@, r, region)]
  BY <1>1, <1>3 DEF InUse
<1>5. /\ DOMAIN page'[p] = DOMAIN page[p]
      /\ page'[p].status = page[p].status
      /\ page'[p].displayset = page[p].displayset
      /\ page'[p].regions = With(page[p].regions, r, region)
  BY <1>1, <1>4 DEF PageShape
<1>6. /\ DOMAIN page'[p].regions = DOMAIN page[p].regions \cup {r}
      /\ page'[p].regions[r] = region
      /\ \A s \in DOMAIN page[p].regions \ {r} : page'[p].regions[s] = page[p].regions[s]
  BY <1>5 DEF With
<1>7. /\ DOMAIN pixmap' = DOMAIN pixmap \cup {<< p, r >>}
      /\ \A x \in DOMAIN pixmap \ {<< p, r >>} : pixmap'[x] = pixmap[x]
  BY <1>2 DEF With
<1>8. PageShape(page'[p])
  BY <1>1, <1>5, <1>6 DEF PageShape
<1>9. OwnPixmaps(p, page'[p], DOMAIN pixmap')
  BY <1>1, <1>3, <1>6, <1>7 DEF OwnPixmaps
<1>10. \A q \in InUse \ {p} : \A s : << q, s >> \in DOMAIN pixmap =>
          << q, s >> \in DOMAIN pixmap' /\ pixmap'[<< q, s >>] = pixmap[<< q, s >>]
  BY <1>7
<1>11. \A x \in DOMAIN pixmap' \ DOMAIN pixmap : \E s \in DOMAIN page'[p].regions : x = << p, s >>
  BY <1>6, <1>7
<1>12. JobShape'
  BY <1>4, <1>5 DEF p, OthersKept
<1> QED  BY <1>4, <1>5, <1>6, <1>8, <1>9, <1>10, <1>11, <1>12, DecodingKeeps DEF p

LEMMA DecodeRegionKeeps ==
  ASSUME DecoderInv, DecodeRegion
  PROVE  DecoderInv' /\ QueuedKept
<1>1. job.stage = "decoding" /\ job.page # NULL /\ Set.pcs # NULL
  BY DEF DecodeRegion, DecoderInv, JobShape, Composed
<1>2. PICK r \in job.left :
        \/ Fails \/ Crashes
        \/ job' = [job EXCEPT !.left = Left(r)] /\ Decodes
        \/ /\ NewPixmap(r, DecodeRCS(r, Blank))
           /\ page' = [page EXCEPT ![job.page].regions = With(@, r,
                [version |-> Set.rcs[r].version, clut |-> DecodeCDS(r), pixmap |-> << job.page, r >>,
                 visible |-> r \in Set.pcs.shows])]
           /\ job' = [job EXCEPT !.left = Left(r)]
           /\ UNCHANGED latestDisplayPage
  BY DEF DecodeRegion
<1>3. job' = [job EXCEPT !.left = Left(r)] => job' = [job EXCEPT !.stage = "decoding", !.left = Left(r)]
  BY <1>1 DEF DecoderInv, JobShape
<1>4. CASE Fails \/ Crashes
  BY <1>4, FailsKeeps
<1>5. CASE job' = [job EXCEPT !.left = Left(r)] /\ Decodes
  <2>1. job'.page = job.page /\ JobShape'
    BY <1>1, <1>3, <1>5, JobGoesOn DEF Decodes
  <2> QED  BY <1>5, <2>1, JobStep DEF Decodes
<1>6. CASE /\ NewPixmap(r, DecodeRCS(r, Blank))
           /\ page' = [page EXCEPT ![job.page].regions = With(@, r,
                [version |-> Set.rcs[r].version, clut |-> DecodeCDS(r), pixmap |-> << job.page, r >>,
                 visible |-> r \in Set.pcs.shows])]
           /\ job' = [job EXCEPT !.left = Left(r)]
           /\ UNCHANGED latestDisplayPage
  <2> DEFINE region == [version |-> Set.rcs[r].version, clut |-> DecodeCDS(r),
                        pixmap |-> << job.page, r >>, visible |-> r \in Set.pcs.shows]
  <2>1. /\ {"pixmap", "visible", "version", "clut"} \subseteq DOMAIN region
        /\ region.pixmap = << job.page, r >>
    OBVIOUS
  <2>2. page' = [page EXCEPT ![job.page].regions = With(@, r, region)]
    BY <1>6
  <2> HIDE DEF region
  <2>3. job'.page = job.page
    BY <1>6 DEF DecoderInv, JobShape
  <2>4. OthersKept => JobShape'
    BY <1>1, <1>3, <1>6, JobGoesOn DEF OthersKept
  <2> QED  BY <1>1, <1>6, <2>1, <2>2, <2>3, <2>4, AddKeeps
<1> QED  BY <1>2, <1>4, <1>5, <1>6

LEMMA CopyRegionKeeps ==
  ASSUME DecoderInv, CopyRegion
  PROVE  DecoderInv' /\ QueuedKept
<1>1. job.stage = "copying" /\ job.page # NULL /\ Set.pcs # NULL
  BY DEF CopyRegion, DecoderInv, JobShape, Composed
<1>2. PICK r \in job.left :
        \/ Crashes
        \/ job' = Copied(r) /\ Decodes
        \/ /\ NewPixmap(r, pixmap[Latest.regions[r].pixmap])
           /\ page' = [page EXCEPT ![job.page].regions = With(@, r,
                [DisplayRegionCopy(r) EXCEPT !.visible = r \in Set.pcs.shows])]
           /\ job' = Copied(r)
           /\ UNCHANGED latestDisplayPage
  BY DEF CopyRegion
<1>3. Copied(r) = [job EXCEPT !.stage = IF Left(r) = {} THEN "updating" ELSE "copying",
                              !.left = IF Left(r) = {} THEN DOMAIN Set.rcs ELSE Left(r)]
  BY DEF Copied, DecoderInv, JobShape
<1>4. CASE Crashes
  BY <1>4, FailsKeeps
<1>5. CopiesLatest(job.left) /\ CopiesLatest(Left(r))
  BY <1>1 DEF DecoderInv, JobShape, CopiesLatest, Left
<1>6. CASE job' = Copied(r) /\ Decodes
  <2>1. job'.page = job.page /\ JobShape'
    BY <1>1, <1>3, <1>5, <1>6, JobGoesOn DEF Decodes
  <2> QED  BY <1>6, <2>1, JobStep DEF Decodes
<1>7. CASE /\ NewPixmap(r, pixmap[Latest.regions[r].pixmap])
           /\ page' = [page EXCEPT ![job.page].regions = With(@, r,
                [DisplayRegionCopy(r) EXCEPT !.visible = r \in Set.pcs.shows])]
           /\ job' = Copied(r)
           /\ UNCHANGED latestDisplayPage
  <2> DEFINE region == [DisplayRegionCopy(r) EXCEPT !.visible = r \in Set.pcs.shows]
  <2>1. {"pixmap", "visible", "version", "clut"} \subseteq DOMAIN Latest.regions[r]
    <3>1. latestDisplayPage \in InUse /\ r \in DOMAIN Latest.regions
      BY <1>5 DEF CopiesLatest, DecoderInv, LatestIsDecodable
    <3> QED  BY <3>1 DEF DecoderInv, PagesShape, PageShape, Latest
  <2>2. /\ {"pixmap", "visible", "version", "clut"} \subseteq DOMAIN region
        /\ region.pixmap = << job.page, r >>
    BY <2>1 DEF DisplayRegionCopy
  <2>3. page' = [page EXCEPT ![job.page].regions = With(@, r, region)]
    BY <1>7
  <2> HIDE DEF region
  <2>4. job'.page = job.page
    BY <1>3, <1>7 DEF DecoderInv, JobShape
  <2>5. OthersKept => JobShape'
    BY <1>1, <1>3, <1>5, <1>7, JobGoesOn DEF OthersKept
  <2> QED  BY <1>1, <1>7, <2>2, <2>3, <2>4, <2>5, AddKeeps
<1> QED  BY <1>2, <1>4, <1>6, <1>7

LEMMA UpdateRegionKeeps ==
  ASSUME DecoderInv, UpdateRegion
  PROVE  DecoderInv' /\ QueuedKept
<1>1. job.stage = "updating" /\ job.page # NULL /\ Set.pcs # NULL
  BY DEF UpdateRegion, DecoderInv, JobShape, Composed
<1>2. PICK r \in job.left :
        /\ job' = [job EXCEPT !.left = Left(r)]
        /\ \/ /\ r \in DOMAIN Decoding.regions
              /\ pixmap' = [pixmap EXCEPT ![Decoding.regions[r].pixmap] = DecodeRCS(r, @)]
              /\ page' = [page EXCEPT ![job.page].regions[r] =
                             [@ EXCEPT !.version = Set.rcs[r].version, !.clut = DecodeCDS(r)]]
           \/ UNCHANGED << pixmap, page >>
        /\ UNCHANGED latestDisplayPage
  BY DEF UpdateRegion
<1>3. job'.page = job.page
  BY <1>2 DEF DecoderInv, JobShape
<1>4. OthersKept => JobShape'
  <2>1. job' = [job EXCEPT !.stage = "updating", !.left = Left(r)]
    BY <1>1, <1>2 DEF DecoderInv, JobShape
  <2> QED  BY <1>1, <1>2, <2>1, JobGoesOn DEF OthersKept
<1>5. CASE UNCHANGED << pixmap, page >>
  <2>1. JobShape'
    BY <1>4, <1>5 DEF OthersKept
  <2> QED  BY <1>2, <1>3, <1>5, <2>1, JobStep
<1>6. CASE /\ r \in DOMAIN Decoding.regions
           /\ pixmap' = [pixmap EXCEPT ![Decoding.regions[r].pixmap] = DecodeRCS(r, @)]
           /\ page' = [page EXCEPT ![job.page].regions[r] =
                          [@ EXCEPT !.version = Set.rcs[r].version, !.clut = DecodeCDS(r)]]
  <2> DEFINE p == job.page
             version == Set.rcs[r].version
             clut == DecodeCDS(r)
  <2>1. p \in InUse /\ p \in DOMAIN page /\ PageShape(page[p]) /\ OwnPixmaps(p, page[p], DOMAIN pixmap)
    BY <1>1 DEF DecoderInv, JobShape, PagesShape, InUse
  <2>2. r \in DOMAIN page[p].regions /\ Decoding.regions[r].pixmap = << p, r >>
    BY <1>6, <2>1 DEF Decoding, OwnPixmaps
  <2>3. page' = [page EXCEPT ![p].regions[r] = [@ EXCEPT !.version = version, !.clut = clut]]
    BY <1>6
  <2>4. /\ DOMAIN pixmap' = DOMAIN pixmap
        /\ \A x \in DOMAIN pixmap : x # << p, r >> => pixmap'[x] = pixmap[x]
    BY <1>6, <2>2
  <2> HIDE DEF p, version, clut
  <2>5. /\ DOMAIN page' = DOMAIN page
        /\ \A q \in InUse \ {p} : page'[q] = page[q]
        /\ page'[p] = [page[p] EXCEPT !.regions[r] = [@ EXCEPT !.version = version, !.clut = clut]]
    BY <2>1, <2>3 DEF InUse
  <2>6. /\ DOMAIN page'[p] = DOMAIN page[p]
        /\ page'[p].status = page[p].status
        /\ page'[p].displayset = page[p].displayset
        /\ page'[p].regions =
             [page[p].regions EXCEPT ![r] = [@ EXCEPT !.version = version, !.clut = clut]]
    BY <2>1, <2>5 DEF PageShape
  <2>7. /\ DOMAIN page'[p].regions = DOMAIN page[p].regions
        /\ page'[p].regions[r] = [page[p].regions[r] EXCEPT !.version = version, !.clut = clut]
        /\ \A s \in DOMAIN page[p].regions \ {r} : page'[p].regions[s] = page[p].regions[s]
    BY <2>2, <2>6
  <2>8. /\ DOMAIN page'[p].regions[r] = DOMAIN page[p].regions[r]
        /\ page'[p].regions[r].pixmap = page[p].regions[r].pixmap
    BY <2>1, <2>2, <2>7 DEF PageShape
  <2>9. PageShape(page'[p])
    BY <2>1, <2>6, <2>7, <2>8 DEF PageShape
  <2>10. OwnPixmaps(p, page'[p], DOMAIN pixmap')
    BY <2>1, <2>4, <2>7, <2>8 DEF OwnPixmaps
  <2>11. JobShape'
    BY <1>4, <2>5, <2>6 DEF p, OthersKept
  <2> QED
    BY <1>1, <1>2, <1>3, <2>4, <2>5, <2>6, <2>7, <2>9, <2>10, <2>11, DecodingKeeps DEF p
<1> QED  BY <1>2, <1>5, <1>6

-----------------------------------------------------------------------------
(* Pages that are removed                                                  *)

\* The pixmaps of the pages in P are gone, the others are as they were.
PixmapsGone(P) ==
  /\ DOMAIN pixmap' = DOMAIN pixmap \ UNION {PixmapsOf(p) : p \in P}
  /\ \A x \in DOMAIN pixmap' : pixmap'[x] = pixmap[x]

LEMMA MemoryGone ==
  ASSUME NEW P, MemoryWithout(P)
  PROVE  PixmapsGone(P)
BY DEF MemoryWithout, PixmapsWithout, PixmapsGone

LEMMA NothingGone ==
  ASSUME pixmap' = pixmap
  PROVE  PixmapsGone({})
BY DEF PixmapsGone

\* Removing the pages in P with their pixmaps; of the others at most the status changes.
LEMMA RemovalKeeps ==
  ASSUME DecoderInv, NEW P,
         InUse' = InUse \ P,
         \A q \in InUse \ P :
           /\ DOMAIN page'[q] = DOMAIN page[q]
           /\ page'[q].regions = page[q].regions
           /\ page'[q].displayset = page[q].displayset
           /\ page'[q].status = "new" <=> q = job'.page,
         PixmapsGone(P), P \subseteq InUse,
         JobShape', LatestIsDecodable'
  PROVE  DecoderInv' /\ QueuedKept
<1>1. /\ DOMAIN pixmap' = DOMAIN pixmap \ UNION {PixmapsOf(p) : p \in P}
      /\ \A x \in DOMAIN pixmap' : pixmap'[x] = pixmap[x]
  BY DEF PixmapsGone
<1>2. ASSUME NEW q \in InUse \ P, NEW r \in DOMAIN page[q].regions
      PROVE  << q, r >> \in DOMAIN pixmap'
  <2>1. << q, r >> \in DOMAIN pixmap
    BY DEF DecoderInv, PagesShape, OwnPixmaps
  <2>2. ASSUME NEW p \in P PROVE << q, r >> \notin PixmapsOf(p)
    BY <2>2, OwnNames DEF DecoderInv
  <2> QED  BY <1>1, <2>1, <2>2
<1>3. PagesShape'
  <2>1. ASSUME NEW q \in InUse \ P
        PROVE  PageShape(page'[q]) /\ OwnPixmaps(q, page'[q], DOMAIN pixmap')
    <3>1. PageShape(page[q]) /\ OwnPixmaps(q, page[q], DOMAIN pixmap)
      BY DEF DecoderInv, PagesShape
    <3> QED  BY <1>2, <3>1 DEF PageShape, OwnPixmaps
  <2> QED  BY <2>1 DEF DecoderInv, PagesShape
<1>4. PixmapsOwned'
  <2>1. ASSUME NEW x \in DOMAIN pixmap'
        PROVE  \E q \in InUse \ P : \E r \in DOMAIN page'[q].regions : x = << q, r >>
    <3>1. x \in DOMAIN pixmap /\ \A p \in P : x \notin PixmapsOf(p)
      BY <1>1
    <3>2. PICK q \in InUse : \E r \in DOMAIN page[q].regions : x = << q, r >>
      BY <3>1 DEF DecoderInv, PixmapsOwned
    <3>3. x \in PixmapsOf(q)
      BY <3>2 DEF DecoderInv, PagesShape, OwnPixmaps, PixmapsOf
    <3>4. q \notin P
      BY <3>1, <3>3
    <3> QED  BY <3>2, <3>4
  <2> QED  BY <2>1 DEF PixmapsOwned
<1>5. QueuedKept
  <2>1. ASSUME NEW q \in InUse \ P
        PROVE  PixmapsOf(q) \subseteq DOMAIN pixmap'
    BY <1>2, OwnNames DEF DecoderInv
  <2> QED  BY <1>1, <2>1 DEF QueuedKept
<1> QED  BY <1>3, <1>4, <1>5 DEF DecoderInv

LEMMA IdleShape ==
  ASSUME job' = Idle
  PROVE  JobShape' /\ job'.page = NULL
BY DEF JobShape, Idle, EmptySet, Early, Composed

LEMMA QueueKeeps ==
  ASSUME DecoderInv, Queue
  PROVE  DecoderInv' /\ QueuedKept
<1> DEFINE p == job.page
           superseded == {q \in {latestDisplayPage} \ {NULL} : page[q].status = "retired"}
<1>1. /\ MemoryWithout(superseded)
      /\ page' = [PagesWithout(superseded) EXCEPT ![p].status = "queued"]
      /\ latestDisplayPage' = p /\ job' = Idle
  BY DEF Queue
<1>2. p \in InUse /\ p # NULL /\ Set.pcs # NULL /\ PageShape(page[p])
  BY DEF Queue, DecoderInv, JobShape, Composed, PagesShape
<1>3. superseded \subseteq InUse \ {p}
  BY DEF DecoderInv, LatestIsDecodable
<1> HIDE DEF p, superseded
<1>4. /\ DOMAIN page' = DOMAIN page \ superseded
      /\ page'[p] = [page[p] EXCEPT !.status = "queued"]
      /\ \A q \in DOMAIN page \ (superseded \cup {p}) : page'[q] = page[q]
  BY <1>1, <1>2, <1>3 DEF PagesWithout, InUse
<1>5. /\ DOMAIN page'[p] = DOMAIN page[p] /\ page'[p].status = "queued"
      /\ page'[p].regions = page[p].regions /\ page'[p].displayset = page[p].displayset
  BY <1>2, <1>4 DEF PageShape
<1>6. JobShape' /\ job'.page = NULL
  BY <1>1, IdleShape
<1>7. ASSUME NEW q \in InUse \ superseded
      PROVE  /\ DOMAIN page'[q] = DOMAIN page[q]
             /\ page'[q].regions = page[q].regions
             /\ page'[q].displayset = page[q].displayset
             /\ page'[q].status = "new" <=> q = job'.page
  <2>1. q # NULL /\ (page[q].status = "new" <=> q = p)
    BY NullIsNoPage DEF DecoderInv, PagesShape, p
  <2>2. CASE q = p
    BY <1>5, <1>6, <2>1, <2>2
  <2>3. CASE q # p
    BY <1>4, <1>6, <2>1, <2>3 DEF InUse
  <2> QED  BY <2>2, <2>3
<1>8. InUse' = InUse \ superseded
  BY <1>4 DEF InUse
<1>9. LatestIsDecodable'
  <2>1. p \in InUse' /\ page'[p].displayset.pcs # NULL
    BY <1>2, <1>3, <1>5, <1>8 DEF Set, Decoding, p
  <2> QED  BY <1>1, <1>2, <1>6, <2>1 DEF LatestIsDecodable, Latest
<1>10. PixmapsGone(superseded)
  BY <1>1, MemoryGone
<1> QED  BY <1>3, <1>6, <1>7, <1>8, <1>9, <1>10, RemovalKeeps

LEMMA CleanUpKeeps ==
  ASSUME DecoderInv, CleanUp
  PROVE  DecoderInv' /\ QueuedKept
<1> DEFINE P == {job.page} \ {NULL}
<1>1. page' = PagesWithout({job.page}) /\ job' = Idle /\ latestDisplayPage' = latestDisplayPage
  BY DEF CleanUp
<1>2. P \subseteq InUse /\ NULL \notin InUse
  BY NullIsNoPage DEF DecoderInv, JobShape, PagesShape
<1>3. PixmapsGone(P)
  <2>1. CASE job.page # NULL
    <3>1. P = {job.page} /\ MemoryWithout({job.page})
      BY <2>1 DEF CleanUp, MemoryAfterFailure
    <3> QED  BY <3>1, MemoryGone
  <2>2. CASE job.page = NULL
    <3>1. P = {} /\ pixmap' = pixmap
      BY <2>2 DEF CleanUp, MemoryAfterFailure
    <3> QED  BY <3>1, NothingGone
  <2> QED  BY <2>1, <2>2
<1>4. InUse' = InUse \ P /\ \A q \in InUse \ P : page'[q] = page[q]
  BY <1>1, <1>2 DEF PagesWithout, InUse
<1>5. JobShape' /\ job'.page = NULL
  BY <1>1, IdleShape
<1>6. ASSUME NEW q \in InUse \ P
      PROVE  /\ DOMAIN page'[q] = DOMAIN page[q]
             /\ page'[q].regions = page[q].regions
             /\ page'[q].displayset = page[q].displayset
             /\ page'[q].status = "new" <=> q = job'.page
  BY <1>2, <1>4, <1>5 DEF DecoderInv, PagesShape
<1>7. LatestIsDecodable'
  BY <1>1, <1>4, <1>5, NullIsNoPage DEF DecoderInv, LatestIsDecodable, Latest
<1> QED  BY <1>2, <1>3, <1>4, <1>5, <1>6, <1>7, RemovalKeeps

LEMMA RetireKeeps ==
  ASSUME DecoderInv, NEW p \in PageId, Retire(p)
  PROVE  DecoderInv' /\ QueuedKept
<1>1. /\ job.stage = "idle" /\ job.page = NULL /\ p \in InUse /\ p # NULL
      /\ UNCHANGED << latestDisplayPage, job >>
  BY NullIsNoPage DEF Retire, DecoderInv, JobShape, Early
<1>2. \A q \in InUse : q # NULL /\ page[q].status # "new" /\ PageShape(page[q])
  BY <1>1, NullIsNoPage DEF DecoderInv, PagesShape
<1>3. JobShape'
  BY <1>1 DEF DecoderInv, JobShape, Early, Composed
<1>4. CASE p = latestDisplayPage
  <2>1. page' = [page EXCEPT ![p].status = "retired"] /\ pixmap' = pixmap
    BY <1>4 DEF Retire, IsBase
  <2>2. /\ DOMAIN page' = DOMAIN page
        /\ page'[p] = [page[p] EXCEPT !.status = "retired"]
        /\ \A q \in DOMAIN page \ {p} : page'[q] = page[q]
    BY <1>1, <2>1 DEF InUse
  <2>3. /\ DOMAIN page'[p] = DOMAIN page[p] /\ page'[p].status = "retired"
        /\ page'[p].regions = page[p].regions /\ page'[p].displayset = page[p].displayset
    BY <1>1, <1>2, <2>2 DEF PageShape
  <2>4. InUse' = InUse \ {}
    BY <2>2 DEF InUse
  <2>5. ASSUME NEW q \in InUse \ {}
        PROVE  /\ DOMAIN page'[q] = DOMAIN page[q]
               /\ page'[q].regions = page[q].regions
               /\ page'[q].displayset = page[q].displayset
               /\ page'[q].status = "new" <=> q = job'.page
    BY <1>1, <1>2, <2>2, <2>3 DEF InUse
  <2>6. PixmapsGone({})
    BY <2>1, NothingGone
  <2>7. LatestIsDecodable'
    BY <1>1, <1>4, <2>3, <2>4 DEF DecoderInv, LatestIsDecodable, Latest
  <2> QED  BY <1>3, <2>4, <2>5, <2>6, <2>7, RemovalKeeps
<1>5. CASE p # latestDisplayPage
  <2>1. page' = PagesWithout({p}) /\ MemoryWithout({p})
    BY <1>5 DEF Retire, IsBase
  <2>2. PixmapsGone({p})
    BY <2>1, MemoryGone
  <2>3. InUse' = InUse \ {p} /\ \A q \in InUse \ {p} : page'[q] = page[q]
    BY <2>1 DEF PagesWithout, InUse
  <2>4. ASSUME NEW q \in InUse \ {p}
        PROVE  /\ DOMAIN page'[q] = DOMAIN page[q]
               /\ page'[q].regions = page[q].regions
               /\ page'[q].displayset = page[q].displayset
               /\ page'[q].status = "new" <=> q = job'.page
    BY <1>1, <1>2, <2>3
  <2>5. LatestIsDecodable'
    BY <1>1, <1>5, <2>3 DEF DecoderInv, LatestIsDecodable, Latest
  <2> QED  BY <1>1, <1>3, <2>2, <2>3, <2>4, <2>5, RemovalKeeps
<1> QED  BY <1>4, <1>5

LEMMA ResetKeeps ==
  ASSUME DecoderInv, Reset
  PROVE  DecoderInv' /\ QueuedKept
<1>1. /\ job.page = NULL /\ job' = job /\ latestDisplayPage' = NULL
      /\ page' = PagesWithout(InUse) /\ MemoryWithout(InUse) /\ job.stage = "idle"
  BY DEF Reset, MemoryAfterReset, DecoderInv, JobShape, Early
<1>2. InUse' = InUse \ InUse
  BY <1>1 DEF PagesWithout, InUse
<1>3. PixmapsGone(InUse)
  BY <1>1, MemoryGone
<1>4. JobShape'
  BY <1>1 DEF DecoderInv, JobShape, Early, Composed
<1>5. LatestIsDecodable'
  BY <1>1 DEF LatestIsDecodable
<1> QED  BY <1>2, <1>3, <1>4, <1>5, RemovalKeeps

-----------------------------------------------------------------------------
(* Pixmaps, the latest page and the queued pages                           *)

LEMMA InitIsDecodable == Init => DecoderInv
<1> SUFFICES ASSUME Init PROVE DecoderInv
  OBVIOUS
<1>1. DOMAIN page = {} /\ DOMAIN pixmap = {} /\ job = Idle /\ latestDisplayPage = NULL
  BY DEF Init
<1>2. JobShape
  BY <1>1 DEF JobShape, Idle, EmptySet, Early, Composed
<1> QED  BY <1>1, <1>2 DEF DecoderInv, PagesShape, PixmapsOwned, LatestIsDecodable, InUse

LEMMA StepKeepsDecoderInv ==
  ASSUME DecoderInv, [Next]_vars
  PROVE  DecoderInv' /\ QueuedKept
<1>1. CASE UNCHANGED vars
  <2>1. UNCHANGED << page, latestDisplayPage, pixmap, job >>
    BY <1>1 DEF vars
  <2>2. JobShape'
    BY <2>1 DEF DecoderInv, JobShape, Set, Decoding, CopiesLatest, Latest, InUse
  <2> QED  BY <2>1, <2>2, JobStep
<1>2. CASE \E d \in Epochs \cup Updates \cup Others : Submit(d)
  BY <1>2, SubmitKeeps
<1>3. CASE \E p \in PageId : Retire(p)
  BY <1>3, RetireKeeps
<1> QED
  BY <1>1, <1>2, <1>3, ParsingKeeps, TruncatedKeeps, DisplayPageNewKeeps, decodeKeeps,
     DecodeRegionKeeps, CopyRegionKeeps, UpdateRegionKeeps, QueueKeeps, CleanUpKeeps, ResetKeeps
  DEF Next

LEMMA DecoderInvHolds == Spec => []DecoderInv
BY InitIsDecodable, StepKeepsDecoderInv, PTL DEF Spec

\* Whatever fails and whichever pages are given up in between, decodeNormalCaseDisplayset and
\* DisplayPageNew never read a latest page that is gone, half decoded or without composition.
THEOREM LatestCanBeDecodedUpon == Spec => []LatestIsDecodable
<1>1. DecoderInv => LatestIsDecodable
  BY DEF DecoderInv
<1> QED  BY <1>1, DecoderInvHolds, PTL

\* Every pixmap has one owner: LS_DeletePixmap never frees one that another region draws,
\* and none is left without a region.
THEOREM PixmapsHaveOneOwner == Spec => []OnePixmapEach
<1>1. DecoderInv => OnePixmapEach
  <2> SUFFICES ASSUME DecoderInv PROVE OnePixmapEach
    OBVIOUS
  <2>1. DOMAIN pixmap = UNION {PixmapsOf(p) : p \in InUse}
    <3>1. ASSUME NEW x \in DOMAIN pixmap PROVE \E p \in InUse : x \in PixmapsOf(p)
      BY DEF DecoderInv, PixmapsOwned, PagesShape, OwnPixmaps, PixmapsOf
    <3>2. ASSUME NEW p \in InUse PROVE PixmapsOf(p) \subseteq DOMAIN pixmap
      BY OwnNames DEF DecoderInv
    <3> QED  BY <3>1, <3>2
  <2>2. ASSUME NEW p \in InUse, NEW q \in InUse,
               NEW r \in DOMAIN page[p].regions, NEW s \in DOMAIN page[q].regions,
               page[p].regions[r].pixmap = page[q].regions[s].pixmap
        PROVE  p = q /\ r = s
    <3>1. /\ page[p].regions[r].pixmap = << p, r >>
          /\ page[q].regions[s].pixmap = << q, s >>
      BY DEF DecoderInv, PagesShape, OwnPixmaps
    <3>2. << p, r >> = << q, s >>
      BY <2>2, <3>1, Zenon
    <3> QED  BY <3>2, SMT
  <2> QED  BY <2>1, <2>2 DEF OnePixmapEach
<1> QED  BY <1>1, DecoderInvHolds, PTL

\* Decoding a page, on copies of the latest one's regions, and deleting another leave the
\* regions and pixels of queued pages as they are.
THEOREM QueuedPagesAreKept == Spec => QueuedPagesKeep
<1>1. DecoderInv /\ [Next]_vars => [QueuedKept]_vars
  BY StepKeepsDecoderInv
<1> QED  BY <1>1, DecoderInvHolds, PTL DEF Spec, QueuedPagesKeep, QueuedKept

-----------------------------------------------------------------------------
(* Types                                                                   *)

LEMMA SomeOf ==
  ASSUME NEW S, NEW f \in Some(S)
  PROVE  DOMAIN f \subseteq RegionId /\ \A r \in DOMAIN f : f[r] \in S
BY DEF Some

LEMMA SomeMade ==
  ASSUME NEW S, NEW R \in SUBSET RegionId, NEW f \in [R -> S]
  PROVE  f \in Some(S)
BY DEF Some

LEMMA SomeEmpty ==
  ASSUME NEW S
  PROVE  << >> \in Some(S)
<1>1. << >> \in [{} -> S]
  OBVIOUS
<1> QED  BY <1>1, SomeMade

LEMMA SomeWith ==
  ASSUME NEW S, NEW f \in Some(S), NEW r \in RegionId, NEW v \in S
  PROVE  With(f, r, v) \in Some(S)
<1>1. DOMAIN f \cup {r} \subseteq RegionId
  BY SomeOf
<1>2. With(f, r, v) \in [DOMAIN f \cup {r} -> S]
  BY SomeOf DEF With
<1> QED  BY <1>1, <1>2, SomeMade

\* The types of everything but the counts of blocks, which need MemoryIsOwned.
PagesType == DOMAIN page \subseteq PageId /\ \A p \in DOMAIN page : page[p] \in Page

PixmapsType == DOMAIN pixmap \subseteq PixmapId /\ \A x \in DOMAIN pixmap : pixmap[x] \in Pixels

StreamType ==
  /\ stream \in Stream
  /\ DOMAIN stream.pixels = DOMAIN stream.rcs /\ DOMAIN stream.colours = DOMAIN stream.rcs

RestType ==
  /\ latestDisplayPage \in PageId \cup {NULL}
  /\ intact \in BOOLEAN /\ packets \in 0 .. MaxPackets /\ failures \in 0 .. MaxFailures

\* A region is only decoded if the display set defines it.
LeftIsSent == job.stage \in {"decoding", "updating"} => job.left \subseteq DOMAIN Set.rcs

TypeInv == PagesType /\ PixmapsType /\ StreamType /\ RestType /\ job \in Job /\ LeftIsSent

LEMMA EmptySetType == EmptySet \in Displayset
BY SomeEmpty DEF EmptySet, Displayset

LEMMA IdleType == Idle \in Job
BY EmptySetType DEF Idle, Job, Stage

LEMMA InitType == Init => TypeInv
<1> SUFFICES ASSUME Init PROVE TypeInv
  OBVIOUS
<1>1. DOMAIN page = {} /\ DOMAIN pixmap = {}
  BY DEF Init
<1>2. stream \in Stream
  BY SomeEmpty, DecoderAssumption DEF Init, Stream, Version
<1>3. StreamType /\ PagesType /\ PixmapsType
  BY <1>1, <1>2 DEF Init, PagesType, PixmapsType, StreamType
<1>4. RestType
  <2>1. latestDisplayPage = NULL /\ intact = FALSE /\ packets = 0 /\ failures = 0
    BY DEF Init
  <2>2. 0 \in 0 .. MaxPackets /\ 0 \in 0 .. MaxFailures
    BY DecoderAssumption
  <2> QED  BY <2>1, <2>2 DEF RestType
<1> QED  BY <1>3, <1>4, IdleType DEF Init, TypeInv, LeftIsSent, Idle

LEMMA FailingType ==
  ASSUME TypeInv, NEW failed \in BOOLEAN, Failing(failed)
  PROVE  intact' \in BOOLEAN /\ failures' \in 0 .. MaxFailures
BY DecoderAssumption DEF TypeInv, RestType, Failing

LEMMA RCSWithType ==
  ASSUME NEW v \in Version
  PROVE  RCSWith(v) \subseteq RCS
BY DecoderAssumption DEF RCSWith, RCS

LEMMA NextVersionType ==
  ASSUME NEW v \in Version
  PROVE  NextVersion(v) \in Version
BY DecoderAssumption DEF NextVersion, Version

LEMMA ResentType ==
  ASSUME TypeInv, NEW rcs \in Resent
  PROVE  /\ rcs \in Some(RCS) /\ DOMAIN rcs \subseteq DOMAIN stream.rcs
         /\ \A r \in DOMAIN rcs : \/ rcs[r] = stream.rcs[r]
                                  \/ rcs[r].version = NextVersion(stream.rcs[r].version)
<1>1. PICK R \in Few(DOMAIN stream.rcs) :
        /\ rcs \in [R -> UNION {RCSWith(v) : v \in Version}]
        /\ \A r \in R : \/ rcs[r] = stream.rcs[r]
                        \/ rcs[r].version = NextVersion(stream.rcs[r].version)
  BY DEF Resent
<1>2. R \subseteq DOMAIN stream.rcs /\ DOMAIN stream.rcs \subseteq RegionId
  BY SomeOf DEF Few, TypeInv, StreamType, Stream
<1>3. rcs \in [R -> RCS]
  BY <1>1, RCSWithType
<1> QED  BY <1>1, <1>2, <1>3, SomeMade

LEMMA EpochIs ==
  ASSUME NEW d \in Epochs
  PROVE  /\ d.state = "acquisition" /\ d.ours = TRUE /\ d.version \in Version /\ d.dds = TRUE
         /\ d.rcs \in Some(RCS) /\ d.shows = DOMAIN d.rcs /\ d.cds \subseteq DOMAIN d.rcs
<1>1. 0 \in Version
  BY DecoderAssumption DEF Version
<1>2. PICK rcs \in Some(RCSWith(0)) :
        d \in {[state |-> "acquisition", ours |-> TRUE, version |-> 0, dds |-> TRUE,
                shows |-> DOMAIN rcs, rcs |-> rcs, cds |-> cds] : cds \in SUBSET DOMAIN rcs}
  BY DEF Epochs
<1>5. d.rcs = rcs
  BY <1>2
<1>3. DOMAIN rcs \subseteq RegionId /\ rcs \in [DOMAIN rcs -> RCS]
  BY <1>1, <1>2, RCSWithType DEF Some
<1>4. rcs \in Some(RCS)
  BY <1>3, SomeMade
<1> QED  BY <1>1, <1>2, <1>4, <1>5

LEMMA UpdateIs ==
  ASSUME TypeInv, NEW d \in Updates
  PROVE  /\ d.state \in {"normal", "none"} /\ d.ours = TRUE /\ d.dds = FALSE /\ d.rcs \in Resent
         /\ d.cds \in Coloured(d.rcs)
         /\ d.state = "normal" => d.shows \subseteq DOMAIN stream.rcs /\ d.version \in Version
<1>1. stream.version \in Version
  BY DEF TypeInv, StreamType, Stream
<1>2. PICK rcs \in Resent :
        \/ \E shows \in SUBSET DOMAIN stream.rcs, cds \in Coloured(rcs) : d = Update(shows, rcs, cds)
        \/ \E cds \in Coloured(rcs) : d = UpdateWithoutPCS(rcs, cds)
  BY SMT DEF Updates
<1>3. CASE \E shows \in SUBSET DOMAIN stream.rcs, cds \in Coloured(rcs) : d = Update(shows, rcs, cds)
  BY <1>1, <1>3, NextVersionType DEF Update
<1>4. CASE \E cds \in Coloured(rcs) : d = UpdateWithoutPCS(rcs, cds)
  BY <1>4 DEF UpdateWithoutPCS
<1> QED  BY <1>2, <1>3, <1>4

LEMMA OtherIs ==
  ASSUME NEW d \in Others
  PROVE  /\ \/ d.state \in {"acquisition", "normal"} /\ d.ours = FALSE
            \/ d.state = "reserved" /\ d.ours = TRUE
         /\ d.version \in Version /\ d.dds = FALSE /\ d.shows = {} /\ d.rcs \in Some(RCS)
         /\ d.cds = {}
<1>1. 0 \in Version /\ AnRCS \in RCS
  BY DecoderAssumption DEF Version, AnRCS, RCS
<1>2. << >> \in Some(RCS) /\ \A r \in RegionId : [x \in {r} |-> AnRCS] \in Some(RCS)
  BY <1>1, SomeEmpty, SomeMade
<1>3. \/ /\ d.state \in {"acquisition", "normal"} /\ d.ours = FALSE
         /\ d.rcs \in {<< >>} \cup {[x \in {r} |-> AnRCS] : r \in RegionId}
      \/ d.state = "reserved" /\ d.ours = TRUE /\ d.rcs = << >>
  BY Zenon DEF Others
<1>4. d.version = 0 /\ d.dds = FALSE /\ d.shows = {} /\ d.cds = {}
  BY DEF Others
<1>5. d.rcs \in Some(RCS)
  BY <1>2, <1>3
<1> QED  BY <1>1, <1>3, <1>4, <1>5

\* What any display set has.
LEMMA SubmittedIs ==
  ASSUME TypeInv, NEW d \in Epochs \cup Updates \cup Others
  PROVE  /\ d.state \in {"acquisition", "normal", "reserved", "none"}
         /\ d.ours \in BOOLEAN /\ d.dds \in BOOLEAN /\ d.rcs \in Some(RCS)
         /\ d.cds \subseteq DOMAIN d.rcs
         /\ d.state # "none" => d.shows \subseteq RegionId /\ d.version \in Version
<1>1. stream.rcs \in Some(RCS)
  BY DEF TypeInv, StreamType, Stream
<1>2. DOMAIN stream.rcs \subseteq RegionId
  BY <1>1, SomeOf
<1>3. CASE d \in Epochs
  <2>1. d.rcs \in Some(RCS) /\ DOMAIN d.rcs \subseteq RegionId
    BY <1>3, EpochIs, SomeOf
  <2> QED  BY <1>3, <2>1, EpochIs
<1>4. CASE d \in Updates
  BY <1>2, <1>4, UpdateIs, ResentType DEF Coloured
<1>5. CASE d \in Others
  BY <1>5, OtherIs
<1> QED  BY <1>3, <1>4, <1>5

LEMMA SegmentsType ==
  ASSUME TypeInv, NEW d \in Epochs \cup Updates \cup Others
  PROVE  Segments(d) \subseteq Segment
<1>1. /\ d.state \in {"acquisition", "normal", "reserved", "none"}
      /\ d.ours \in BOOLEAN
      /\ d.state # "none" => d.shows \subseteq RegionId /\ d.version \in Version
      /\ DOMAIN d.rcs \subseteq RegionId /\ \A r \in DOMAIN d.rcs : d.rcs[r] \in RCS
      /\ d.cds \subseteq DOMAIN d.rcs
  BY SubmittedIs, SomeOf
<1>2. \A r \in DOMAIN d.rcs : d.rcs[r].object \in Stamp \cup {NULL}
  BY <1>1 DEF RCS
<1>3. Seg("DDS", NULL, NULL) \in Segment /\ Seg("EDS", NULL, NULL) \in Segment
  BY DEF Seg, Segment
<1>4. d.state # "none" =>
        Seg("PCS", NULL, [ours |-> d.ours, state |-> d.state, version |-> d.version,
                          shows |-> d.shows]) \in Segment
  BY <1>1 DEF Seg, Segment
<1>5. \A r \in DOMAIN d.rcs : Seg("RCS", r, d.rcs[r]) \in Segment /\ Seg("CDS", r, NULL) \in Segment
  BY <1>1 DEF Seg, Segment
<1>6. \A r \in DOMAIN d.rcs : d.rcs[r].object # NULL => Seg("ODS", r, d.rcs[r].object) \in Segment
  BY <1>1, <1>2 DEF Seg, Segment
<1> QED  BY <1>1, <1>3, <1>4, <1>5, <1>6 DEF Segments

LEMMA DrawnType ==
  ASSUME NEW old \in Pixels, NEW rcs \in RCS
  PROVE  Drawn(old, rcs) \in Pixels
BY DEF Drawn, RCS, Pixels

LEMMA BroadcastType ==
  ASSUME TypeInv, NEW d \in Epochs \cup Updates \cup Others
  PROVE  /\ Broadcast(d) \in Stream
         /\ DOMAIN Broadcast(d).pixels = DOMAIN Broadcast(d).rcs
         /\ DOMAIN Broadcast(d).colours = DOMAIN Broadcast(d).rcs
<1>3. ComposedBy(d) \in {"sent", "implied", "other"}
  <2>1. stream.composed \in {"sent", "implied", "other"}
    BY DEF TypeInv, StreamType, Stream
  <2> QED  BY <2>1, SubmittedIs DEF ComposedBy
<1>1. CASE ~d.ours \/ d.state = "reserved"
  <2>1. Broadcast(d) = [stream EXCEPT !.composed = ComposedBy(d)]
    BY <1>1 DEF Broadcast
  <2> QED  BY <1>3, <2>1 DEF TypeInv, StreamType, Stream
<1>2. CASE d.ours /\ d.state # "reserved"
  <2> DEFINE old == IF d.state = "acquisition" THEN << >> ELSE stream.rcs
             was(r) == IF d.state = "acquisition" THEN Blank ELSE stream.pixels[r]
             R == DOMAIN d.rcs \cup DOMAIN old
             pixels == [r \in R |-> IF r \in DOMAIN d.rcs THEN Drawn(was(r), d.rcs[r])
                                    ELSE stream.pixels[r]]
             colours == [r \in R |-> Colours(d, r)]
  <2>1. Broadcast(d) = [shows |-> IF d.state = "none" THEN stream.shows ELSE d.shows,
                        composed |-> ComposedBy(d),
                        version |-> IF d.state = "none" THEN stream.version ELSE d.version,
                        rcs |-> Over(d.rcs, old), pixels |-> pixels, colours |-> colours]
    BY <1>2 DEF Broadcast
  <2>2. /\ d.state \in {"acquisition", "normal", "none"}
        /\ d.rcs \in Some(RCS)
        /\ d.state # "none" => d.shows \subseteq RegionId /\ d.version \in Version
    BY <1>2, SubmittedIs
  <2>3. DOMAIN d.rcs \subseteq RegionId /\ \A r \in DOMAIN d.rcs : d.rcs[r] \in RCS
    BY <2>2, SomeOf
  <2>4. /\ stream.shows \subseteq RegionId /\ stream.version \in Version
        /\ stream.rcs \in Some(RCS) /\ stream.pixels \in Some(Pixels)
        /\ DOMAIN stream.pixels = DOMAIN stream.rcs
        /\ stream.colours \in Some({"sent", "default", "dropped"})
        /\ DOMAIN stream.colours = DOMAIN stream.rcs
    BY DEF TypeInv, StreamType, Stream
  <2>12. \A r \in DOMAIN stream.rcs : stream.colours[r] \in {"sent", "default", "dropped"}
    BY <2>4, SomeOf
  <2>5. /\ \A r \in DOMAIN stream.rcs : stream.pixels[r] \in Pixels
        /\ DOMAIN stream.rcs \subseteq RegionId /\ \A r \in DOMAIN stream.rcs : stream.rcs[r] \in RCS
    BY <2>4, SomeOf
  <2>6. d.state # "acquisition" => DOMAIN d.rcs \subseteq DOMAIN stream.rcs
    BY <1>2, <2>2, EpochIs, UpdateIs, OtherIs, ResentType
  <2>7. DOMAIN << >> = {}
    OBVIOUS
  <2>8. R \subseteq RegionId /\ \A r \in DOMAIN old : old[r] \in RCS /\ stream.pixels[r] \in Pixels
    BY <2>3, <2>5, <2>7
  <2>9. \A r \in DOMAIN d.rcs : Drawn(was(r), d.rcs[r]) \in Pixels
    BY <2>3, <2>5, <2>6, DrawnType DEF Pixels
  <2>10. Over(d.rcs, old) \in [R -> RCS] /\ pixels \in [R -> Pixels]
    BY <2>3, <2>8, <2>9 DEF Over
  <2>11. Over(d.rcs, old) \in Some(RCS) /\ pixels \in Some(Pixels)
         /\ DOMAIN Over(d.rcs, old) = R /\ DOMAIN pixels = R
    BY <2>8, <2>10, SomeMade
  <2>13. \A r \in R : Colours(d, r) \in {"sent", "default", "dropped"}
    <3>1. \A r \in R : d.state # "acquisition" => r \in DOMAIN stream.rcs
      BY <2>6, <2>7
    <3> QED  BY <2>12, <3>1 DEF Colours
  <2>14. colours \in Some({"sent", "default", "dropped"}) /\ DOMAIN colours = R
    <3>1. colours \in [R -> {"sent", "default", "dropped"}]
      BY <2>13
    <3> QED  BY <2>8, <3>1, SomeMade
  <2> HIDE DEF pixels, colours, old, R
  <2> QED  BY <1>3, <2>1, <2>2, <2>4, <2>11, <2>14 DEF Stream
<1> QED  BY <1>1, <1>2, SubmittedIs

LEMMA SubmitType ==
  ASSUME TypeInv, NEW d \in Epochs \cup Updates \cup Others, Submit(d)
  PROVE  TypeInv'
<1>1. job' \in Job
  <2>1. job' = [Idle EXCEPT !.stage = "parsing", !.ours = d.ours, !.todo = Segments(d)]
    BY DEF Submit
  <2> QED  BY <2>1, IdleType, SegmentsType, SubmittedIs DEF Job, Stage
<1>4. job'.stage = "parsing"
  BY DEF Submit, Idle
<1>2. StreamType'
  BY BroadcastType DEF Submit, StreamType
<1>3. RestType'
  <2>1. intact' \in BOOLEAN
    BY SubmittedIs DEF Submit, TypeInv, RestType
  <2>2. packets' \in 0 .. MaxPackets
    BY DecoderAssumption DEF Submit, TypeInv, RestType
  <2> QED  BY <2>1, <2>2 DEF Submit, TypeInv, RestType
<1> QED  BY <1>1, <1>2, <1>3, <1>4 DEF Submit, TypeInv, PagesType, PixmapsType, LeftIsSent

\* Steps that change the job but no page and no pixmap.
LEMMA JobStepType ==
  ASSUME TypeInv, UNCHANGED << page, latestDisplayPage, pixmap, stream, packets >>,
         intact' \in BOOLEAN, failures' \in 0 .. MaxFailures, job' \in Job, LeftIsSent'
  PROVE  TypeInv'
<1>1. PagesType' /\ PixmapsType' /\ StreamType' /\ RestType'
  BY DEF TypeInv, PagesType, PixmapsType, StreamType, RestType
<1> QED  BY <1>1 DEF TypeInv

LEMMA ParsedType ==
  ASSUME TypeInv, job.stage = "parsing", NEW set \in Displayset, NEW todo \in SUBSET Segment,
         Parsed(set, todo), intact' \in BOOLEAN, failures' \in 0 .. MaxFailures
  PROVE  TypeInv'
<1>1. job' = [job EXCEPT !.set = set, !.todo = todo,
                         !.stage = IF todo = {} THEN "parsed" ELSE "parsing"]
  BY DEF Parsed
<1>2. job' \in Job
  BY <1>1 DEF TypeInv, Job, Stage
<1>3. LeftIsSent'
  BY <1>1 DEF TypeInv, Job, LeftIsSent
<1> QED  BY <1>2, <1>3, JobStepType DEF Parsed

LEMMA SegmentIs ==
  ASSUME NEW seg \in Segment
  PROVE  /\ seg.type \in {"DDS", "PCS", "RCS", "CDS", "ODS", "EDS"}
         /\ seg.type = "PCS" =>
              seg.body \in [ours : BOOLEAN, state : {"acquisition", "normal", "reserved"},
                            version : Version, shows : SUBSET RegionId]
         /\ seg.type = "RCS" => seg.id \in RegionId /\ seg.body \in RCS
         /\ seg.type = "CDS" => seg.id \in RegionId
         /\ seg.type = "ODS" => seg.id \in RegionId /\ seg.body \in Stamp
         /\ seg.type \in {"DDS", "PCS", "EDS"} => seg.id = NULL
BY DEF Segment

\* The segment that is parsed next.
LEMMA ParsingIs ==
  ASSUME TypeInv, NEW type, NEW seg \in Parsing(type)
  PROVE  /\ job.stage = "parsing" /\ seg \in job.todo /\ seg.type = type /\ seg \in Segment
         /\ job.set \in Displayset /\ job.todo \in SUBSET Segment
         /\ Without(seg) \in SUBSET Segment
BY DEF Parsing, TypeInv, Job, Without

LEMMA RegionsAreFinite ==
  ASSUME NEW R \in SUBSET RegionId
  PROVE  IsFiniteSet(R) /\ Cardinality(R) \in Nat
BY FS_Subset, FS_CardinalityType, DecoderAssumption

LEMMA ParsePCSType ==
  ASSUME TypeInv, ParsePCS
  PROVE  TypeInv'
<1>0. PICK seg \in Parsing("PCS") : \E shows \in SUBSET seg.body.shows :
        /\ Failing(shows # seg.body.shows)
        /\ Parsed([job.set EXCEPT !.pcs = [ours |-> seg.body.ours, state |-> seg.body.state,
                     version |-> seg.body.version, infos |-> Cardinality(shows), shows |-> shows]],
                  Without(seg))
  BY DEF ParsePCS
<1>1. PICK shows \in SUBSET seg.body.shows :
        /\ Failing(shows # seg.body.shows)
        /\ Parsed([job.set EXCEPT !.pcs = [ours |-> seg.body.ours, state |-> seg.body.state,
                     version |-> seg.body.version, infos |-> Cardinality(shows), shows |-> shows]],
                  Without(seg))
  BY <1>0
<1>2. /\ seg.body \in [ours : BOOLEAN, state : {"acquisition", "normal", "reserved"},
                       version : Version, shows : SUBSET RegionId]
      /\ shows \subseteq RegionId
  BY ParsingIs, SegmentIs
<1>3. Cardinality(shows) \in Nat
  BY <1>2, RegionsAreFinite
<1>4. [ours |-> seg.body.ours, state |-> seg.body.state, version |-> seg.body.version,
       infos |-> Cardinality(shows), shows |-> shows] \in PCS
  BY <1>2, <1>3 DEF PCS
<1>5. [job.set EXCEPT !.pcs = [ours |-> seg.body.ours, state |-> seg.body.state,
         version |-> seg.body.version, infos |-> Cardinality(shows), shows |-> shows]] \in Displayset
  BY <1>4, ParsingIs DEF Displayset
<1>6. intact' \in BOOLEAN /\ failures' \in 0 .. MaxFailures
  BY <1>1, FailingType
<1>7. job.stage = "parsing" /\ Without(seg) \in SUBSET Segment
  BY ParsingIs
<1> QED  BY <1>1, <1>5, <1>6, <1>7, ParsedType

LEMMA ParseRCSType ==
  ASSUME TypeInv, ParseRCS
  PROVE  TypeInv'
<1>0. PICK seg \in Parsing("RCS") : \E object \in {seg.body.object, NULL} :
        /\ Failing(object # seg.body.object)
        /\ Parsed([job.set EXCEPT !.rcs = With(@, seg.id, [seg.body EXCEPT !.object = object])],
                  Without(seg))
  BY DEF ParseRCS
<1>1. PICK object \in {seg.body.object, NULL} :
        /\ Failing(object # seg.body.object)
        /\ Parsed([job.set EXCEPT !.rcs = With(@, seg.id, [seg.body EXCEPT !.object = object])],
                  Without(seg))
  BY <1>0
<1>2. seg.id \in RegionId /\ seg.body \in RCS /\ job.set \in Displayset
  BY ParsingIs, SegmentIs
<1>3. [seg.body EXCEPT !.object = object] \in RCS
  BY <1>2 DEF RCS
<1>4. With(job.set.rcs, seg.id, [seg.body EXCEPT !.object = object]) \in Some(RCS)
  BY <1>2, <1>3, SomeWith DEF Displayset
<1>5. [job.set EXCEPT !.rcs = With(@, seg.id, [seg.body EXCEPT !.object = object])] \in Displayset
  BY <1>2, <1>4 DEF Displayset
<1>6. intact' \in BOOLEAN /\ failures' \in 0 .. MaxFailures
  BY <1>1, FailingType
<1>7. job.stage = "parsing" /\ Without(seg) \in SUBSET Segment
  BY ParsingIs
<1> QED  BY <1>1, <1>5, <1>6, <1>7, ParsedType

LEMMA ParseODSType ==
  ASSUME TypeInv, ParseODS
  PROVE  TypeInv'
<1>0. PICK seg \in Parsing("ODS") : \E object \in {seg.body, NULL} :
        /\ Failing(object = NULL)
        /\ Parsed([job.set EXCEPT !.ods = With(@, seg.id, object)], Without(seg))
  BY DEF ParseODS
<1>1. PICK object \in {seg.body, NULL} :
        /\ Failing(object = NULL)
        /\ Parsed([job.set EXCEPT !.ods = With(@, seg.id, object)], Without(seg))
  BY <1>0
<1>2. seg.id \in RegionId /\ object \in Stamp \cup {NULL} /\ job.set \in Displayset
  BY ParsingIs, SegmentIs
<1>3. With(job.set.ods, seg.id, object) \in Some(Stamp \cup {NULL})
  BY <1>2, SomeWith DEF Displayset
<1>4. [job.set EXCEPT !.ods = With(@, seg.id, object)] \in Displayset
  BY <1>2, <1>3 DEF Displayset
<1>6. intact' \in BOOLEAN /\ failures' \in 0 .. MaxFailures
  BY <1>1, FailingType
<1>7. job.stage = "parsing" /\ Without(seg) \in SUBSET Segment
  BY ParsingIs
<1> QED  BY <1>1, <1>4, <1>6, <1>7, ParsedType

LEMMA OtherParsingType ==
  ASSUME TypeInv, ParseCDS \/ ParseDDS \/ ParseEDS \/ SegmentNewFails
  PROVE  TypeInv'
<1>1. CASE ParseCDS
  <2>1. PICK seg \in Parsing("CDS") :
          /\ Parsed([job.set EXCEPT !.cds = @ \cup {seg.id}], Without(seg))
          /\ UNCHANGED << intact, failures >>
    BY <1>1 DEF ParseCDS
  <2>3. seg.id \in RegionId /\ job.set \in Displayset
    BY ParsingIs, SegmentIs
  <2>2. [job.set EXCEPT !.cds = @ \cup {seg.id}] \in Displayset
    BY <2>3 DEF Displayset
  <2>4. intact' \in BOOLEAN /\ failures' \in 0 .. MaxFailures
    BY <2>1 DEF TypeInv, RestType
  <2>5. job.stage = "parsing" /\ Without(seg) \in SUBSET Segment
    BY ParsingIs
  <2> QED  BY <2>1, <2>2, <2>4, <2>5, ParsedType
<1>2. CASE ParseDDS
  <2>1. PICK seg \in Parsing("DDS") :
          /\ Parsed([job.set EXCEPT !.dds = TRUE], Without(seg))
          /\ UNCHANGED << intact, failures >>
    BY <1>2 DEF ParseDDS
  <2>2. [job.set EXCEPT !.dds = TRUE] \in Displayset
    BY ParsingIs DEF Displayset
  <2>4. intact' \in BOOLEAN /\ failures' \in 0 .. MaxFailures
    BY <2>1 DEF TypeInv, RestType
  <2>5. job.stage = "parsing" /\ Without(seg) \in SUBSET Segment
    BY ParsingIs
  <2> QED  BY <2>1, <2>2, <2>4, <2>5, ParsedType
<1>3. CASE ParseEDS
  <2>1. PICK seg \in Parsing("EDS"), eds \in BOOLEAN :
          /\ ~eds => failures < MaxFailures
          /\ failures' = failures + IF eds THEN 0 ELSE 1
          /\ Parsed([job.set EXCEPT !.eds = eds], {})
          /\ UNCHANGED intact
    BY <1>3 DEF ParseEDS
  <2>2. [job.set EXCEPT !.eds = eds] \in Displayset /\ job.stage = "parsing"
    BY ParsingIs DEF Displayset
  <2>3. intact' \in BOOLEAN /\ failures' \in 0 .. MaxFailures
    BY <2>1, DecoderAssumption DEF TypeInv, RestType
  <2> QED  BY <2>1, <2>2, <2>3, ParsedType
<1>4. CASE SegmentNewFails
  <2>1. job.stage = "parsing" /\ job.set \in Displayset /\ Failing(TRUE) /\ Parsed(job.set, {})
    BY <1>4 DEF SegmentNewFails, TypeInv, Job
  <2>2. intact' \in BOOLEAN /\ failures' \in 0 .. MaxFailures
    BY <2>1, FailingType
  <2> QED  BY <2>1, <2>2, ParsedType
<1> QED  BY <1>1, <1>2, <1>3, <1>4

LEMMA StageType ==
  ASSUME TypeInv, UNCHANGED << page, latestDisplayPage, pixmap, stream, packets >>,
         intact' \in BOOLEAN, failures' \in 0 .. MaxFailures,
         NEW stage \in {"failed", "crashed"}, job' = [job EXCEPT !.stage = stage]
  PROVE  TypeInv'
<1>1. job' \in Job /\ job'.stage = stage
  BY DEF TypeInv, Job, Stage
<1>2. LeftIsSent'
  BY <1>1 DEF LeftIsSent
<1> QED  BY <1>1, <1>2, JobStepType

LEMMA FailsType ==
  ASSUME TypeInv, Fails \/ Crashes, intact' \in BOOLEAN, failures' \in 0 .. MaxFailures
  PROVE  TypeInv'
BY StageType DEF Fails, Crashes, Decodes

LEMMA TruncatedType ==
  ASSUME TypeInv, Truncated
  PROVE  TypeInv'
BY StageType, FailingType DEF Truncated

-----------------------------------------------------------------------------
(* Types of the steps that decode                                          *)

\* The page being decoded, as the stages from "acquisition" on have it.
LEMMA DecodingIs ==
  ASSUME DecoderInv, TypeInv, job.page # NULL
  PROVE  /\ job.page \in InUse /\ job.page \in PageId
         /\ Decoding \in Page /\ Set \in Displayset /\ Set = Decoding.displayset
         /\ Decoding.regions \in Some(Region)
         /\ DOMAIN Set.rcs \subseteq RegionId /\ \A r \in DOMAIN Set.rcs : Set.rcs[r] \in RCS
         /\ \A r \in DOMAIN Set.ods : Set.ods[r] \in Stamp \cup {NULL}
<1>1. job.page \in InUse /\ job.page \in PageId
  BY DEF DecoderInv, JobShape, TypeInv, PagesType, InUse
<1>2. Decoding \in Page
  BY <1>1 DEF TypeInv, PagesType, Decoding, InUse
<1>3. Set \in Displayset /\ Decoding.regions \in Some(Region)
  BY <1>2 DEF Page, Set
<1>4. Set.rcs \in Some(RCS) /\ Set.ods \in Some(Stamp \cup {NULL})
  BY <1>3 DEF Displayset
<1> QED  BY <1>1, <1>2, <1>3, <1>4, SomeOf DEF Set

LEMMA LatestIs ==
  ASSUME DecoderInv, TypeInv, latestDisplayPage # NULL
  PROVE  /\ latestDisplayPage \in InUse /\ Latest \in Page /\ Latest.regions \in Some(Region)
         /\ DOMAIN Latest.regions \subseteq RegionId
         /\ \A r \in DOMAIN Latest.regions :
              /\ Latest.regions[r] \in Region /\ Latest.regions[r].pixmap \in DOMAIN pixmap
              /\ Latest.regions[r].pixmap = << latestDisplayPage, r >>
              /\ pixmap[Latest.regions[r].pixmap] \in Pixels
<1>1. latestDisplayPage \in InUse
  BY DEF DecoderInv, LatestIsDecodable
<1>2. Latest \in Page
  BY <1>1 DEF TypeInv, PagesType, InUse, Latest
<1>3. Latest.regions \in Some(Region)
  BY <1>2 DEF Page
<1>4. \A r \in DOMAIN Latest.regions : /\ Latest.regions[r].pixmap = << latestDisplayPage, r >>
                                       /\ Latest.regions[r].pixmap \in DOMAIN pixmap
  BY <1>1 DEF DecoderInv, PagesShape, OwnPixmaps, Latest
<1> QED  BY <1>1, <1>2, <1>3, <1>4, SomeOf DEF TypeInv, PixmapsType

LEMMA DecodeRCSType ==
  ASSUME DecoderInv, TypeInv, job.page # NULL, NEW r \in DOMAIN Set.rcs, NEW old \in Pixels
  PROVE  DecodeRCS(r, old) \in Pixels
<1>1. \A x \in DOMAIN Set.ods : Set.ods[x] \in Stamp \cup {NULL}
  BY DecodingIs
<1> QED  BY <1>1 DEF DecodeRCS, DecodeODSBitmap, Pixels

LEMMA WithPage ==
  ASSUME PagesType, NEW p \in PageId, NEW f \in Page, DOMAIN page' = DOMAIN page \cup {p},
         page'[p] = f, \A q \in DOMAIN page \ {p} : page'[q] = page[q]
  PROVE  PagesType'
BY DEF PagesType

LEMMA WithPixmap ==
  ASSUME PixmapsType, NEW x \in PixmapId, NEW pixels \in Pixels,
         \A y \in DOMAIN pixmap' : y = x \/ (y \in DOMAIN pixmap /\ pixmap'[y] = pixmap[y]),
         pixmap'[x] = pixels
  PROVE  PixmapsType'
BY DEF PixmapsType

LEMMA CompositionsType ==
  ASSUME DecoderInv, TypeInv, NEW pcs \in Compositions
  PROVE  pcs \in PCS \cup {NULL}
<1>1. job.set.pcs \in PCS \cup {NULL}
  BY DEF TypeInv, Job, Displayset
<1>2. latestDisplayPage # NULL => Latest.displayset.pcs \in PCS
  BY LatestIs DEF Page, Displayset, DecoderInv, LatestIsDecodable
<1>3. ASSUME latestDisplayPage # NULL, NEW s \in SUBSET RegionId
      PROVE  [Latest.displayset.pcs EXCEPT !.shows = s] \in PCS
  BY <1>2, <1>3 DEF PCS
<1> QED  BY <1>1, <1>3 DEF Compositions

LEMMA NewPageType ==
  ASSUME DecoderInv, TypeInv, job.stage = "parsed", NEW p \in PageId \ InUse, NewPage(p)
  PROVE  TypeInv'
<1>1. PICK pcs \in Compositions :
        /\ page' = With(page, p,
             [status |-> "new", dds |-> FALSE, regions |-> << >>,
              displayset |-> [job.set EXCEPT !.pcs = pcs],
              ours |-> pcs # NULL /\ pcs.ours, version |-> IF pcs = NULL THEN 0 ELSE pcs.version])
        /\ job' = [job EXCEPT !.page = p, !.set = EmptySet, !.stage = PageStage]
        /\ Failing(pcs = NULL /\ latestDisplayPage # NULL)
        /\ UNCHANGED << latestDisplayPage, pixmap, stream, packets >>
  BY DEF NewPage
<1> DEFINE made == [status |-> "new", dds |-> FALSE, regions |-> << >>,
                    displayset |-> [job.set EXCEPT !.pcs = pcs],
                    ours |-> pcs # NULL /\ pcs.ours,
                    version |-> IF pcs = NULL THEN 0 ELSE pcs.version]
<1>2. pcs \in PCS \cup {NULL} /\ job.set \in Displayset
  BY CompositionsType DEF TypeInv, Job
<1>3. /\ [job.set EXCEPT !.pcs = pcs] \in Displayset
      /\ (pcs # NULL /\ pcs.ours) \in BOOLEAN
      /\ (IF pcs = NULL THEN 0 ELSE pcs.version) \in Version
  BY <1>2, DecoderAssumption DEF Displayset, PCS, Version
<1>4. made \in Page
  BY <1>3, SomeEmpty DEF Page
<1>5. page' = With(page, p, made)
  BY <1>1
<1> HIDE DEF made
<1>6. PagesType'
  <2>1. /\ DOMAIN page' = DOMAIN page \cup {p} /\ page'[p] = made
        /\ \A q \in DOMAIN page \ {p} : page'[q] = page[q]
    BY <1>5 DEF With
  <2> QED  BY <1>4, <2>1, WithPage DEF TypeInv
<1>7. job' \in Job /\ job'.stage \in {"normal", "acquisition", "failed"}
  BY <1>1, EmptySetType DEF TypeInv, Job, Stage, PageStage
<1>8. intact' \in BOOLEAN /\ failures' \in 0 .. MaxFailures
  <2>1. (pcs = NULL /\ latestDisplayPage # NULL) \in BOOLEAN
    OBVIOUS
  <2> QED  BY <1>1, <2>1, FailingType
<1> QED
  BY <1>1, <1>6, <1>7, <1>8
  DEF TypeInv, PixmapsType, StreamType, RestType, LeftIsSent

LEMMA DisplayPageNewType ==
  ASSUME DecoderInv, TypeInv, DisplayPageNew
  PROVE  TypeInv'
<1>1. CASE \E p \in PageId \ InUse : NewPage(p)
  BY <1>1, NewPageType DEF DisplayPageNew
<1>2. CASE Failing(TRUE) /\ Fails
  BY <1>2, FailingType, FailsType
<1> QED  BY <1>1, <1>2 DEF DisplayPageNew

LEMMA BeginType ==
  ASSUME DecoderInv, TypeInv, job.page # NULL, NEW stage \in {"decoding", "copying"},
         NEW left \in SUBSET RegionId, stage = "decoding" => left \subseteq DOMAIN Set.rcs,
         NEW dds \in BOOLEAN, Begin(stage, left, dds), UNCHANGED << intact, failures >>
  PROVE  TypeInv'
<1> DEFINE p == job.page
<1>1. p \in DOMAIN page /\ p \in PageId /\ page[p] \in Page
  BY DecodingIs DEF InUse, Decoding
<1>2. page' = [page EXCEPT ![p].dds = dds] /\ job' = [job EXCEPT !.stage = stage, !.left = left]
  BY DEF Begin
<1> HIDE DEF p
<1>3. /\ DOMAIN page' = DOMAIN page \cup {p}
      /\ page'[p] = [page[p] EXCEPT !.dds = dds]
      /\ \A q \in DOMAIN page \ {p} : page'[q] = page[q]
  BY <1>1, <1>2
<1>4. [page[p] EXCEPT !.dds = dds] \in Page
  BY <1>1 DEF Page
<1>5. PagesType'
  BY <1>1, <1>3, <1>4, WithPage DEF TypeInv
<1>6. /\ job' \in Job /\ job'.stage = stage /\ job'.left = left /\ job'.page = job.page
  BY <1>2 DEF TypeInv, Job, Stage
<1>7. Set' = Set
  BY <1>1, <1>3, <1>6 DEF Set, Decoding, Page, p
<1>8. LeftIsSent'
  BY <1>6, <1>7 DEF LeftIsSent
<1> QED
  BY <1>5, <1>6, <1>8 DEF Begin, TypeInv, PixmapsType, StreamType, RestType

LEMMA decodeType ==
  ASSUME DecoderInv, TypeInv, decodeEpochDisplayset \/ decodeNormalCaseDisplayset
  PROVE  TypeInv'
<1>1. job.page # NULL /\ intact' \in BOOLEAN /\ failures' \in 0 .. MaxFailures
      /\ UNCHANGED << intact, failures >>
  BY DEF decodeEpochDisplayset, decodeNormalCaseDisplayset, DecoderInv, JobShape, Composed,
         TypeInv, RestType
<1>2. Set.dds \in BOOLEAN /\ DOMAIN Set.rcs \in SUBSET RegionId
  BY <1>1, DecodingIs DEF Displayset
<1>3. latestDisplayPage # NULL => Latest.dds \in BOOLEAN /\ DOMAIN Latest.regions \in SUBSET RegionId
  BY LatestIs DEF Page
<1>4. CASE Fails \/ Crashes
  BY <1>1, <1>4, FailsType
<1>5. CASE Begin("decoding", DOMAIN Set.rcs, Set.dds)
  BY <1>1, <1>2, <1>5, BeginType
<1>6. CASE /\ latestDisplayPage # NULL
           /\ Begin("copying", DOMAIN Latest.regions, Set.dds \/ Latest.dds)
  <2>1. (Set.dds \/ Latest.dds) \in BOOLEAN
    BY <1>2, <1>3, <1>6
  <2> QED  BY <1>1, <1>3, <1>6, <2>1, BeginType
<1> QED  BY <1>4, <1>5, <1>6 DEF decodeEpochDisplayset, decodeNormalCaseDisplayset

\* A region is added to the page being decoded, or one of its regions is redrawn.
Adds(r, region, pixels) ==
  /\ NewPixmap(r, pixels)
  /\ page' = [page EXCEPT ![job.page].regions = With(@, r, region)]

Redraws(r, pixels, version, clut) ==
  /\ pixmap' = [pixmap EXCEPT ![Decoding.regions[r].pixmap] = pixels]
  /\ page' = [page EXCEPT ![job.page].regions[r] =
                 [@ EXCEPT !.version = version, !.clut = clut]]

\* What adding a region does to the page being decoded and to the pixmaps.
LEMMA Added ==
  ASSUME DecoderInv, TypeInv, job.page # NULL, NEW r, NEW region, NEW pixels,
         Adds(r, region, pixels)
  PROVE  /\ DOMAIN page' = DOMAIN page
         /\ \A q \in DOMAIN page \ {job.page} : page'[q] = page[q]
         /\ page'[job.page] = [page[job.page] EXCEPT !.regions = With(page[job.page].regions, r, region)]
         /\ page'[job.page].displayset = page[job.page].displayset
         /\ page'[job.page].regions = With(page[job.page].regions, r, region)
         /\ DOMAIN page'[job.page].regions = DOMAIN page[job.page].regions \cup {r}
         /\ page'[job.page].regions[r] = region
         /\ \A s \in DOMAIN page[job.page].regions \ {r} :
              page'[job.page].regions[s] = page[job.page].regions[s]
         /\ DOMAIN pixmap' = DOMAIN pixmap \cup {<< job.page, r >>}
         /\ pixmap'[<< job.page, r >>] = pixels
         /\ \A x \in DOMAIN pixmap \ {<< job.page, r >>} : pixmap'[x] = pixmap[x]
<1> DEFINE p == job.page
<1>1. p \in DOMAIN page /\ page[p] \in Page
  BY DecodingIs DEF InUse, Decoding
<1>2. pixmap' = With(pixmap, << p, r >>, pixels)
  BY DEF NewPixmap, Adds
<1>3. page' = [page EXCEPT ![p].regions = With(@, r, region)]
  BY DEF Adds
<1> HIDE DEF p
<1>4. /\ DOMAIN page' = DOMAIN page
      /\ \A q \in DOMAIN page \ {p} : page'[q] = page[q]
      /\ page'[p] = [page[p] EXCEPT !.regions = With(@, r, region)]
  BY <1>1, <1>3
<1>5. /\ page'[p].displayset = page[p].displayset
      /\ page'[p].regions = With(page[p].regions, r, region)
  BY <1>1, <1>4 DEF Page
<1>6. /\ DOMAIN page'[p].regions = DOMAIN page[p].regions \cup {r}
      /\ page'[p].regions[r] = region
      /\ \A s \in DOMAIN page[p].regions \ {r} : page'[p].regions[s] = page[p].regions[s]
  BY <1>5 DEF With
<1>7. /\ DOMAIN pixmap' = DOMAIN pixmap \cup {<< p, r >>} /\ pixmap'[<< p, r >>] = pixels
      /\ \A x \in DOMAIN pixmap \ {<< p, r >>} : pixmap'[x] = pixmap[x]
  BY <1>2 DEF With
<1> QED  BY <1>4, <1>5, <1>6, <1>7 DEF p

LEMMA AddType ==
  ASSUME DecoderInv, TypeInv, job.page # NULL, NEW r \in RegionId, NEW region \in Region,
         NEW pixels \in Pixels, Adds(r, region, pixels)
  PROVE  PagesType' /\ PixmapsType' /\ (job'.page = job.page => Set' = Set)
<1>1. job.page \in PageId /\ page[job.page] \in Page
  BY DecodingIs DEF Decoding
<1>2. With(page[job.page].regions, r, region) \in Some(Region)
  BY <1>1, SomeWith DEF Page
<1>3. [page[job.page] EXCEPT !.regions = With(page[job.page].regions, r, region)] \in Page
  BY <1>1, <1>2 DEF Page
<1>4. /\ DOMAIN page' = DOMAIN page
      /\ \A q \in DOMAIN page \ {job.page} : page'[q] = page[q]
      /\ page'[job.page] = [page[job.page] EXCEPT !.regions = With(page[job.page].regions, r, region)]
      /\ page'[job.page].displayset = page[job.page].displayset
      /\ DOMAIN pixmap' = DOMAIN pixmap \cup {<< job.page, r >>}
      /\ \A x \in DOMAIN pixmap \ {<< job.page, r >>} : pixmap'[x] = pixmap[x]
  BY Added
<1>9. pixmap'[<< job.page, r >>] = pixels
  BY DEF Adds, NewPixmap, With
<1>5. PagesType'
  <2>1. job.page \in DOMAIN page
    BY DecodingIs DEF InUse
  <2> QED  BY <1>1, <1>3, <1>4, <2>1, WithPage DEF TypeInv
<1>6. << job.page, r >> \in PixmapId
  BY <1>1 DEF PixmapId
<1>7. PixmapsType'
  BY <1>4, <1>6, <1>9, WithPixmap DEF TypeInv
<1>8. job'.page = job.page => Set' = Set
  BY <1>4 DEF Set, Decoding
<1> QED  BY <1>5, <1>7, <1>8

LEMMA DecodeRegionType ==
  ASSUME DecoderInv, TypeInv, DecodeRegion
  PROVE  TypeInv'
<1>1. job.stage = "decoding" /\ job.page # NULL /\ Set.pcs # NULL
  BY DEF DecodeRegion, DecoderInv, JobShape, Composed
<1>2. PICK r \in job.left :
        \/ Failing(TRUE) /\ (Fails \/ Crashes)
        \/ /\ job' = [job EXCEPT !.left = Left(r)] /\ Decodes /\ UNCHANGED << intact, failures >>
        \/ /\ NewPixmap(r, DecodeRCS(r, Blank))
           /\ page' = [page EXCEPT ![job.page].regions = With(@, r,
                [version |-> Set.rcs[r].version, clut |-> DecodeCDS(r), pixmap |-> << job.page, r >>,
                 visible |-> r \in Set.pcs.shows])]
           /\ job' = [job EXCEPT !.left = Left(r)]
           /\ UNCHANGED << latestDisplayPage, stream, packets, intact, failures >>
  BY DEF DecodeRegion
<1>3. r \in DOMAIN Set.rcs /\ Left(r) \subseteq DOMAIN Set.rcs /\ r \in RegionId
      /\ Left(r) \subseteq RegionId
  BY <1>1, DecodingIs DEF TypeInv, LeftIsSent, Left
<1>4. job' = [job EXCEPT !.left = Left(r)] =>
        /\ job' \in Job /\ job'.page = job.page /\ job'.left = Left(r) /\ job'.stage = "decoding"
  BY <1>1, <1>3 DEF TypeInv, Job
<1>5. CASE Failing(TRUE) /\ (Fails \/ Crashes)
  BY <1>5, FailingType, FailsType
<1>6. CASE job' = [job EXCEPT !.left = Left(r)] /\ Decodes /\ UNCHANGED << intact, failures >>
  <2>1. Set' = Set
    BY <1>4, <1>6 DEF Decodes, Set, Decoding
  <2>2. LeftIsSent'
    BY <1>3, <1>4, <1>6, <2>1 DEF LeftIsSent
  <2> QED  BY <1>4, <1>6, <2>2, JobStepType DEF Decodes, TypeInv, RestType
<1>7. CASE /\ NewPixmap(r, DecodeRCS(r, Blank))
           /\ page' = [page EXCEPT ![job.page].regions = With(@, r,
                [version |-> Set.rcs[r].version, clut |-> DecodeCDS(r), pixmap |-> << job.page, r >>,
                 visible |-> r \in Set.pcs.shows])]
           /\ job' = [job EXCEPT !.left = Left(r)]
           /\ UNCHANGED << latestDisplayPage, stream, packets, intact, failures >>
  <2> DEFINE region == [version |-> Set.rcs[r].version, clut |-> DecodeCDS(r),
                        pixmap |-> << job.page, r >>, visible |-> r \in Set.pcs.shows]
  <2>1. Set.rcs[r] \in RCS /\ job.page \in PageId
    BY <1>1, <1>3, DecodingIs
  <2>2. region \in Region
    BY <1>3, <2>1 DEF Region, RCS, DecodeCDS, PixmapId
  <2>3. DecodeRCS(r, Blank) \in Pixels
    BY <1>1, <1>3, DecodeRCSType DEF Pixels
  <2>4. Adds(r, region, DecodeRCS(r, Blank))
    BY <1>7 DEF Adds
  <2> HIDE DEF region
  <2>5. PagesType' /\ PixmapsType' /\ Set' = Set
    BY <1>1, <1>3, <1>4, <1>7, <2>2, <2>3, <2>4, AddType
  <2>6. LeftIsSent'
    BY <1>3, <1>4, <1>7, <2>5 DEF LeftIsSent
  <2> QED  BY <1>4, <1>7, <2>5, <2>6 DEF TypeInv, StreamType, RestType
<1> QED  BY <1>2, <1>5, <1>6, <1>7

LEMMA CopyRegionType ==
  ASSUME DecoderInv, TypeInv, CopyRegion
  PROVE  TypeInv'
<1>1. job.stage = "copying" /\ job.page # NULL /\ Set.pcs # NULL
      /\ latestDisplayPage # NULL /\ job.left \subseteq DOMAIN Latest.regions
  BY DEF CopyRegion, DecoderInv, JobShape, Composed, CopiesLatest
<1>2. PICK r \in job.left :
        \/ Failing(TRUE) /\ (Crashes \/ (job' = Copied(r) /\ Decodes))
        \/ /\ NewPixmap(r, pixmap[Latest.regions[r].pixmap])
           /\ page' = [page EXCEPT ![job.page].regions = With(@, r,
                [DisplayRegionCopy(r) EXCEPT !.visible = r \in Set.pcs.shows])]
           /\ job' = Copied(r)
           /\ UNCHANGED << latestDisplayPage, stream, packets, intact, failures >>
  BY DEF CopyRegion
<1>3. /\ r \in RegionId /\ Left(r) \subseteq RegionId /\ DOMAIN Set.rcs \subseteq RegionId
      /\ Latest.regions[r] \in Region /\ pixmap[Latest.regions[r].pixmap] \in Pixels
  BY <1>1, LatestIs, DecodingIs DEF Left
<1>4. job' = Copied(r) =>
        /\ job' \in Job /\ job'.page = job.page
        /\ job'.stage \in {"copying", "updating"}
        /\ job'.stage = "updating" => job'.left = DOMAIN Set.rcs
  BY <1>3 DEF TypeInv, Job, Copied, Stage
<1>5. CASE Failing(TRUE) /\ Crashes
  BY <1>5, FailingType, FailsType
<1>6. CASE Failing(TRUE) /\ job' = Copied(r) /\ Decodes
  <2>1. Set' = Set
    BY <1>4, <1>6 DEF Decodes, Set, Decoding
  <2>2. LeftIsSent'
    BY <1>4, <1>6, <2>1 DEF LeftIsSent
  <2>3. intact' \in BOOLEAN /\ failures' \in 0 .. MaxFailures
    BY <1>6, FailingType
  <2> QED  BY <1>4, <1>6, <2>2, <2>3, JobStepType DEF Decodes
<1>7. CASE /\ NewPixmap(r, pixmap[Latest.regions[r].pixmap])
           /\ page' = [page EXCEPT ![job.page].regions = With(@, r,
                [DisplayRegionCopy(r) EXCEPT !.visible = r \in Set.pcs.shows])]
           /\ job' = Copied(r)
           /\ UNCHANGED << latestDisplayPage, stream, packets, intact, failures >>
  <2> DEFINE region == [DisplayRegionCopy(r) EXCEPT !.visible = r \in Set.pcs.shows]
  <2>1. job.page \in PageId
    BY <1>1, DecodingIs
  <2>2. region \in Region
    <3>1. << job.page, r >> \in PixmapId
      BY <1>3, <2>1 DEF PixmapId
    <3>2. DisplayRegionCopy(r) \in Region
      BY <1>3, <3>1 DEF Region, DisplayRegionCopy
    <3>3. (r \in Set.pcs.shows) \in BOOLEAN
      OBVIOUS
    <3> QED  BY <3>2, <3>3 DEF Region
  <2>3. Adds(r, region, pixmap[Latest.regions[r].pixmap])
    BY <1>7 DEF Adds
  <2> HIDE DEF region
  <2>4. PagesType' /\ PixmapsType' /\ Set' = Set
    BY <1>1, <1>3, <1>4, <1>7, <2>2, <2>3, AddType
  <2>5. LeftIsSent'
    BY <1>4, <1>7, <2>4 DEF LeftIsSent
  <2> QED  BY <1>4, <1>7, <2>4, <2>5 DEF TypeInv, StreamType, RestType
<1> QED  BY <1>2, <1>5, <1>6, <1>7

\* What redrawing a region does.
LEMMA Redrawn ==
  ASSUME DecoderInv, TypeInv, job.page # NULL, NEW r \in DOMAIN Decoding.regions,
         NEW pixels, NEW version, NEW clut, Redraws(r, pixels, version, clut)
  PROVE  /\ DOMAIN page' = DOMAIN page
         /\ \A q \in DOMAIN page \ {job.page} : page'[q] = page[q]
         /\ page'[job.page] = [page[job.page] EXCEPT !.regions = page'[job.page].regions]
         /\ page'[job.page].displayset = page[job.page].displayset
         /\ DOMAIN page'[job.page].regions = DOMAIN page[job.page].regions
         /\ page'[job.page].regions[r] =
              [page[job.page].regions[r] EXCEPT !.version = version, !.clut = clut]
         /\ \A s \in DOMAIN page[job.page].regions \ {r} :
              page'[job.page].regions[s] = page[job.page].regions[s]
         /\ DOMAIN pixmap' = DOMAIN pixmap
         /\ << job.page, r >> \in DOMAIN pixmap
         /\ Decoding.regions[r].pixmap = << job.page, r >>
         /\ pixmap'[<< job.page, r >>] = pixels
         /\ \A x \in DOMAIN pixmap \ {<< job.page, r >>} : pixmap'[x] = pixmap[x]
<1> DEFINE p == job.page
<1>1. p \in DOMAIN page /\ page[p] \in Page /\ r \in DOMAIN page[p].regions
  BY DecodingIs DEF InUse, Decoding
<1>2. Decoding.regions[r].pixmap = << p, r >> /\ << p, r >> \in DOMAIN pixmap
  BY <1>1 DEF DecoderInv, PagesShape, OwnPixmaps, InUse, Decoding
<1>3. page' = [page EXCEPT ![p].regions[r] = [@ EXCEPT !.version = version, !.clut = clut]]
  BY DEF Redraws
<1>4. /\ DOMAIN pixmap' = DOMAIN pixmap /\ pixmap'[<< p, r >>] = pixels
      /\ \A x \in DOMAIN pixmap \ {<< p, r >>} : pixmap'[x] = pixmap[x]
  BY <1>2 DEF Redraws
<1> HIDE DEF p
<1>5. /\ DOMAIN page' = DOMAIN page
      /\ \A q \in DOMAIN page \ {p} : page'[q] = page[q]
      /\ page'[p] = [page[p] EXCEPT !.regions[r] = [@ EXCEPT !.version = version, !.clut = clut]]
  BY <1>1, <1>3
<1>8. {"regions", "displayset"} \subseteq DOMAIN page[p]
  BY <1>1 DEF Page
<1>9. /\ page'[p].displayset = page[p].displayset
      /\ page'[p].regions =
           [page[p].regions EXCEPT ![r] = [@ EXCEPT !.version = version, !.clut = clut]]
  BY <1>5, <1>8
<1>10. page'[p] = [page[p] EXCEPT !.regions = page'[p].regions]
  BY <1>5, <1>8
<1>6. r \in DOMAIN page[p].regions
  BY <1>1
<1>7. /\ DOMAIN page'[p].regions = DOMAIN page[p].regions
      /\ page'[p].regions[r] = [page[p].regions[r] EXCEPT !.version = version, !.clut = clut]
      /\ \A s \in DOMAIN page[p].regions \ {r} : page'[p].regions[s] = page[p].regions[s]
  BY <1>6, <1>9
<1> QED  BY <1>2, <1>4, <1>5, <1>7, <1>9, <1>10 DEF p

LEMMA UpdateRegionType ==
  ASSUME DecoderInv, TypeInv, UpdateRegion
  PROVE  TypeInv'
<1>1. job.stage = "updating" /\ job.page # NULL /\ Set.pcs # NULL
  BY DEF UpdateRegion, DecoderInv, JobShape, Composed
<1>2. PICK r \in job.left :
        /\ job' = [job EXCEPT !.left = Left(r)]
        /\ \/ /\ r \in DOMAIN Decoding.regions
              /\ pixmap' = [pixmap EXCEPT ![Decoding.regions[r].pixmap] = DecodeRCS(r, @)]
              /\ page' = [page EXCEPT ![job.page].regions[r] =
                             [@ EXCEPT !.version = Set.rcs[r].version, !.clut = DecodeCDS(r)]]
           \/ UNCHANGED << pixmap, page >>
        /\ UNCHANGED << latestDisplayPage, stream, packets, intact, failures >>
  BY DEF UpdateRegion
<1>3. r \in DOMAIN Set.rcs /\ Left(r) \subseteq DOMAIN Set.rcs /\ Left(r) \subseteq RegionId
  BY <1>1, DecodingIs DEF TypeInv, LeftIsSent, Left
<1>4. job' \in Job /\ job'.page = job.page /\ job'.left = Left(r) /\ job'.stage = "updating"
  BY <1>1, <1>2, <1>3 DEF TypeInv, Job
<1>5. Set' = Set => LeftIsSent'
  BY <1>3, <1>4 DEF LeftIsSent
<1>6. CASE UNCHANGED << pixmap, page >>
  <2>1. LeftIsSent'
    BY <1>4, <1>5, <1>6 DEF Set, Decoding
  <2> QED  BY <1>2, <1>4, <1>6, <2>1, JobStepType DEF TypeInv, RestType
<1>7. CASE /\ r \in DOMAIN Decoding.regions
           /\ pixmap' = [pixmap EXCEPT ![Decoding.regions[r].pixmap] = DecodeRCS(r, @)]
           /\ page' = [page EXCEPT ![job.page].regions[r] =
                          [@ EXCEPT !.version = Set.rcs[r].version, !.clut = DecodeCDS(r)]]
  <2> DEFINE x == Decoding.regions[r].pixmap
             pixels == DecodeRCS(r, pixmap[x])
             version == Set.rcs[r].version
             clut == DecodeCDS(r)
  <2>1. Redraws(r, pixels, version, clut)
    <3>1. x \in DOMAIN pixmap
      BY <1>1, <1>7, DecodingIs DEF DecoderInv, PagesShape, OwnPixmaps, Decoding
    <3> QED  BY <1>7, <3>1 DEF Redraws
  <2>2. job.page \in PageId /\ page[job.page] \in Page /\ job.page \in DOMAIN page
    BY <1>1, DecodingIs DEF Decoding, InUse
  <2>3. x \in DOMAIN pixmap /\ x \in PixmapId /\ pixmap[x] \in Pixels
    BY <1>1, <1>7, <2>2, DecodingIs
    DEF DecoderInv, PagesShape, OwnPixmaps, Decoding, InUse, TypeInv, PixmapsType
  <2>4. pixels \in Pixels
    BY <1>1, <1>3, <2>3, DecodeRCSType
  <2>5. version \in Version /\ clut \in {"sent", "default"}
    BY <1>1, <1>3, DecodingIs DEF RCS, DecodeCDS
  <2>6. pixmap' = [pixmap EXCEPT ![x] = pixels]
    BY <2>1 DEF Redraws
  <2> HIDE DEF x, pixels, version, clut
  <2>7. PixmapsType'
    BY <2>3, <2>4, <2>6, WithPixmap DEF TypeInv
  <2>8. /\ DOMAIN page' = DOMAIN page
        /\ \A q \in DOMAIN page \ {job.page} : page'[q] = page[q]
        /\ page'[job.page] = [page[job.page] EXCEPT !.regions = page'[job.page].regions]
        /\ page'[job.page].displayset = page[job.page].displayset
    BY <1>1, <1>7, <2>1, Redrawn
  <2>12. r \in DOMAIN page[job.page].regions
    BY <1>7 DEF Decoding
  <2>9. page'[job.page].regions \in Some(Region)
    <3>1. page[job.page].regions \in Some(Region)
      BY <2>2 DEF Page
    <3>2. /\ DOMAIN page[job.page].regions \subseteq RegionId
          /\ \A s \in DOMAIN page[job.page].regions : page[job.page].regions[s] \in Region
      BY <3>1, SomeOf
    <3>4. [page[job.page].regions[r] EXCEPT !.version = version, !.clut = clut] \in Region
      BY <2>5, <2>12, <3>2 DEF Region
    <3>6. page'[job.page].regions =
            [page[job.page].regions EXCEPT ![r] = [@ EXCEPT !.version = version, !.clut = clut]]
      BY <2>1, <2>2 DEF Redraws, Page
    <3>7. page'[job.page].regions \in [DOMAIN page[job.page].regions -> Region]
      BY <2>12, <3>2, <3>4, <3>6
    <3> QED  BY <3>2, <3>7, SomeMade
  <2>10. PagesType'
    <3>1. [page[job.page] EXCEPT !.regions = page'[job.page].regions] \in Page
      BY <2>2, <2>9 DEF Page
    <3>2. DOMAIN page' = DOMAIN page \cup {job.page} /\ page'[job.page] \in Page
      BY <2>2, <2>8, <3>1
    <3> QED  BY <2>2, <2>8, <3>2, WithPage DEF TypeInv
  <2>11. Set' = Set
    BY <1>4, <2>8 DEF Set, Decoding
  <2> QED  BY <1>2, <1>4, <1>5, <2>7, <2>10, <2>11 DEF TypeInv, StreamType, RestType
<1> QED  BY <1>2, <1>6, <1>7

LEMMA GoneType ==
  ASSUME PixmapsType, NEW P, PixmapsGone(P)
  PROVE  PixmapsType'
BY DEF PixmapsType, PixmapsGone

LEMMA WithoutType ==
  ASSUME PagesType, NEW P, page' = PagesWithout(P)
  PROVE  PagesType'
BY DEF PagesType, PagesWithout, InUse

LEMMA RetiredType ==
  ASSUME NEW f \in Page, NEW status \in {"queued", "retired"}
  PROVE  [f EXCEPT !.status = status] \in Page
BY DEF Page

LEMMA QueueType ==
  ASSUME DecoderInv, TypeInv, Queue
  PROVE  TypeInv'
<1> DEFINE p == job.page
           superseded == {q \in {latestDisplayPage} \ {NULL} : page[q].status = "retired"}
<1>1. /\ MemoryWithout(superseded)
      /\ page' = [PagesWithout(superseded) EXCEPT ![p].status = "queued"]
      /\ latestDisplayPage' = p /\ job' = Idle
      /\ UNCHANGED << stream, packets, intact, failures >>
  BY DEF Queue
<1>2. p \in DOMAIN page /\ p \in PageId /\ page[p] \in Page /\ p # NULL
  <2>1. job.page # NULL
    BY DEF Queue, DecoderInv, JobShape, Composed
  <2> QED  BY <2>1, DecodingIs DEF InUse, Decoding
<1>3. p \notin superseded
  BY <1>2 DEF DecoderInv, LatestIsDecodable
<1> HIDE DEF superseded
<1>4. /\ DOMAIN page' = DOMAIN page \ superseded
      /\ page'[p] = [page[p] EXCEPT !.status = "queued"]
      /\ \A q \in DOMAIN page \ (superseded \cup {p}) : page'[q] = page[q]
  BY <1>1, <1>2, <1>3 DEF PagesWithout, InUse
<1>5. page'[p] \in Page
  BY <1>2, <1>4, RetiredType
<1>6. PagesType'
  BY <1>4, <1>5 DEF TypeInv, PagesType
<1>7. PixmapsType'
  BY <1>1, MemoryGone, GoneType DEF TypeInv
<1>8. job' \in Job /\ LeftIsSent'
  BY <1>1, IdleType DEF LeftIsSent, Idle
<1> QED  BY <1>1, <1>2, <1>6, <1>7, <1>8 DEF TypeInv, StreamType, RestType

LEMMA CleanUpType ==
  ASSUME DecoderInv, TypeInv, CleanUp
  PROVE  TypeInv'
<1>1. /\ page' = PagesWithout({job.page}) /\ job' = Idle
      /\ UNCHANGED << latestDisplayPage, stream, packets, intact, failures >>
  BY DEF CleanUp
<1>2. PixmapsType'
  <2>1. CASE MemoryWithout({job.page})
    BY <2>1, MemoryGone, GoneType DEF TypeInv
  <2>2. CASE UNCHANGED pixmap
    BY <2>2 DEF TypeInv, PixmapsType
  <2> QED  BY <2>1, <2>2 DEF CleanUp, MemoryAfterFailure
<1>3. PagesType'
  BY <1>1, WithoutType DEF TypeInv
<1>4. job' \in Job /\ LeftIsSent'
  BY <1>1, IdleType DEF LeftIsSent, Idle
<1> QED  BY <1>1, <1>2, <1>3, <1>4 DEF TypeInv, StreamType, RestType

LEMMA RetireType ==
  ASSUME DecoderInv, TypeInv, NEW p \in PageId, Retire(p)
  PROVE  TypeInv'
<1>1. /\ job.stage = "idle" /\ p \in DOMAIN page
      /\ UNCHANGED << latestDisplayPage, job, stream, packets, intact, failures >>
  BY DEF Retire, InUse
<1>2. CASE p = latestDisplayPage
  <2>1. page' = [page EXCEPT ![p].status = "retired"] /\ pixmap' = pixmap
    BY <1>2 DEF Retire, IsBase
  <2>2. PagesType'
    <3>1. [page[p] EXCEPT !.status = "retired"] \in Page
      BY <1>1, RetiredType DEF TypeInv, PagesType
    <3>2. /\ DOMAIN page' = DOMAIN page \cup {p}
          /\ page'[p] = [page[p] EXCEPT !.status = "retired"]
          /\ \A q \in DOMAIN page \ {p} : page'[q] = page[q]
      BY <1>1, <2>1
    <3> QED  BY <3>1, <3>2, WithPage DEF TypeInv
  <2> QED  BY <1>1, <2>1, <2>2 DEF TypeInv, PixmapsType, StreamType, RestType, LeftIsSent
<1>3. CASE p # latestDisplayPage
  <2>1. page' = PagesWithout({p}) /\ MemoryWithout({p})
    BY <1>3 DEF Retire, IsBase
  <2>2. PagesType' /\ PixmapsType'
    BY <2>1, WithoutType, MemoryGone, GoneType DEF TypeInv
  <2> QED  BY <1>1, <2>2 DEF TypeInv, StreamType, RestType, LeftIsSent
<1> QED  BY <1>2, <1>3

LEMMA ResetType ==
  ASSUME DecoderInv, TypeInv, Reset
  PROVE  TypeInv'
<1>1. /\ job.stage = "idle" /\ page' = PagesWithout(InUse) /\ MemoryWithout(InUse)
      /\ latestDisplayPage' = NULL /\ intact' = FALSE
      /\ UNCHANGED << job, stream, packets, failures >>
  BY DEF Reset, MemoryAfterReset
<1>2. PagesType' /\ PixmapsType'
  BY <1>1, WithoutType, MemoryGone, GoneType DEF TypeInv
<1> QED  BY <1>1, <1>2 DEF TypeInv, StreamType, RestType, LeftIsSent

LEMMA StepKeepsTypeInv ==
  ASSUME DecoderInv, TypeInv, [Next]_vars
  PROVE  TypeInv'
<1>1. CASE UNCHANGED vars
  BY <1>1 DEF vars, TypeInv, PagesType, PixmapsType, StreamType, RestType, LeftIsSent, Set, Decoding
<1>2. CASE \E d \in Epochs \cup Updates \cup Others : Submit(d)
  BY <1>2, SubmitType
<1>3. CASE \E p \in PageId : Retire(p)
  BY <1>3, RetireType
<1> QED
  BY <1>1, <1>2, <1>3, ParsePCSType, ParseRCSType, ParseODSType, OtherParsingType, TruncatedType,
     DisplayPageNewType, decodeType, DecodeRegionType, CopyRegionType, UpdateRegionType,
     QueueType, CleanUpType, ResetType
  DEF Next

LEMMA TypeInvHolds == Spec => []TypeInv
BY InitType, StepKeepsTypeInv, DecoderInvHolds, PTL DEF Spec

-----------------------------------------------------------------------------
(* Counting                                                                *)

LEMMA CountUnion ==
  ASSUME NEW S, NEW T, IsFiniteSet(S), IsFiniteSet(T), S \cap T = {}
  PROVE  IsFiniteSet(S \cup T) /\ Cardinality(S \cup T) = Cardinality(S) + Cardinality(T)
<1>1. Cardinality(S) \in Nat /\ Cardinality(T) \in Nat /\ Cardinality(S \cap T) = 0
  BY FS_CardinalityType, FS_EmptySet
<1>2. IsFiniteSet(S \cup T)
      /\ Cardinality(S \cup T) = Cardinality(S) + Cardinality(T) - Cardinality(S \cap T)
  BY FS_Union
<1> QED  BY <1>1, <1>2

LEMMA CountTagged ==
  ASSUME NEW x, NEW S, IsFiniteSet(S)
  PROVE  IsFiniteSet({x} \X S) /\ Cardinality({x} \X S) = Cardinality(S)
<1>1. IsFiniteSet({x}) /\ Cardinality({x}) = 1 /\ Cardinality(S) \in Nat
  BY FS_Singleton, FS_CardinalityType
<1> QED  BY <1>1, FS_Product

LEMMA CountWithout ==
  ASSUME NEW S, IsFiniteSet(S), NEW T \in SUBSET S
  PROVE  /\ IsFiniteSet(S \ T) /\ IsFiniteSet(T)
         /\ Cardinality(S) \in Nat /\ Cardinality(T) \in Nat
         /\ Cardinality(S \ T) = Cardinality(S) - Cardinality(T)
         /\ Cardinality(S \ T) \in Nat
<1>1. S \cap T = T
  OBVIOUS
<1>2. IsFiniteSet(T) /\ Cardinality(T) <= Cardinality(S)
  BY FS_Subset
<1>3. Cardinality(S) \in Nat /\ Cardinality(T) \in Nat
  BY <1>2, FS_CardinalityType
<1>4. IsFiniteSet(S \ T) /\ Cardinality(S \ T) = Cardinality(S) - Cardinality(S \cap T)
  BY FS_Difference
<1> QED  BY <1>1, <1>2, <1>3, <1>4

\* The elements of sets that a function gives, with its arguments.
Tagged(B) == UNION {{p} \X B[p] : p \in DOMAIN B}

TaggedIn(B, P) == UNION {{p} \X B[p] : p \in P}

LEMMA TaggedIs ==
  ASSUME NEW B, NEW x
  PROVE  x \in Tagged(B) <=> \E p \in DOMAIN B : \E b \in B[p] : x = << p, b >>
BY DEF Tagged

LEMMA TaggedSame ==
  ASSUME NEW B, NEW C, DOMAIN C = DOMAIN B, \A p \in DOMAIN B : C[p] = B[p]
  PROVE  Tagged(C) = Tagged(B)
BY DEF Tagged

LEMMA TaggedMore ==
  ASSUME NEW B, NEW C, NEW p, p \notin DOMAIN B, DOMAIN C = DOMAIN B \cup {p},
         \A q \in DOMAIN B : C[q] = B[q], IsFiniteSet(Tagged(B)), IsFiniteSet(C[p])
  PROVE  /\ IsFiniteSet(Tagged(C))
         /\ Cardinality(Tagged(C)) = Cardinality(Tagged(B)) + Cardinality(C[p])
<1>1. Tagged(C) = Tagged(B) \cup ({p} \X C[p])
  BY DEF Tagged
<1>2. Tagged(B) \cap ({p} \X C[p]) = {}
  BY DEF Tagged
<1>3. IsFiniteSet({p} \X C[p]) /\ Cardinality({p} \X C[p]) = Cardinality(C[p])
  BY CountTagged
<1> DEFINE S == Tagged(B)
           T == {p} \X C[p]
<1>4. /\ Tagged(C) = S \cup T /\ S \cap T = {} /\ IsFiniteSet(S) /\ IsFiniteSet(T)
      /\ Cardinality(T) = Cardinality(C[p])
  BY <1>1, <1>2, <1>3
<1> HIDE DEF S, T
<1>5. IsFiniteSet(S \cup T) /\ Cardinality(S \cup T) = Cardinality(S) + Cardinality(T)
  BY <1>4, CountUnion
<1> QED  BY <1>4, <1>5 DEF S

LEMMA TaggedGrown ==
  ASSUME NEW B, NEW C, NEW p \in DOMAIN B, NEW b, b \notin B[p], DOMAIN C = DOMAIN B,
         C[p] = B[p] \cup {b}, \A q \in DOMAIN B \ {p} : C[q] = B[q], IsFiniteSet(Tagged(B))
  PROVE  /\ IsFiniteSet(Tagged(C))
         /\ Cardinality(Tagged(C)) = Cardinality(Tagged(B)) + 1
<1>1. Tagged(C) = Tagged(B) \cup {<< p, b >>}
  <2>1. ASSUME NEW x PROVE x \in Tagged(C) <=> x \in Tagged(B) \cup {<< p, b >>}
    BY TaggedIs
  <2> QED  BY <2>1
<1>2. << p, b >> \notin Tagged(B)
  BY DEF Tagged
<1> DEFINE S == Tagged(B)
           x == << p, b >>
<1>3. Tagged(C) = S \cup {x} /\ x \notin S /\ IsFiniteSet(S)
  BY <1>1, <1>2
<1> HIDE DEF S, x
<1>4. IsFiniteSet(S \cup {x}) /\ Cardinality(S \cup {x}) = Cardinality(S) + 1
  BY <1>3, FS_AddElement
<1> QED  BY <1>3, <1>4 DEF S

LEMMA TaggedLess ==
  ASSUME NEW B, NEW C, NEW P, P \subseteq DOMAIN B,
         DOMAIN C = DOMAIN B \ P, \A q \in DOMAIN C : C[q] = B[q], IsFiniteSet(Tagged(B))
  PROVE  /\ IsFiniteSet(Tagged(C)) /\ Cardinality(Tagged(C)) \in Nat
         /\ Cardinality(Tagged(B)) \in Nat /\ Cardinality(TaggedIn(B, P)) \in Nat
         /\ Cardinality(Tagged(C)) = Cardinality(Tagged(B)) - Cardinality(TaggedIn(B, P))
<1>1. TaggedIn(B, P) \subseteq Tagged(B)
  BY DEF Tagged, TaggedIn
<1>2. Tagged(C) = Tagged(B) \ TaggedIn(B, P)
  BY DEF Tagged, TaggedIn
<1> QED  BY <1>1, <1>2, CountWithout

-----------------------------------------------------------------------------
(* The blocks of a display set                                             *)

LEMMA SegmentBlocksFinite ==
  ASSUME NEW set \in Displayset
  PROVE  IsFiniteSet(SegmentBlocks(set)) /\ Cardinality(SegmentBlocks(set)) \in Nat
<1> DEFINE infos == IF set.pcs = NULL THEN {}
                    ELSE {<< "PCS", NULL >>} \cup {"info"} \X (1 .. set.pcs.infos)
           R == DOMAIN set.rcs
           O == {r \in DOMAIN set.rcs : set.rcs[r].object # NULL}
           D == DOMAIN set.ods
           dds == IF set.dds THEN {<< "DDS", NULL >>} ELSE {}
           eds == IF set.eds THEN {<< "EDS", NULL >>} ELSE {}
<1>1. IsFiniteSet(R) /\ IsFiniteSet(O) /\ IsFiniteSet(set.cds) /\ IsFiniteSet(D)
  <2>1. set.rcs \in Some(RCS) /\ set.ods \in Some(Stamp \cup {NULL}) /\ set.cds \in SUBSET RegionId
    BY DEF Displayset
  <2>2. R \in SUBSET RegionId /\ D \in SUBSET RegionId
    BY <2>1, SomeOf
  <2>3. O \in SUBSET RegionId
    BY <2>2
  <2> HIDE DEF R, O, D
  <2> QED  BY <2>1, <2>2, <2>3, RegionsAreFinite
<1>2. IsFiniteSet(infos)
  <2>1. CASE set.pcs = NULL
    BY <2>1, FS_EmptySet
  <2>2. CASE set.pcs # NULL
    <3>1. set.pcs.infos \in Nat
      BY <2>2 DEF Displayset, PCS
    <3>2. IsFiniteSet(1 .. set.pcs.infos)
      BY <3>1, FS_Interval
    <3>3. IsFiniteSet({"info"} \X (1 .. set.pcs.infos)) /\ IsFiniteSet({<< "PCS", NULL >>})
      BY <3>2, CountTagged, FS_Singleton
    <3> QED  BY <2>2, <3>3, FS_Union
  <2> QED  BY <2>1, <2>2
<1>3. IsFiniteSet(dds) /\ IsFiniteSet(eds) /\ IsFiniteSet({<< "displayset", NULL >>})
  BY FS_EmptySet, FS_Singleton
<1>4. /\ IsFiniteSet({"RCS"} \X R) /\ IsFiniteSet({"object"} \X O) /\ IsFiniteSet({"ODS"} \X D)
      /\ IsFiniteSet({"CDS", "entry"} \X set.cds)
  <2>1. IsFiniteSet({"CDS", "entry"})
    <3>1. {"CDS", "entry"} = {"CDS"} \cup {"entry"} /\ "entry" \notin {"CDS"}
      OBVIOUS
    <3>2. IsFiniteSet({"CDS"})
      BY FS_Singleton
    <3>3. IsFiniteSet({"CDS"} \cup {"entry"})
      BY <3>2, FS_AddElement
    <3> QED  BY <3>1, <3>3
  <2> HIDE DEF R, O, D
  <2> QED  BY <1>1, <2>1, CountTagged, FS_Product
<1> DEFINE A == {<< "displayset", NULL >>} \cup infos
           B == A \cup {"RCS"} \X R
           C == B \cup {"object"} \X O
           E == C \cup {"CDS", "entry"} \X set.cds
           F == E \cup {"ODS"} \X D
           G == F \cup dds
<1>5. SegmentBlocks(set) = G \cup eds
  BY DEF SegmentBlocks
<1> HIDE DEF infos, R, O, D, dds, eds
<1>6. IsFiniteSet(A)
  BY <1>2, <1>3, FS_Union
<1> HIDE DEF A
<1>7. IsFiniteSet(B)
  BY <1>4, <1>6, FS_Union
<1> HIDE DEF B
<1>8. IsFiniteSet(C)
  BY <1>4, <1>7, FS_Union
<1> HIDE DEF C
<1>9. IsFiniteSet(E)
  BY <1>4, <1>8, FS_Union
<1> HIDE DEF E
<1>10. IsFiniteSet(F)
  BY <1>4, <1>9, FS_Union
<1> HIDE DEF F
<1>11. IsFiniteSet(G)
  BY <1>3, <1>10, FS_Union
<1> HIDE DEF G
<1>12. IsFiniteSet(SegmentBlocks(set))
  BY <1>3, <1>5, <1>11, FS_Union
<1> QED  BY <1>12, FS_CardinalityType

LEMMA ObjectBlocksFinite ==
  ASSUME NEW set \in Displayset
  PROVE  IsFiniteSet(ObjectBlocks(set)) /\ Cardinality(ObjectBlocks(set)) \in Nat
<1>1. set.ods \in Some(Stamp \cup {NULL})
  BY DEF Displayset
<1>2. ObjectBlocks(set) \in SUBSET RegionId
  BY <1>1, SomeOf DEF ObjectBlocks
<1> QED  BY <1>2, RegionsAreFinite

LEMMA SegmentBlockIs ==
  ASSUME NEW set, NEW x
  PROVE  x \in SegmentBlocks(set) <=>
           \/ x = << "displayset", NULL >>
           \/ set.pcs # NULL /\ (x = << "PCS", NULL >> \/ \E i \in 1 .. set.pcs.infos : x = << "info", i >>)
           \/ \E r \in DOMAIN set.rcs : x = << "RCS", r >>
           \/ \E r \in DOMAIN set.rcs : set.rcs[r].object # NULL /\ x = << "object", r >>
           \/ \E r \in set.cds : x = << "CDS", r >> \/ x = << "entry", r >>
           \/ \E r \in DOMAIN set.ods : x = << "ODS", r >>
           \/ set.dds /\ x = << "DDS", NULL >>
           \/ set.eds /\ x = << "EDS", NULL >>
BY DEF SegmentBlocks

\* What one more segment adds to the blocks of a display set.
LEMMA BlocksWithPCS ==
  ASSUME NEW set \in Displayset, set.pcs = NULL, NEW pcs \in PCS
  PROVE  /\ SegmentBlocks([set EXCEPT !.pcs = pcs]) =
              SegmentBlocks(set) \cup ({<< "PCS", NULL >>} \cup {"info"} \X (1 .. pcs.infos))
         /\ ObjectBlocks([set EXCEPT !.pcs = pcs]) = ObjectBlocks(set)
<1> DEFINE new == [set EXCEPT !.pcs = pcs]
<1>1. /\ new.pcs = pcs /\ new.rcs = set.rcs /\ new.cds = set.cds /\ new.ods = set.ods
      /\ new.dds = set.dds /\ new.eds = set.eds
  BY DEF Displayset
<1>2. pcs # NULL
  BY NullAssumption
<1> QED  BY <1>1, <1>2 DEF SegmentBlocks, ObjectBlocks

LEMMA BlocksWithRCS ==
  ASSUME NEW set \in Displayset, NEW r \in RegionId, r \notin DOMAIN set.rcs, NEW rcs \in RCS
  PROVE  /\ SegmentBlocks([set EXCEPT !.rcs = With(@, r, rcs)]) =
              SegmentBlocks(set) \cup ({<< "RCS", r >>} \cup
                                       IF rcs.object = NULL THEN {} ELSE {<< "object", r >>})
         /\ ObjectBlocks([set EXCEPT !.rcs = With(@, r, rcs)]) = ObjectBlocks(set)
<1> DEFINE new == [set EXCEPT !.rcs = With(@, r, rcs)]
<1>1. /\ new.rcs = With(set.rcs, r, rcs) /\ new.pcs = set.pcs /\ new.cds = set.cds
      /\ new.ods = set.ods /\ new.dds = set.dds /\ new.eds = set.eds
  BY DEF Displayset
<1>2. /\ DOMAIN new.rcs = DOMAIN set.rcs \cup {r} /\ new.rcs[r] = rcs
      /\ \A s \in DOMAIN set.rcs : new.rcs[s] = set.rcs[s]
  BY <1>1 DEF With
<1>3. {s \in DOMAIN new.rcs : new.rcs[s].object # NULL} =
        {s \in DOMAIN set.rcs : set.rcs[s].object # NULL}
        \cup (IF rcs.object = NULL THEN {} ELSE {r})
  BY <1>2
<1> HIDE DEF new
<1>4. SegmentBlocks(new) = SegmentBlocks(set) \cup ({<< "RCS", r >>} \cup
                                       IF rcs.object = NULL THEN {} ELSE {<< "object", r >>})
  BY <1>1, <1>2, <1>3 DEF SegmentBlocks
<1>5. ObjectBlocks(new) = ObjectBlocks(set)
  BY <1>1 DEF ObjectBlocks
<1> QED  BY <1>4, <1>5 DEF new

LEMMA BlocksWithCDS ==
  ASSUME NEW set \in Displayset, NEW r
  PROVE  /\ SegmentBlocks([set EXCEPT !.cds = @ \cup {r}]) =
              SegmentBlocks(set) \cup ({<< "CDS", r >>} \cup {<< "entry", r >>})
         /\ ObjectBlocks([set EXCEPT !.cds = @ \cup {r}]) = ObjectBlocks(set)
<1> DEFINE new == [set EXCEPT !.cds = @ \cup {r}]
<1>1. /\ new.rcs = set.rcs /\ new.pcs = set.pcs /\ new.cds = set.cds \cup {r}
      /\ new.ods = set.ods /\ new.dds = set.dds /\ new.eds = set.eds
  BY DEF Displayset
<1> QED  BY <1>1 DEF SegmentBlocks, ObjectBlocks

\* The block of an object's data.
Datum(r, object) == IF object = NULL THEN {} ELSE {r}

LEMMA BlocksWithODS ==
  ASSUME NEW set \in Displayset, NEW r \in RegionId, r \notin DOMAIN set.ods, NEW object
  PROVE  /\ SegmentBlocks([set EXCEPT !.ods = With(@, r, object)]) =
              SegmentBlocks(set) \cup {<< "ODS", r >>}
         /\ ObjectBlocks([set EXCEPT !.ods = With(@, r, object)]) =
              ObjectBlocks(set) \cup Datum(r, object)
<1> DEFINE new == [set EXCEPT !.ods = With(@, r, object)]
<1>1. /\ new.rcs = set.rcs /\ new.pcs = set.pcs /\ new.cds = set.cds
      /\ new.ods = With(set.ods, r, object) /\ new.dds = set.dds /\ new.eds = set.eds
  BY DEF Displayset
<1>2. /\ DOMAIN new.ods = DOMAIN set.ods \cup {r} /\ new.ods[r] = object
      /\ \A s \in DOMAIN set.ods : new.ods[s] = set.ods[s]
  BY <1>1 DEF With
<1> HIDE DEF new
<1>3. SegmentBlocks(new) = SegmentBlocks(set) \cup {<< "ODS", r >>}
  BY <1>1, <1>2 DEF SegmentBlocks
<1>4. ObjectBlocks(new) = ObjectBlocks(set) \cup Datum(r, object)
  BY <1>2 DEF ObjectBlocks, Datum
<1> QED  BY <1>3, <1>4 DEF new

LEMMA BlocksWithDDS ==
  ASSUME NEW set \in Displayset, ~set.dds
  PROVE  /\ SegmentBlocks([set EXCEPT !.dds = TRUE]) = SegmentBlocks(set) \cup {<< "DDS", NULL >>}
         /\ ObjectBlocks([set EXCEPT !.dds = TRUE]) = ObjectBlocks(set)
<1> DEFINE new == [set EXCEPT !.dds = TRUE]
<1>1. /\ new.rcs = set.rcs /\ new.pcs = set.pcs /\ new.cds = set.cds
      /\ new.ods = set.ods /\ new.dds = TRUE /\ new.eds = set.eds
  BY DEF Displayset
<1> QED  BY <1>1 DEF SegmentBlocks, ObjectBlocks

LEMMA BlocksWithEDS ==
  ASSUME NEW set \in Displayset, ~set.eds, NEW eds \in BOOLEAN
  PROVE  /\ SegmentBlocks([set EXCEPT !.eds = eds]) =
              SegmentBlocks(set) \cup IF eds THEN {<< "EDS", NULL >>} ELSE {}
         /\ ObjectBlocks([set EXCEPT !.eds = eds]) = ObjectBlocks(set)
<1> DEFINE new == [set EXCEPT !.eds = eds]
<1>1. /\ new.rcs = set.rcs /\ new.pcs = set.pcs /\ new.cds = set.cds
      /\ new.ods = set.ods /\ new.dds = set.dds /\ new.eds = eds
  BY DEF Displayset
<1> QED  BY <1>1 DEF SegmentBlocks, ObjectBlocks

-----------------------------------------------------------------------------
(* Every block has one owner                                               *)

\* The blocks of the display set that no page has yet.
Loose == IF job.stage # "idle" /\ job.page = NULL THEN SegmentBlocks(job.set) ELSE {}

Data == IF job.stage # "idle" /\ job.page = NULL THEN ObjectBlocks(job.set) ELSE {}

\* A segment is parsed once, and what it takes is not there before.
SegmentsAreNew ==
  job.stage = "parsing" =>
    /\ \A seg \in job.todo : << seg.type, seg.id >> \notin SegmentBlocks(job.set)
    /\ \A seg, other \in job.todo : seg.type = other.type /\ seg.id = other.id => seg = other

\* A region is added to the page once.
RegionsAreNew ==
  /\ job.stage \in {"acquisition", "normal"} => DOMAIN Decoding.regions = {}
  /\ job.stage \in {"decoding", "copying"} => job.left \cap DOMAIN Decoding.regions = {}

MemoryInv ==
  /\ IsFiniteSet(BlocksOf(InUse)) /\ IsFiniteSet(CodedOf(InUse))
  /\ composition = Cardinality(BlocksOf(InUse)) + Cardinality(Loose)
  /\ coded = Cardinality(CodedOf(InUse)) + Cardinality(Data)
  /\ SegmentsAreNew /\ RegionsAreNew

LEMMA NoneIsEmpty ==
  /\ IsFiniteSet({}) /\ Cardinality({}) = 0
  /\ SegmentBlocks(EmptySet) = {<< "displayset", NULL >>} /\ ObjectBlocks(EmptySet) = {}
  /\ Cardinality({<< "displayset", NULL >>}) = 1
<1>1. SegmentBlocks(EmptySet) = {<< "displayset", NULL >>} /\ ObjectBlocks(EmptySet) = {}
  BY DEF SegmentBlocks, ObjectBlocks, EmptySet
<1> QED  BY <1>1, FS_EmptySet, FS_Singleton

\* The counts are numbers.
LEMMA CountsAre ==
  ASSUME TypeInv, MemoryInv
  PROVE  /\ IsFiniteSet(Loose) /\ IsFiniteSet(Data)
         /\ Cardinality(Loose) \in Nat /\ Cardinality(Data) \in Nat
         /\ Cardinality(BlocksOf(InUse)) \in Nat /\ Cardinality(CodedOf(InUse)) \in Nat
         /\ composition \in Nat /\ coded \in Nat
<1>1. job.set \in Displayset
  BY DEF TypeInv, Job
<1>2. IsFiniteSet(Loose) /\ IsFiniteSet(Data)
  BY <1>1, SegmentBlocksFinite, ObjectBlocksFinite, NoneIsEmpty DEF Loose, Data
<1>3. /\ Cardinality(Loose) \in Nat /\ Cardinality(Data) \in Nat
      /\ Cardinality(BlocksOf(InUse)) \in Nat /\ Cardinality(CodedOf(InUse)) \in Nat
  BY <1>2, FS_CardinalityType DEF MemoryInv
<1> QED  BY <1>2, <1>3 DEF MemoryInv

LEMMA InitMemory == Init => MemoryInv
<1> SUFFICES ASSUME Init PROVE MemoryInv
  OBVIOUS
<1>1. BlocksOf(InUse) = {} /\ CodedOf(InUse) = {} /\ Loose = {} /\ Data = {}
  BY DEF Init, InUse, BlocksOf, CodedOf, Loose, Data, Idle
<1>2. SegmentsAreNew /\ RegionsAreNew
  BY DEF Init, Idle, SegmentsAreNew, RegionsAreNew
<1> QED  BY <1>1, <1>2, NoneIsEmpty DEF MemoryInv, Init

\* The pages keep their blocks.
LEMMA PagesSame ==
  ASSUME DOMAIN page' = DOMAIN page,
         \A p \in DOMAIN page : /\ page'[p].displayset = page[p].displayset
                                /\ DOMAIN page'[p].regions = DOMAIN page[p].regions
  PROVE  BlocksOf(InUse)' = BlocksOf(InUse) /\ CodedOf(InUse)' = CodedOf(InUse)
<1>1. \A p \in DOMAIN page : PageBlocks(p)' = PageBlocks(p)
  BY DEF PageBlocks
<1>2. BlocksOf(InUse)' = BlocksOf(InUse)
  BY <1>1 DEF BlocksOf, InUse
<1>3. CodedOf(InUse)' = CodedOf(InUse)
  BY DEF CodedOf, InUse
<1> QED  BY <1>2, <1>3

\* A job goes on with the pages as they are.
LEMMA JobMemory ==
  ASSUME TypeInv, MemoryInv, UNCHANGED << composition, coded >>,
         DOMAIN page' = DOMAIN page,
         \A p \in DOMAIN page : /\ page'[p].displayset = page[p].displayset
                                /\ DOMAIN page'[p].regions = DOMAIN page[p].regions,
         Loose' = Loose, Data' = Data, SegmentsAreNew', RegionsAreNew'
  PROVE  MemoryInv'
BY PagesSame DEF MemoryInv

LEMMA SegmentsOnce ==
  ASSUME NEW d, NEW seg \in Segments(d), NEW other \in Segments(d),
         seg.type = other.type, seg.id = other.id
  PROVE  seg = other
BY DEF Segments, Seg

LEMMA SubmitMemory ==
  ASSUME DecoderInv, TypeInv, MemoryInv, NEW d \in Epochs \cup Updates \cup Others, Submit(d)
  PROVE  MemoryInv'
<1>1. /\ job' = [Idle EXCEPT !.stage = "parsing", !.ours = d.ours, !.todo = Segments(d)]
      /\ composition' = composition + 1 /\ coded' = coded /\ page' = page
      /\ job.stage = "idle"
  BY DEF Submit
<1>2. /\ job'.stage = "parsing" /\ job'.set = EmptySet /\ job'.page = NULL
      /\ job'.todo = Segments(d)
  BY <1>1 DEF Idle
<1>3. Loose = {} /\ Data = {} /\ Loose' = {<< "displayset", NULL >>} /\ Data' = {}
  BY <1>1, <1>2, NoneIsEmpty DEF Loose, Data, SegmentBlocks, ObjectBlocks
<1>4. BlocksOf(InUse)' = BlocksOf(InUse) /\ CodedOf(InUse)' = CodedOf(InUse)
  BY <1>1, PagesSame
<1>5. SegmentsAreNew'
  <2>1. \A seg \in Segments(d) : seg.type # "displayset"
    BY SegmentsType, SegmentIs
  <2>2. SegmentBlocks(job.set)' = {<< "displayset", NULL >>}
    BY <1>2, NoneIsEmpty DEF SegmentBlocks
  <2>3. \A seg \in Segments(d) : << seg.type, seg.id >> \notin {<< "displayset", NULL >>}
    BY <2>1
  <2> QED  BY <1>2, <2>2, <2>3, SegmentsOnce DEF SegmentsAreNew
<1>6. RegionsAreNew'
  BY <1>2 DEF RegionsAreNew
<1>7. Cardinality(Loose) = 0 /\ Cardinality(Data) = 0 /\ Cardinality(Loose') = 1
      /\ Cardinality(Data') = 0
  BY <1>3, NoneIsEmpty
<1>8. /\ composition = Cardinality(BlocksOf(InUse)) + Cardinality(Loose)
      /\ coded = Cardinality(CodedOf(InUse)) + Cardinality(Data)
      /\ Cardinality(BlocksOf(InUse)) \in Nat /\ Cardinality(CodedOf(InUse)) \in Nat
  BY CountsAre DEF MemoryInv
<1>9. composition' = Cardinality(BlocksOf(InUse)) + Cardinality(Loose')
  BY <1>1, <1>7, <1>8
<1>10. coded' = Cardinality(CodedOf(InUse)) + Cardinality(Data')
  BY <1>1, <1>7, <1>8
<1> QED  BY <1>4, <1>5, <1>6, <1>9, <1>10 DEF MemoryInv

\* A segment is parsed: new and data are the blocks it takes.
Takes(set, new, data) ==
  /\ IsFiniteSet(new) /\ IsFiniteSet(data)
  /\ SegmentBlocks(set) = SegmentBlocks(job.set) \cup new /\ new \cap SegmentBlocks(job.set) = {}
  /\ ObjectBlocks(set) = ObjectBlocks(job.set) \cup data /\ data \cap ObjectBlocks(job.set) = {}
  /\ composition' = composition + Cardinality(new) /\ coded' = coded + Cardinality(data)

LEMMA ParsedMemory ==
  ASSUME DecoderInv, TypeInv, MemoryInv, job.stage = "parsing", NEW set \in Displayset,
         NEW todo \in SUBSET job.todo, Parsed(set, todo),
         NEW new, NEW data, Takes(set, new, data),
         \A other \in todo : << other.type, other.id >> \notin new
  PROVE  MemoryInv'
<1>1. /\ job' = [job EXCEPT !.set = set, !.todo = todo,
                            !.stage = IF todo = {} THEN "parsed" ELSE "parsing"]
      /\ page' = page
  BY DEF Parsed
<1>2. /\ job'.set = set /\ job'.todo = todo /\ job'.stage \in {"parsed", "parsing"}
      /\ job'.page = NULL /\ job.page = NULL
  BY <1>1 DEF TypeInv, Job, DecoderInv, JobShape, Early
<1>3. /\ Loose = SegmentBlocks(job.set) /\ Data = ObjectBlocks(job.set)
      /\ Loose' = SegmentBlocks(set) /\ Data' = ObjectBlocks(set)
  BY <1>2 DEF Loose, Data, SegmentBlocks, ObjectBlocks
<1>4. BlocksOf(InUse)' = BlocksOf(InUse) /\ CodedOf(InUse)' = CodedOf(InUse)
  BY <1>1, PagesSame
<1>5. /\ IsFiniteSet(Loose) /\ IsFiniteSet(Data) /\ IsFiniteSet(new) /\ IsFiniteSet(data)
      /\ Loose' = Loose \cup new /\ Loose \cap new = {}
      /\ Data' = Data \cup data /\ Data \cap data = {}
      /\ composition' = composition + Cardinality(new) /\ coded' = coded + Cardinality(data)
      /\ composition = Cardinality(BlocksOf(InUse)) + Cardinality(Loose)
      /\ coded = Cardinality(CodedOf(InUse)) + Cardinality(Data)
      /\ Cardinality(BlocksOf(InUse)) \in Nat /\ Cardinality(CodedOf(InUse)) \in Nat
      /\ Cardinality(Loose) \in Nat /\ Cardinality(Data) \in Nat
      /\ Cardinality(new) \in Nat /\ Cardinality(data) \in Nat
  BY <1>3, CountsAre, FS_CardinalityType DEF Takes, MemoryInv
<1>6. Cardinality(Loose') = Cardinality(Loose) + Cardinality(new)
  BY <1>5, CountUnion
<1>7. Cardinality(Data') = Cardinality(Data) + Cardinality(data)
  BY <1>5, CountUnion
<1>8. /\ composition' = Cardinality(BlocksOf(InUse)) + Cardinality(Loose')
      /\ coded' = Cardinality(CodedOf(InUse)) + Cardinality(Data')
  BY <1>5, <1>6, <1>7
<1>9. SegmentsAreNew'
  <2>1. SegmentBlocks(job.set)' = SegmentBlocks(job.set) \cup new
    BY <1>2 DEF SegmentBlocks, Takes
  <2> QED  BY <1>2, <2>1 DEF SegmentsAreNew, MemoryInv
<1>10. RegionsAreNew'
  BY <1>2 DEF RegionsAreNew
<1> QED  BY <1>4, <1>8, <1>9, <1>10 DEF MemoryInv

\* The segment that is parsed next is the only one of its kind and region, and new.
LEMMA ParsingIsNew ==
  ASSUME TypeInv, MemoryInv, NEW type, NEW seg \in Parsing(type)
  PROVE  /\ << type, seg.id >> \notin SegmentBlocks(job.set)
         /\ Without(seg) \in SUBSET job.todo
         /\ \A other \in Without(seg) :
              << other.type, other.id >> # << type, seg.id >>
         /\ \A other \in Without(seg) :
              other.type \in {"DDS", "PCS", "RCS", "CDS", "ODS", "EDS"}
<1>1. /\ job.stage = "parsing" /\ seg \in job.todo /\ seg.type = type
      /\ job.todo \in SUBSET Segment
  BY ParsingIs
<1>2. \A other \in job.todo : other.type \in {"DDS", "PCS", "RCS", "CDS", "ODS", "EDS"}
  BY <1>1, SegmentIs
<1> QED  BY <1>1, <1>2 DEF MemoryInv, SegmentsAreNew, Without

\* A PCS takes one block, and one for each of its region infos.
LEMMA PCSBlocksCount ==
  ASSUME NEW n \in Nat
  PROVE  /\ IsFiniteSet({<< "PCS", NULL >>} \cup {"info"} \X (1 .. n))
         /\ Cardinality({<< "PCS", NULL >>} \cup {"info"} \X (1 .. n)) = 1 + n
<1> DEFINE infos == {"info"} \X (1 .. n)
<1>1. IsFiniteSet(1 .. n) /\ Cardinality(1 .. n) = n
  BY FS_Interval
<1>2. IsFiniteSet(infos) /\ Cardinality(infos) = n
  BY <1>1, CountTagged
<1>3. << "PCS", NULL >> \notin infos
  OBVIOUS
<1>4. {<< "PCS", NULL >>} \cup infos = infos \cup {<< "PCS", NULL >>}
  OBVIOUS
<1> HIDE DEF infos
<1>5. /\ IsFiniteSet(infos \cup {<< "PCS", NULL >>})
      /\ Cardinality(infos \cup {<< "PCS", NULL >>}) = n + 1
  BY <1>2, <1>3, FS_AddElement
<1>6. IsFiniteSet({<< "PCS", NULL >>} \cup infos) /\ Cardinality({<< "PCS", NULL >>} \cup infos) = 1 + n
  BY <1>4, <1>5
<1> QED  BY <1>6 DEF infos

LEMMA ParsePCSMemory ==
  ASSUME DecoderInv, TypeInv, MemoryInv, ParsePCS
  PROVE  MemoryInv'
<1>1. PICK seg \in Parsing("PCS") : \E shows \in SUBSET seg.body.shows :
        /\ Parsed([job.set EXCEPT !.pcs = [ours |-> seg.body.ours, state |-> seg.body.state,
                     version |-> seg.body.version, infos |-> Cardinality(shows), shows |-> shows]],
                  Without(seg))
        /\ composition' = composition + 1 + Cardinality(shows) /\ coded' = coded
  BY DEF ParsePCS
<1>2. PICK shows \in SUBSET seg.body.shows :
        /\ Parsed([job.set EXCEPT !.pcs = [ours |-> seg.body.ours, state |-> seg.body.state,
                     version |-> seg.body.version, infos |-> Cardinality(shows), shows |-> shows]],
                  Without(seg))
        /\ composition' = composition + 1 + Cardinality(shows) /\ coded' = coded
  BY <1>1
<1> DEFINE n == Cardinality(shows)
           pcs == [ours |-> seg.body.ours, state |-> seg.body.state, version |-> seg.body.version,
                   infos |-> n, shows |-> shows]
           set == [job.set EXCEPT !.pcs = pcs]
           infos == {"info"} \X (1 .. n)
           new == {<< "PCS", NULL >>} \cup infos
<1>3. /\ seg.body \in [ours : BOOLEAN, state : {"acquisition", "normal", "reserved"},
                       version : Version, shows : SUBSET RegionId]
      /\ seg.id = NULL /\ shows \subseteq RegionId
      /\ job.set \in Displayset /\ job.stage = "parsing"
  <2>1. seg \in Segment /\ seg.type = "PCS" /\ job.set \in Displayset /\ job.stage = "parsing"
    BY ParsingIs
  <2> QED  BY <2>1, SegmentIs
<1>4. n \in Nat
  BY <1>3, RegionsAreFinite
<1>5. pcs \in PCS
  BY <1>3, <1>4 DEF PCS
<1>6. /\ << "PCS", NULL >> \notin SegmentBlocks(job.set)
      /\ Without(seg) \in SUBSET job.todo
      /\ \A other \in Without(seg) : << other.type, other.id >> # << "PCS", NULL >>
      /\ \A other \in Without(seg) : other.type \in {"DDS", "PCS", "RCS", "CDS", "ODS", "EDS"}
  BY <1>3, ParsingIsNew
<1>7. job.set.pcs = NULL
  BY <1>6, SegmentBlockIs
<1>8. set \in Displayset
  BY <1>3, <1>5 DEF Displayset
<1>9. SegmentBlocks(set) = SegmentBlocks(job.set) \cup ({<< "PCS", NULL >>} \cup {"info"} \X (1 .. pcs.infos))
      /\ ObjectBlocks(set) = ObjectBlocks(job.set)
  <2> HIDE DEF pcs
  <2> QED  BY <1>3, <1>5, <1>7, BlocksWithPCS
<1>10. SegmentBlocks(set) = SegmentBlocks(job.set) \cup new
  BY <1>9
<1>11. new \cap SegmentBlocks(job.set) = {}
  <2>1. \A i : << "info", i >> \notin SegmentBlocks(job.set)
    BY <1>7, SegmentBlockIs
  <2> QED  BY <1>6, <2>1
<1>12. IsFiniteSet(new) /\ Cardinality(new) = 1 + n
  BY <1>4, PCSBlocksCount
<1>13. \A other \in Without(seg) : << other.type, other.id >> \notin new
  BY <1>6
<1>14. Parsed(set, Without(seg)) /\ composition' = composition + 1 + n /\ coded' = coded
  BY <1>2
<1> HIDE DEF set, new, n
<1>15. Takes(set, new, {})
  <2>1. composition' = composition + Cardinality(new) /\ coded' = coded + Cardinality({})
    BY <1>4, <1>12, <1>14, CountsAre, NoneIsEmpty
  <2> QED  BY <1>9, <1>10, <1>11, <1>12, <2>1, NoneIsEmpty DEF Takes
<1> QED  BY <1>3, <1>6, <1>8, <1>13, <1>14, <1>15, ParsedMemory

LEMMA ParseRCSMemory ==
  ASSUME DecoderInv, TypeInv, MemoryInv, ParseRCS
  PROVE  MemoryInv'
<1>1. PICK seg \in Parsing("RCS") : \E object \in {seg.body.object, NULL} :
        /\ Parsed([job.set EXCEPT !.rcs = With(@, seg.id, [seg.body EXCEPT !.object = object])],
                  Without(seg))
        /\ composition' = composition + (IF object = NULL THEN 1 ELSE 2) /\ coded' = coded
  BY DEF ParseRCS
<1>2. PICK object \in {seg.body.object, NULL} :
        /\ Parsed([job.set EXCEPT !.rcs = With(@, seg.id, [seg.body EXCEPT !.object = object])],
                  Without(seg))
        /\ composition' = composition + (IF object = NULL THEN 1 ELSE 2) /\ coded' = coded
  BY <1>1
<1> DEFINE r == seg.id
           rcs == [seg.body EXCEPT !.object = object]
           set == [job.set EXCEPT !.rcs = With(@, r, rcs)]
           new == {<< "RCS", r >>} \cup IF rcs.object = NULL THEN {} ELSE {<< "object", r >>}
<1>3. r \in RegionId /\ seg.body \in RCS /\ job.set \in Displayset /\ job.stage = "parsing"
  <2>1. seg \in Segment /\ seg.type = "RCS" /\ job.set \in Displayset /\ job.stage = "parsing"
    BY ParsingIs
  <2> QED  BY <2>1, SegmentIs
<1>4. rcs \in RCS /\ rcs.object = object
  BY <1>3 DEF RCS
<1>5. set \in Displayset
  <2>1. With(job.set.rcs, r, rcs) \in Some(RCS)
    BY <1>3, <1>4, SomeWith DEF Displayset
  <2> QED  BY <1>3, <2>1 DEF Displayset
<1>6. /\ << "RCS", r >> \notin SegmentBlocks(job.set)
      /\ Without(seg) \in SUBSET job.todo
      /\ \A other \in Without(seg) : << other.type, other.id >> # << "RCS", r >>
      /\ \A other \in Without(seg) : other.type \in {"DDS", "PCS", "RCS", "CDS", "ODS", "EDS"}
  BY ParsingIsNew
<1>7. r \notin DOMAIN job.set.rcs
  BY <1>6, SegmentBlockIs
<1> HIDE DEF rcs, r
<1>9. SegmentBlocks(set) = SegmentBlocks(job.set) \cup new
      /\ ObjectBlocks(set) = ObjectBlocks(job.set)
  BY <1>3, <1>4, <1>7, BlocksWithRCS
<1>10. new \cap SegmentBlocks(job.set) = {}
  <2>1. << "object", r >> \notin SegmentBlocks(job.set)
    BY <1>7, SegmentBlockIs
  <2> QED  BY <1>6, <2>1
<1>11. IsFiniteSet(new) /\ Cardinality(new) = IF object = NULL THEN 1 ELSE 2
  <2>1. IsFiniteSet({<< "RCS", r >>}) /\ Cardinality({<< "RCS", r >>}) = 1
    BY FS_Singleton
  <2>2. CASE object = NULL
    BY <1>4, <2>1, <2>2
  <2>3. CASE object # NULL
    <3>1. new = {<< "RCS", r >>} \cup {<< "object", r >>} /\ << "object", r >> \notin {<< "RCS", r >>}
      BY <1>4, <2>3
    <3>2. IsFiniteSet({<< "RCS", r >>} \cup {<< "object", r >>})
          /\ Cardinality({<< "RCS", r >>} \cup {<< "object", r >>}) = 1 + 1
      BY <2>1, <3>1, FS_AddElement
    <3> QED  BY <2>3, <3>1, <3>2
  <2> QED  BY <2>2, <2>3
<1>12. \A other \in Without(seg) : << other.type, other.id >> \notin new
  BY <1>6
<1>13. /\ Parsed(set, Without(seg)) /\ composition' = composition + (IF object = NULL THEN 1 ELSE 2)
       /\ coded' = coded
  BY <1>2 DEF rcs, r
<1> HIDE DEF set, new
<1>14. Takes(set, new, {})
  <2>1. composition' = composition + Cardinality(new) /\ coded' = coded + Cardinality({})
    BY <1>11, <1>13, CountsAre, NoneIsEmpty
  <2> QED  BY <1>9, <1>10, <1>11, <2>1, NoneIsEmpty DEF Takes
<1> QED  BY <1>3, <1>5, <1>6, <1>12, <1>13, <1>14, ParsedMemory

LEMMA ParseCDSMemory ==
  ASSUME DecoderInv, TypeInv, MemoryInv, ParseCDS
  PROVE  MemoryInv'
<1>1. PICK seg \in Parsing("CDS") :
        /\ Parsed([job.set EXCEPT !.cds = @ \cup {seg.id}], Without(seg))
        /\ composition' = composition + 2 /\ coded' = coded
  BY DEF ParseCDS
<1> DEFINE r == seg.id
           set == [job.set EXCEPT !.cds = @ \cup {r}]
           new == {<< "CDS", r >>} \cup {<< "entry", r >>}
<1>2. r \in RegionId /\ job.set \in Displayset /\ job.stage = "parsing"
  <2>1. seg \in Segment /\ seg.type = "CDS" /\ job.set \in Displayset /\ job.stage = "parsing"
    BY ParsingIs
  <2> QED  BY <2>1, SegmentIs
<1>3. set \in Displayset
  BY <1>2 DEF Displayset
<1>4. /\ << "CDS", r >> \notin SegmentBlocks(job.set)
      /\ Without(seg) \in SUBSET job.todo
      /\ \A other \in Without(seg) : << other.type, other.id >> # << "CDS", r >>
      /\ \A other \in Without(seg) : other.type \in {"DDS", "PCS", "RCS", "CDS", "ODS", "EDS"}
  BY ParsingIsNew
<1>5. Parsed(set, Without(seg))
  BY <1>1
<1> HIDE DEF r
<1>6. SegmentBlocks(set) = SegmentBlocks(job.set) \cup new
      /\ ObjectBlocks(set) = ObjectBlocks(job.set)
  BY <1>2, BlocksWithCDS
<1>7. new \cap SegmentBlocks(job.set) = {}
  <2>1. << "entry", r >> \notin SegmentBlocks(job.set)
    BY <1>4, SegmentBlockIs
  <2> QED  BY <1>4, <2>1
<1>8. IsFiniteSet(new) /\ Cardinality(new) = 2
  <2>1. IsFiniteSet({<< "CDS", r >>}) /\ Cardinality({<< "CDS", r >>}) = 1
    BY FS_Singleton
  <2>2. << "entry", r >> \notin {<< "CDS", r >>}
    OBVIOUS
  <2>3. IsFiniteSet({<< "CDS", r >>} \cup {<< "entry", r >>})
        /\ Cardinality({<< "CDS", r >>} \cup {<< "entry", r >>}) = 1 + 1
    BY <2>1, <2>2, FS_AddElement
  <2> QED  BY <2>3
<1>9. \A other \in Without(seg) : << other.type, other.id >> \notin new
  BY <1>4
<1> HIDE DEF set, new
<1>10. Takes(set, new, {})
  <2>1. composition' = composition + Cardinality(new) /\ coded' = coded + Cardinality({})
    BY <1>1, <1>8, CountsAre, NoneIsEmpty
  <2> QED  BY <1>6, <1>7, <1>8, <2>1, NoneIsEmpty DEF Takes
<1> QED  BY <1>2, <1>3, <1>4, <1>5, <1>9, <1>10, ParsedMemory

LEMMA ParseODSMemory ==
  ASSUME DecoderInv, TypeInv, MemoryInv, ParseODS
  PROVE  MemoryInv'
<1>1. PICK seg \in Parsing("ODS") : \E object \in {seg.body, NULL} :
        /\ Parsed([job.set EXCEPT !.ods = With(@, seg.id, object)], Without(seg))
        /\ coded' = coded + (IF object = NULL THEN 0 ELSE 1) /\ composition' = composition + 1
  BY DEF ParseODS
<1>2. PICK object \in {seg.body, NULL} :
        /\ Parsed([job.set EXCEPT !.ods = With(@, seg.id, object)], Without(seg))
        /\ coded' = coded + (IF object = NULL THEN 0 ELSE 1) /\ composition' = composition + 1
  BY <1>1
<1> DEFINE r == seg.id
           set == [job.set EXCEPT !.ods = With(@, r, object)]
           new == {<< "ODS", r >>}
           data == IF object = NULL THEN {} ELSE {r}
<1>3. /\ r \in RegionId /\ object \in Stamp \cup {NULL}
      /\ job.set \in Displayset /\ job.stage = "parsing"
  <2>1. seg \in Segment /\ seg.type = "ODS" /\ job.set \in Displayset /\ job.stage = "parsing"
    BY ParsingIs
  <2> QED  BY <2>1, SegmentIs
<1>4. set \in Displayset
  <2>1. With(job.set.ods, r, object) \in Some(Stamp \cup {NULL})
    BY <1>3, SomeWith DEF Displayset
  <2> QED  BY <1>3, <2>1 DEF Displayset
<1>5. /\ << "ODS", r >> \notin SegmentBlocks(job.set)
      /\ Without(seg) \in SUBSET job.todo
      /\ \A other \in Without(seg) : << other.type, other.id >> # << "ODS", r >>
  BY ParsingIsNew
<1>6. Parsed(set, Without(seg))
  BY <1>2
<1> HIDE DEF r
<1>7. r \notin DOMAIN job.set.ods
  BY <1>5, SegmentBlockIs
<1>8. SegmentBlocks(set) = SegmentBlocks(job.set) \cup new
      /\ ObjectBlocks(set) = ObjectBlocks(job.set) \cup data
  <2>1. SegmentBlocks([job.set EXCEPT !.ods = With(@, r, object)]) =
          SegmentBlocks(job.set) \cup {<< "ODS", r >>}
    BY <1>3, <1>7, BlocksWithODS
  <2>2. ObjectBlocks([job.set EXCEPT !.ods = With(@, r, object)]) =
          ObjectBlocks(job.set) \cup Datum(r, object)
    BY <1>3, <1>7, BlocksWithODS
  <2> QED  BY <2>1, <2>2 DEF Datum
<1>9. /\ new \cap SegmentBlocks(job.set) = {} /\ data \cap ObjectBlocks(job.set) = {}
  BY <1>5, <1>7 DEF ObjectBlocks
<1>10. IsFiniteSet(new) /\ Cardinality(new) = 1
  BY FS_Singleton
<1>11. IsFiniteSet(data) /\ Cardinality(data) = IF object = NULL THEN 0 ELSE 1
  BY FS_Singleton, FS_EmptySet
<1>12. \A other \in Without(seg) : << other.type, other.id >> \notin new
  BY <1>5
<1> HIDE DEF set, new, data
<1>13. Takes(set, new, data)
  <2>1. composition' = composition + Cardinality(new) /\ coded' = coded + Cardinality(data)
    BY <1>2, <1>10, <1>11, CountsAre
  <2> QED  BY <1>8, <1>9, <1>10, <1>11, <2>1 DEF Takes
<1> QED  BY <1>3, <1>4, <1>5, <1>6, <1>12, <1>13, ParsedMemory

LEMMA OtherParsingMemory ==
  ASSUME DecoderInv, TypeInv, MemoryInv, ParseDDS \/ ParseEDS \/ SegmentNewFails
  PROVE  MemoryInv'
<1>1. CASE ParseDDS
  <2>1. PICK seg \in Parsing("DDS") :
          /\ Parsed([job.set EXCEPT !.dds = TRUE], Without(seg))
          /\ composition' = composition + 1 /\ coded' = coded
    BY <1>1 DEF ParseDDS
  <2> DEFINE set == [job.set EXCEPT !.dds = TRUE]
             new == {<< "DDS", NULL >>}
  <2>2. seg \in Segment /\ seg.type = "DDS" /\ job.set \in Displayset /\ job.stage = "parsing"
    BY ParsingIs
  <2>3. set \in Displayset
    BY <2>2 DEF Displayset
  <2>4. /\ << "DDS", seg.id >> \notin SegmentBlocks(job.set)
        /\ Without(seg) \in SUBSET job.todo
        /\ \A other \in Without(seg) : << other.type, other.id >> # << "DDS", seg.id >>
    BY ParsingIsNew
  <2>5. seg.id = NULL
    BY <2>2, SegmentIs
  <2>6. ~job.set.dds
    BY <2>4, <2>5, SegmentBlockIs
  <2>7. SegmentBlocks(set) = SegmentBlocks(job.set) \cup new
        /\ ObjectBlocks(set) = ObjectBlocks(job.set)
    BY <2>2, <2>6, BlocksWithDDS
  <2>8. new \cap SegmentBlocks(job.set) = {}
        /\ \A other \in Without(seg) : << other.type, other.id >> \notin new
    BY <2>4, <2>5
  <2>9. IsFiniteSet(new) /\ Cardinality(new) = 1
    BY FS_Singleton
  <2>10. Parsed(set, Without(seg))
    BY <2>1
  <2> HIDE DEF set, new
  <2>11. Takes(set, new, {})
    <3>1. composition' = composition + Cardinality(new) /\ coded' = coded + Cardinality({})
      BY <2>1, <2>9, CountsAre, NoneIsEmpty
    <3> QED  BY <2>7, <2>8, <2>9, <3>1, NoneIsEmpty DEF Takes
  <2> QED  BY <2>2, <2>3, <2>4, <2>8, <2>10, <2>11, ParsedMemory
<1>2. CASE ParseEDS
  <2>1. PICK seg \in Parsing("EDS"), eds \in BOOLEAN :
          /\ Parsed([job.set EXCEPT !.eds = eds], {})
          /\ composition' = composition + (IF eds THEN 1 ELSE 0) /\ coded' = coded
    BY <1>2 DEF ParseEDS
  <2> DEFINE set == [job.set EXCEPT !.eds = eds]
             new == IF eds THEN {<< "EDS", NULL >>} ELSE {}
  <2>2. seg \in Segment /\ seg.type = "EDS" /\ job.set \in Displayset /\ job.stage = "parsing"
    BY ParsingIs
  <2>3. set \in Displayset
    BY <2>2 DEF Displayset
  <2>4. << "EDS", seg.id >> \notin SegmentBlocks(job.set)
    BY ParsingIsNew
  <2>5. seg.id = NULL
    BY <2>2, SegmentIs
  <2>6. ~job.set.eds
    BY <2>4, <2>5, SegmentBlockIs
  <2>7. SegmentBlocks(set) = SegmentBlocks(job.set) \cup new
        /\ ObjectBlocks(set) = ObjectBlocks(job.set)
    BY <2>2, <2>6, BlocksWithEDS
  <2>8. new \cap SegmentBlocks(job.set) = {}
    BY <2>4, <2>5
  <2>9. IsFiniteSet(new) /\ Cardinality(new) = IF eds THEN 1 ELSE 0
    BY FS_Singleton, FS_EmptySet
  <2>10. Parsed(set, {}) /\ {} \in SUBSET job.todo
         /\ \A other \in {} : << other.type, other.id >> \notin new
    BY <2>1
  <2> HIDE DEF set, new
  <2>11. Takes(set, new, {})
    <3>1. composition' = composition + Cardinality(new) /\ coded' = coded + Cardinality({})
      BY <2>1, <2>9, CountsAre, NoneIsEmpty
    <3> QED  BY <2>7, <2>8, <2>9, <3>1, NoneIsEmpty DEF Takes
  <2> QED  BY <2>2, <2>3, <2>10, <2>11, ParsedMemory
<1>3. CASE SegmentNewFails
  <2>1. /\ job.stage = "parsing" /\ job.set \in Displayset /\ Parsed(job.set, {})
        /\ composition' = composition /\ coded' = coded
    BY <1>3 DEF SegmentNewFails, TypeInv, Job
  <2>2. Takes(job.set, {}, {})
    BY <2>1, CountsAre, NoneIsEmpty DEF Takes
  <2> QED  BY <2>1, <2>2, ParsedMemory
<1> QED  BY <1>1, <1>2, <1>3

\* A failure or a crash leaves the display set and the page where they are.
LEMMA StageMemory ==
  ASSUME DecoderInv, TypeInv, MemoryInv, job.stage # "idle",
         UNCHANGED << page, composition, coded >>,
         NEW stage \in {"failed", "crashed"}, job' = [job EXCEPT !.stage = stage]
  PROVE  MemoryInv'
<1>1. job'.stage = stage /\ job'.page = job.page /\ job'.set = job.set
  BY DEF TypeInv, Job
<1>2. Loose' = Loose /\ Data' = Data
  BY <1>1 DEF Loose, Data, SegmentBlocks, ObjectBlocks
<1>3. SegmentsAreNew' /\ RegionsAreNew'
  BY <1>1 DEF SegmentsAreNew, RegionsAreNew
<1> QED  BY <1>2, <1>3, JobMemory

LEMMA FailsMemory ==
  ASSUME DecoderInv, TypeInv, MemoryInv, job.stage # "idle", Fails \/ Crashes
  PROVE  MemoryInv'
BY StageMemory DEF Fails, Crashes, Decodes

LEMMA TruncatedMemory ==
  ASSUME DecoderInv, TypeInv, MemoryInv, Truncated
  PROVE  MemoryInv'
BY StageMemory DEF Truncated

-----------------------------------------------------------------------------
(* Blocks of the pages and regions that are added                          *)

\* One more page.
LEMMA PagesMore ==
  ASSUME IsFiniteSet(BlocksOf(InUse)), IsFiniteSet(CodedOf(InUse)),
         NEW p, p \notin InUse, DOMAIN page' = DOMAIN page \cup {p},
         \A q \in DOMAIN page : page'[q] = page[q],
         NEW new, IsFiniteSet(new), PageBlocks(p)' = new,
         NEW data, IsFiniteSet(data), ObjectBlocks(page'[p].displayset) = data
  PROVE  /\ IsFiniteSet(BlocksOf(InUse)') /\ IsFiniteSet(CodedOf(InUse)')
         /\ Cardinality(BlocksOf(InUse)') = Cardinality(BlocksOf(InUse)) + Cardinality(new)
         /\ Cardinality(CodedOf(InUse)') = Cardinality(CodedOf(InUse)) + Cardinality(data)
<1>1. \A q \in DOMAIN page : /\ PageBlocks(q)' = PageBlocks(q)
                             /\ page'[q].displayset = page[q].displayset
  BY DEF PageBlocks
<1>2. p \notin DOMAIN page
  BY DEF InUse
<1>3. /\ IsFiniteSet(BlocksOf(InUse)')
      /\ Cardinality(BlocksOf(InUse)') = Cardinality(BlocksOf(InUse)) + Cardinality(new)
  <2> DEFINE B == [q \in DOMAIN page |-> PageBlocks(q)]
             C == [q \in DOMAIN page' |-> PageBlocks(q)']
  <2>1. BlocksOf(InUse) = Tagged(B) /\ BlocksOf(InUse)' = Tagged(C)
    BY DEF BlocksOf, Tagged, InUse
  <2>2. /\ DOMAIN B = DOMAIN page /\ DOMAIN C = DOMAIN B \cup {p} /\ p \notin DOMAIN B
        /\ \A q \in DOMAIN B : C[q] = B[q]
        /\ C[p] = new
    BY <1>1, <1>2
  <2> HIDE DEF B, C
  <2> QED  BY <2>1, <2>2, TaggedMore
<1>4. /\ IsFiniteSet(CodedOf(InUse)')
      /\ Cardinality(CodedOf(InUse)') = Cardinality(CodedOf(InUse)) + Cardinality(data)
  <2> DEFINE B == [q \in DOMAIN page |-> ObjectBlocks(page[q].displayset)]
             C == [q \in DOMAIN page' |-> ObjectBlocks(page'[q].displayset)]
  <2>1. CodedOf(InUse) = Tagged(B) /\ CodedOf(InUse)' = Tagged(C)
    BY DEF CodedOf, Tagged, InUse
  <2>2. /\ DOMAIN B = DOMAIN page /\ DOMAIN C = DOMAIN B \cup {p} /\ p \notin DOMAIN B
        /\ \A q \in DOMAIN B : C[q] = B[q]
        /\ C[p] = data
    BY <1>1, <1>2
  <2> HIDE DEF B, C
  <2> QED  BY <2>1, <2>2, TaggedMore
<1> QED  BY <1>3, <1>4

LEMMA NewPageMemory ==
  ASSUME DecoderInv, TypeInv, MemoryInv, job.stage = "parsed", NEW p \in PageId \ InUse, NewPage(p)
  PROVE  MemoryInv'
<1>1. PICK pcs \in Compositions :
        /\ page' = With(page, p,
             [status |-> "new", dds |-> FALSE, regions |-> << >>,
              displayset |-> [job.set EXCEPT !.pcs = pcs],
              ours |-> pcs # NULL /\ pcs.ours, version |-> IF pcs = NULL THEN 0 ELSE pcs.version])
        /\ job' = [job EXCEPT !.page = p, !.set = EmptySet, !.stage = PageStage]
        /\ composition' = composition + 1
             + (IF job.set.pcs = NULL /\ pcs # NULL THEN 1 + pcs.infos ELSE 0)
        /\ coded' = coded
  BY DEF NewPage
<1> DEFINE set == [job.set EXCEPT !.pcs = pcs]
           infos == IF job.set.pcs = NULL /\ pcs # NULL
                    THEN {<< "PCS", NULL >>} \cup {"info"} \X (1 .. pcs.infos) ELSE {}
           segments == SegmentBlocks(set)
           new == segments \cup {<< "page", NULL >>}
           data == ObjectBlocks(job.set)
<1>2. /\ job.set \in Displayset /\ pcs \in PCS \cup {NULL} /\ job.page = NULL /\ p # NULL
      /\ job.set.pcs # NULL => pcs = job.set.pcs
  BY CompositionsType, NullIsNoPage DEF TypeInv, Job, DecoderInv, JobShape, Early, Compositions
<1>3. set \in Displayset
  BY <1>2 DEF Displayset
<1>4. /\ job'.page = p /\ job'.set = EmptySet /\ job'.stage \in {"normal", "acquisition", "failed"}
  BY <1>1 DEF TypeInv, Job, PageStage
<1>5. /\ DOMAIN page' = DOMAIN page \cup {p} /\ \A q \in DOMAIN page : page'[q] = page[q]
      /\ page'[p].displayset = set /\ page'[p].regions = << >>
  BY <1>1 DEF With, InUse
<1>6. SegmentBlocks(set) = SegmentBlocks(job.set) \cup infos /\ ObjectBlocks(set) = data
  <2>1. CASE job.set.pcs = NULL /\ pcs # NULL
    <3>1. pcs \in PCS /\ job.set.pcs = NULL
      BY <1>2, <2>1
    <3> QED  BY <1>2, <2>1, <3>1, BlocksWithPCS
  <2>2. CASE ~(job.set.pcs = NULL /\ pcs # NULL)
    <3>1. set = job.set
      BY <1>2, <2>2 DEF Displayset
    <3> QED  BY <2>2, <3>1
  <2> QED  BY <2>1, <2>2
<1>7. SegmentBlocks(job.set) \cap infos = {}
  <2>1. job.set.pcs = NULL => /\ << "PCS", NULL >> \notin SegmentBlocks(job.set)
                              /\ \A i : << "info", i >> \notin SegmentBlocks(job.set)
    BY SegmentBlockIs
  <2> QED  BY <2>1
<1>8. /\ IsFiniteSet(infos)
      /\ Cardinality(infos) = IF job.set.pcs = NULL /\ pcs # NULL THEN 1 + pcs.infos ELSE 0
      /\ Cardinality(infos) \in Nat
  <2>1. CASE job.set.pcs = NULL /\ pcs # NULL
    <3>1. pcs.infos \in Nat
      BY <1>2, <2>1 DEF PCS
    <3> QED  BY <2>1, <3>1, PCSBlocksCount
  <2>2. CASE ~(job.set.pcs = NULL /\ pcs # NULL)
    BY <2>2, NoneIsEmpty
  <2> QED  BY <2>1, <2>2
<1>9. /\ Loose = SegmentBlocks(job.set) /\ Data = data /\ Loose' = {} /\ Data' = {}
  BY <1>2, <1>4 DEF Loose, Data
<1>10. PageBlocks(p)' = new
  <2>1. SegmentBlocks(page'[p].displayset) = segments /\ DOMAIN page'[p].regions = {}
    BY <1>5
  <2>2. PageBlocks(p)' = {<< "page", NULL >>} \cup SegmentBlocks(page'[p].displayset)
                          \cup {"region"} \X DOMAIN page'[p].regions
    BY DEF PageBlocks, SegmentBlocks
  <2> HIDE DEF segments
  <2> QED  BY <2>1, <2>2
<1>11. ObjectBlocks(page'[p].displayset) = data
  BY <1>5, <1>6
<1>12. << "page", NULL >> \notin segments
  BY SegmentBlockIs
<1> DEFINE n == IF job.set.pcs = NULL /\ pcs # NULL THEN 1 + pcs.infos ELSE 0
<1>13. composition' = composition + 1 + n /\ coded' = coded
  BY <1>1
<1> HIDE DEF set, infos, data, n
<1>14. /\ IsFiniteSet(segments) /\ Cardinality(segments) = Cardinality(Loose) + n /\ n \in Nat
  <2>1. IsFiniteSet(Loose) /\ IsFiniteSet(infos) /\ Loose \cap infos = {}
        /\ segments = Loose \cup infos
    BY <1>6, <1>7, <1>8, <1>9, CountsAre
  <2>2. IsFiniteSet(Loose \cup infos)
        /\ Cardinality(Loose \cup infos) = Cardinality(Loose) + Cardinality(infos)
    BY <2>1, CountUnion
  <2>3. Cardinality(infos) = n /\ n \in Nat
    BY <1>8 DEF n
  <2> QED  BY <2>1, <2>2, <2>3
<1> HIDE DEF segments
<1>15. IsFiniteSet(new) /\ Cardinality(new) = Cardinality(Loose) + n + 1
  <2>1. IsFiniteSet(new) /\ Cardinality(new) = Cardinality(segments) + 1
    BY <1>12, <1>14, FS_AddElement
  <2> QED  BY <1>14, <2>1, CountsAre
<1> HIDE DEF new
<1>16. /\ IsFiniteSet(BlocksOf(InUse)') /\ IsFiniteSet(CodedOf(InUse)')
       /\ Cardinality(BlocksOf(InUse)') = Cardinality(BlocksOf(InUse)) + Cardinality(new)
       /\ Cardinality(CodedOf(InUse)') = Cardinality(CodedOf(InUse)) + Cardinality(data)
  <2>1. IsFiniteSet(data)
    BY <1>9, CountsAre
  <2>2. IsFiniteSet(BlocksOf(InUse)) /\ IsFiniteSet(CodedOf(InUse)) /\ p \notin InUse
    BY DEF MemoryInv
  <2> QED  BY <1>5, <1>10, <1>11, <1>15, <2>1, <2>2, PagesMore
<1>17. composition' = Cardinality(BlocksOf(InUse)') + Cardinality(Loose')
  <2>1. composition = Cardinality(BlocksOf(InUse)) + Cardinality(Loose)
    BY DEF MemoryInv
  <2>2. Cardinality(Loose') = 0
    BY <1>9, NoneIsEmpty
  <2> QED  BY <1>13, <1>14, <1>15, <1>16, <2>1, <2>2, CountsAre
<1>18. coded' = Cardinality(CodedOf(InUse)') + Cardinality(Data')
  <2>1. coded = Cardinality(CodedOf(InUse)) + Cardinality(data)
    BY <1>9 DEF MemoryInv
  <2>2. Cardinality(Data') = 0
    BY <1>9, NoneIsEmpty
  <2>3. Cardinality(data) \in Nat /\ Cardinality(CodedOf(InUse)) \in Nat
    BY <1>9, CountsAre
  <2> QED  BY <1>13, <1>16, <2>1, <2>2, <2>3
<1>19. SegmentsAreNew'
  BY <1>4 DEF SegmentsAreNew
<1>20. RegionsAreNew'
  BY <1>4, <1>5 DEF RegionsAreNew, Decoding
<1> QED  BY <1>16, <1>17, <1>18, <1>19, <1>20 DEF MemoryInv

LEMMA DisplayPageNewMemory ==
  ASSUME DecoderInv, TypeInv, MemoryInv, DisplayPageNew
  PROVE  MemoryInv'
BY NewPageMemory, FailsMemory DEF DisplayPageNew

\* From the stage on at which there is a page, no display set is loose.
LEMMA NoneLoose ==
  ASSUME job.page # NULL
  PROVE  Loose = {} /\ Data = {}
BY DEF Loose, Data

LEMMA BeginMemory ==
  ASSUME DecoderInv, TypeInv, MemoryInv, job.stage \in {"acquisition", "normal"},
         NEW stage \in {"decoding", "copying"}, NEW left, NEW dds, Begin(stage, left, dds)
  PROVE  MemoryInv'
<1> DEFINE p == job.page
<1>1. p \in DOMAIN page /\ p # NULL /\ page[p] \in Page
  <2>1. job.page # NULL
    BY DEF DecoderInv, JobShape, Composed
  <2> QED  BY <2>1, DecodingIs DEF InUse, Decoding
<1>2. /\ page' = [page EXCEPT ![p].dds = dds] /\ job' = [job EXCEPT !.stage = stage, !.left = left]
      /\ UNCHANGED << composition, coded >>
  BY DEF Begin
<1>3. job'.page = p /\ job'.stage = stage /\ job'.set = job.set
  BY <1>2 DEF TypeInv, Job
<1>4. DOMAIN Decoding.regions = {}
  BY DEF MemoryInv, RegionsAreNew
<1> HIDE DEF p
<1>5. /\ DOMAIN page' = DOMAIN page
      /\ \A q \in DOMAIN page : /\ page'[q].displayset = page[q].displayset
                                /\ page'[q].regions = page[q].regions
  <2>1. {"dds", "displayset", "regions"} \subseteq DOMAIN page[p]
    BY <1>1 DEF Page
  <2> QED  BY <1>1, <1>2, <2>1
<1>6. Loose' = Loose /\ Data' = Data
  BY <1>1, <1>3 DEF Loose, Data, p
<1>7. SegmentsAreNew' /\ RegionsAreNew'
  BY <1>1, <1>3, <1>4, <1>5 DEF SegmentsAreNew, RegionsAreNew, Decoding, p
<1> QED  BY <1>2, <1>5, <1>6, <1>7, JobMemory

LEMMA decodeMemory ==
  ASSUME DecoderInv, TypeInv, MemoryInv, decodeEpochDisplayset \/ decodeNormalCaseDisplayset
  PROVE  MemoryInv'
<1>1. job.stage \in {"acquisition", "normal"}
  BY DEF decodeEpochDisplayset, decodeNormalCaseDisplayset
<1>2. CASE Fails \/ Crashes
  BY <1>1, <1>2, FailsMemory
<1>3. CASE Begin("decoding", DOMAIN Set.rcs, Set.dds)
  BY <1>1, <1>3, BeginMemory
<1>4. CASE Begin("copying", DOMAIN Latest.regions, Set.dds \/ Latest.dds)
  BY <1>1, <1>4, BeginMemory
<1> QED  BY <1>2, <1>3, <1>4 DEF decodeEpochDisplayset, decodeNormalCaseDisplayset

\* One more region.
LEMMA RegionMore ==
  ASSUME DecoderInv, TypeInv, MemoryInv, job.page # NULL, NEW r, NEW region, NEW pixels,
         r \notin DOMAIN Decoding.regions, Adds(r, region, pixels)
  PROVE  /\ IsFiniteSet(BlocksOf(InUse)') /\ IsFiniteSet(CodedOf(InUse)')
         /\ Cardinality(BlocksOf(InUse)') = Cardinality(BlocksOf(InUse)) + 1
         /\ Cardinality(CodedOf(InUse)') = Cardinality(CodedOf(InUse))
<1>0. PICK p : p = job.page
  OBVIOUS
<1>1. /\ p \in DOMAIN page /\ DOMAIN page' = DOMAIN page
      /\ \A q \in DOMAIN page \ {p} : page'[q] = page[q]
      /\ page'[p].displayset = page[p].displayset
      /\ DOMAIN page'[p].regions = DOMAIN page[p].regions \cup {r}
  BY <1>0, Added, DecodingIs DEF InUse
<1>2. r \notin DOMAIN page[p].regions
  BY <1>0 DEF Decoding
<1>3. \A q \in DOMAIN page \ {p} : PageBlocks(q)' = PageBlocks(q)
  BY <1>1 DEF PageBlocks
<1>4. PageBlocks(p)' = PageBlocks(p) \cup {<< "region", r >>}
  <2>1. {"region"} \X DOMAIN page'[p].regions =
          ({"region"} \X DOMAIN page[p].regions) \cup {<< "region", r >>}
    BY <1>1
  <2> QED  BY <1>1, <2>1 DEF PageBlocks
<1>5. << "region", r >> \notin PageBlocks(p)
  <2>1. << "region", r >> \notin SegmentBlocks(page[p].displayset)
    BY SegmentBlockIs
  <2> QED  BY <1>2, <2>1 DEF PageBlocks
<1>6. /\ IsFiniteSet(BlocksOf(InUse)')
      /\ Cardinality(BlocksOf(InUse)') = Cardinality(BlocksOf(InUse)) + 1
  <2> DEFINE B == [q \in DOMAIN page |-> PageBlocks(q)]
             C == [q \in DOMAIN page' |-> PageBlocks(q)']
             b == << "region", r >>
  <2>1. BlocksOf(InUse) = Tagged(B) /\ BlocksOf(InUse)' = Tagged(C)
    BY DEF BlocksOf, Tagged, InUse
  <2>2. /\ DOMAIN B = DOMAIN page /\ DOMAIN C = DOMAIN B /\ p \in DOMAIN B
        /\ \A q \in DOMAIN B \ {p} : C[q] = B[q]
        /\ C[p] = B[p] \cup {b} /\ b \notin B[p]
    BY <1>1, <1>3, <1>4, <1>5
  <2>3. IsFiniteSet(Tagged(B))
    BY <2>1 DEF MemoryInv
  <2> HIDE DEF B, C, b
  <2> QED  BY <2>1, <2>2, <2>3, TaggedGrown
<1>7. CodedOf(InUse)' = CodedOf(InUse)
  <2>1. \A q \in DOMAIN page : page'[q].displayset = page[q].displayset
    BY <1>1
  <2> QED  BY <1>1, <2>1 DEF CodedOf, InUse
<1> QED  BY <1>6, <1>7 DEF MemoryInv

LEMMA AddMemory ==
  ASSUME DecoderInv, TypeInv, MemoryInv, job.page # NULL, NEW r, NEW region, NEW pixels,
         r \in job.left, job.stage \in {"decoding", "copying"}, Adds(r, region, pixels),
         composition' = composition + 1, coded' = coded,
         job'.page = job.page, job'.stage \in {"decoding", "copying", "updating"},
         job'.stage # "updating" => job'.left = Left(r)
  PROVE  MemoryInv'
<1>1. r \notin DOMAIN Decoding.regions
  BY DEF MemoryInv, RegionsAreNew
<1>2. /\ IsFiniteSet(BlocksOf(InUse)') /\ IsFiniteSet(CodedOf(InUse)')
      /\ Cardinality(BlocksOf(InUse)') = Cardinality(BlocksOf(InUse)) + 1
      /\ Cardinality(CodedOf(InUse)') = Cardinality(CodedOf(InUse))
  BY <1>1, RegionMore
<1>3. Loose = {} /\ Data = {} /\ Loose' = {} /\ Data' = {}
  BY DEF Loose, Data
<1>4. /\ composition' = Cardinality(BlocksOf(InUse)') + Cardinality(Loose')
      /\ coded' = Cardinality(CodedOf(InUse)') + Cardinality(Data')
  <2>1. /\ composition = Cardinality(BlocksOf(InUse)) + Cardinality(Loose)
        /\ coded = Cardinality(CodedOf(InUse)) + Cardinality(Data)
    BY DEF MemoryInv
  <2>2. /\ Cardinality(Loose) = 0 /\ Cardinality(Data) = 0
        /\ Cardinality(Loose') = 0 /\ Cardinality(Data') = 0
    BY <1>3, NoneIsEmpty
  <2> QED  BY <1>2, <2>1, <2>2, CountsAre
<1>5. SegmentsAreNew'
  BY DEF SegmentsAreNew
<1>6. RegionsAreNew'
  <2>1. DOMAIN page'[job.page].regions = DOMAIN page[job.page].regions \cup {r}
    BY Added
  <2>2. job.left \cap DOMAIN page[job.page].regions = {}
    BY DEF MemoryInv, RegionsAreNew, Decoding
  <2> QED  BY <2>1, <2>2 DEF RegionsAreNew, Decoding, Left
<1> QED  BY <1>2, <1>4, <1>5, <1>6 DEF MemoryInv

\* A region is left out.
LEMMA SkipMemory ==
  ASSUME DecoderInv, TypeInv, MemoryInv, job.page # NULL, NEW r,
         job.stage \in {"decoding", "copying"}, UNCHANGED << page, composition, coded >>,
         job'.page = job.page, job'.stage \in {"decoding", "copying", "updating"},
         job'.stage # "updating" => job'.left = Left(r)
  PROVE  MemoryInv'
<1>1. Loose' = Loose /\ Data' = Data
  BY DEF Loose, Data
<1>2. SegmentsAreNew' /\ RegionsAreNew'
  BY DEF MemoryInv, SegmentsAreNew, RegionsAreNew, Decoding, Left
<1> QED  BY <1>1, <1>2, JobMemory

LEMMA DecodeRegionMemory ==
  ASSUME DecoderInv, TypeInv, MemoryInv, DecodeRegion
  PROVE  MemoryInv'
<1>1. job.stage = "decoding" /\ job.page # NULL
  BY DEF DecodeRegion, DecoderInv, JobShape, Composed
<1>2. PICK r \in job.left :
        \/ Fails \/ Crashes
        \/ job' = [job EXCEPT !.left = Left(r)] /\ Decodes
        \/ /\ \E region, pixels : Adds(r, region, pixels)
           /\ job' = [job EXCEPT !.left = Left(r)]
           /\ composition' = composition + 1 /\ coded' = coded
  BY DEF DecodeRegion, Adds
<1>3. job' = [job EXCEPT !.left = Left(r)] =>
        job'.page = job.page /\ job'.stage = "decoding" /\ job'.left = Left(r)
  BY <1>1 DEF TypeInv, Job
<1>4. CASE Fails \/ Crashes
  BY <1>1, <1>4, FailsMemory
<1>5. CASE job' = [job EXCEPT !.left = Left(r)] /\ Decodes
  BY <1>1, <1>3, <1>5, SkipMemory DEF Decodes
<1>6. CASE /\ \E region, pixels : Adds(r, region, pixels)
           /\ job' = [job EXCEPT !.left = Left(r)]
           /\ composition' = composition + 1 /\ coded' = coded
  <2>1. PICK region, pixels : Adds(r, region, pixels)
    BY <1>6
  <2> QED  BY <1>1, <1>3, <1>6, <2>1, AddMemory
<1> QED  BY <1>2, <1>4, <1>5, <1>6

LEMMA CopyRegionMemory ==
  ASSUME DecoderInv, TypeInv, MemoryInv, CopyRegion
  PROVE  MemoryInv'
<1>1. job.stage = "copying" /\ job.page # NULL
  BY DEF CopyRegion, DecoderInv, JobShape, Composed
<1>2. PICK r \in job.left :
        \/ Crashes
        \/ job' = Copied(r) /\ Decodes
        \/ /\ \E region, pixels : Adds(r, region, pixels)
           /\ job' = Copied(r)
           /\ composition' = composition + 1 /\ coded' = coded
  BY DEF CopyRegion, Adds
<1>3. job' = Copied(r) =>
        /\ job'.page = job.page /\ job'.stage \in {"copying", "updating"}
        /\ job'.stage # "updating" => job'.left = Left(r)
  BY DEF TypeInv, Job, Copied
<1>4. CASE Crashes
  BY <1>1, <1>4, FailsMemory
<1>5. CASE job' = Copied(r) /\ Decodes
  BY <1>1, <1>3, <1>5, SkipMemory DEF Decodes
<1>6. CASE /\ \E region, pixels : Adds(r, region, pixels)
           /\ job' = Copied(r)
           /\ composition' = composition + 1 /\ coded' = coded
  <2>1. PICK region, pixels : Adds(r, region, pixels)
    BY <1>6
  <2> QED  BY <1>1, <1>3, <1>6, <2>1, AddMemory
<1> QED  BY <1>2, <1>4, <1>5, <1>6

LEMMA UpdateRegionMemory ==
  ASSUME DecoderInv, TypeInv, MemoryInv, UpdateRegion
  PROVE  MemoryInv'
<1>1. job.stage = "updating" /\ job.page # NULL
  BY DEF UpdateRegion, DecoderInv, JobShape, Composed
<1>2. PICK r \in job.left :
        /\ job' = [job EXCEPT !.left = Left(r)]
        /\ \/ /\ r \in DOMAIN Decoding.regions
              /\ \E pixels, version, clut : Redraws(r, pixels, version, clut)
           \/ UNCHANGED page
        /\ UNCHANGED << composition, coded >>
  <2>1. PICK r \in job.left :
          /\ job' = [job EXCEPT !.left = Left(r)]
          /\ \/ /\ r \in DOMAIN Decoding.regions
                /\ pixmap' = [pixmap EXCEPT ![Decoding.regions[r].pixmap] = DecodeRCS(r, @)]
                /\ page' = [page EXCEPT ![job.page].regions[r] =
                               [@ EXCEPT !.version = Set.rcs[r].version, !.clut = DecodeCDS(r)]]
             \/ UNCHANGED page
          /\ UNCHANGED << composition, coded >>
    BY DEF UpdateRegion
  <2>2. CASE /\ r \in DOMAIN Decoding.regions
             /\ pixmap' = [pixmap EXCEPT ![Decoding.regions[r].pixmap] = DecodeRCS(r, @)]
             /\ page' = [page EXCEPT ![job.page].regions[r] =
                            [@ EXCEPT !.version = Set.rcs[r].version, !.clut = DecodeCDS(r)]]
    <3> DEFINE pixels == DecodeRCS(r, pixmap[Decoding.regions[r].pixmap])
    <3>1. Decoding.regions[r].pixmap \in DOMAIN pixmap
      BY <1>1, <2>2, DecodingIs DEF DecoderInv, PagesShape, OwnPixmaps, Decoding
    <3>2. Redraws(r, pixels, Set.rcs[r].version, DecodeCDS(r))
      BY <2>2, <3>1 DEF Redraws
    <3> HIDE DEF pixels
    <3> QED  BY <2>1, <2>2, <3>2
  <2> QED  BY <2>1, <2>2
<1>3. job'.page = job.page /\ job'.stage = "updating"
  BY <1>1, <1>2 DEF TypeInv, Job
<1>4. /\ DOMAIN page' = DOMAIN page
      /\ \A q \in DOMAIN page : /\ page'[q].displayset = page[q].displayset
                                /\ DOMAIN page'[q].regions = DOMAIN page[q].regions
  <2>1. CASE UNCHANGED page
    BY <2>1
  <2>2. CASE /\ r \in DOMAIN Decoding.regions
             /\ \E pixels, version, clut : Redraws(r, pixels, version, clut)
    <3>1. PICK pixels, version, clut : Redraws(r, pixels, version, clut)
      BY <2>2
    <3>2. /\ DOMAIN page' = DOMAIN page
          /\ \A q \in DOMAIN page \ {job.page} : page'[q] = page[q]
          /\ page'[job.page].displayset = page[job.page].displayset
          /\ DOMAIN page'[job.page].regions = DOMAIN page[job.page].regions
      BY <1>1, <2>2, <3>1, Redrawn
    <3> QED  BY <3>2
  <2> QED  BY <1>2, <2>1, <2>2
<1>5. Loose' = Loose /\ Data' = Data
  BY <1>1, <1>3 DEF Loose, Data
<1>6. SegmentsAreNew' /\ RegionsAreNew'
  BY <1>3 DEF SegmentsAreNew, RegionsAreNew
<1> QED  BY <1>2, <1>4, <1>5, <1>6, JobMemory

-----------------------------------------------------------------------------
(* Pages that are given back                                               *)

\* Pages are deleted; of the others at most the status changes.
LEMMA PagesLess ==
  ASSUME TypeInv, MemoryInv, NEW P, P \subseteq DOMAIN page, DOMAIN page' = DOMAIN page \ P,
         \A q \in DOMAIN page \ P : /\ page'[q].displayset = page[q].displayset
                                    /\ page'[q].regions = page[q].regions,
         MemoryWithout(P), Loose = {}, Data = {}, Loose' = {}, Data' = {},
         SegmentsAreNew', RegionsAreNew'
  PROVE  MemoryInv'
<1>1. \A q \in DOMAIN page \ P : PageBlocks(q)' = PageBlocks(q)
  BY DEF PageBlocks
<1>2. /\ IsFiniteSet(BlocksOf(InUse)')
      /\ Cardinality(BlocksOf(InUse)') = Cardinality(BlocksOf(InUse)) - Cardinality(BlocksOf(P))
  <2> DEFINE B == [q \in DOMAIN page |-> PageBlocks(q)]
             C == [q \in DOMAIN page' |-> PageBlocks(q)']
  <2>1. /\ BlocksOf(InUse) = Tagged(B) /\ BlocksOf(InUse)' = Tagged(C)
        /\ BlocksOf(P) = TaggedIn(B, P)
    BY DEF BlocksOf, Tagged, TaggedIn, InUse
  <2>2. /\ DOMAIN B = DOMAIN page /\ DOMAIN C = DOMAIN B \ P /\ P \subseteq DOMAIN B
        /\ \A q \in DOMAIN C : C[q] = B[q]
    BY <1>1
  <2>3. IsFiniteSet(Tagged(B))
    BY <2>1 DEF MemoryInv
  <2> HIDE DEF B, C
  <2> QED  BY <2>1, <2>2, <2>3, TaggedLess
<1>3. /\ IsFiniteSet(CodedOf(InUse)')
      /\ Cardinality(CodedOf(InUse)') = Cardinality(CodedOf(InUse)) - Cardinality(CodedOf(P))
  <2> DEFINE B == [q \in DOMAIN page |-> ObjectBlocks(page[q].displayset)]
             C == [q \in DOMAIN page' |-> ObjectBlocks(page'[q].displayset)]
  <2>1. /\ CodedOf(InUse) = Tagged(B) /\ CodedOf(InUse)' = Tagged(C)
        /\ CodedOf(P) = TaggedIn(B, P)
    BY DEF CodedOf, Tagged, TaggedIn, InUse
  <2>2. /\ DOMAIN B = DOMAIN page /\ DOMAIN C = DOMAIN B \ P /\ P \subseteq DOMAIN B
        /\ \A q \in DOMAIN C : C[q] = B[q]
    OBVIOUS
  <2>3. IsFiniteSet(Tagged(B))
    BY <2>1 DEF MemoryInv
  <2> HIDE DEF B, C
  <2> QED  BY <2>1, <2>2, <2>3, TaggedLess
<1>4. /\ composition' = composition - Cardinality(BlocksOf(P))
      /\ coded' = coded - Cardinality(CodedOf(P))
  BY DEF MemoryWithout
<1>5. /\ composition = Cardinality(BlocksOf(InUse)) + Cardinality(Loose)
      /\ coded = Cardinality(CodedOf(InUse)) + Cardinality(Data)
      /\ Cardinality(Loose) = 0 /\ Cardinality(Data) = 0
      /\ Cardinality(Loose') = 0 /\ Cardinality(Data') = 0
  BY NoneIsEmpty DEF MemoryInv
<1>6. /\ Cardinality(BlocksOf(P)) \in Nat /\ Cardinality(CodedOf(P)) \in Nat
  <2>1. BlocksOf(P) \subseteq BlocksOf(InUse) /\ CodedOf(P) \subseteq CodedOf(InUse)
    BY DEF BlocksOf, CodedOf, InUse
  <2> QED  BY <2>1, FS_Subset, FS_CardinalityType DEF MemoryInv
<1>7. /\ composition' = Cardinality(BlocksOf(InUse)') + Cardinality(Loose')
      /\ coded' = Cardinality(CodedOf(InUse)') + Cardinality(Data')
  BY <1>2, <1>3, <1>4, <1>5, <1>6, CountsAre
<1> QED  BY <1>2, <1>3, <1>7 DEF MemoryInv

\* What holds between two packets.
LEMMA IdleMemory ==
  ASSUME job.stage = "idle"
  PROVE  Loose = {} /\ Data = {} /\ SegmentsAreNew /\ RegionsAreNew
BY DEF Loose, Data, SegmentsAreNew, RegionsAreNew

LEMMA QueueMemory ==
  ASSUME DecoderInv, TypeInv, MemoryInv, Queue
  PROVE  MemoryInv'
<1> DEFINE p == job.page
           superseded == {q \in {latestDisplayPage} \ {NULL} : page[q].status = "retired"}
<1>1. /\ MemoryWithout(superseded)
      /\ page' = [PagesWithout(superseded) EXCEPT ![p].status = "queued"]
      /\ job' = Idle
  BY DEF Queue
<1>2. p \in DOMAIN page /\ page[p] \in Page /\ p # NULL
  <2>1. job.page # NULL
    BY DEF Queue, DecoderInv, JobShape, Composed
  <2> QED  BY <2>1, DecodingIs DEF InUse, Decoding
<1>3. superseded \subseteq DOMAIN page
  BY DEF DecoderInv, LatestIsDecodable, InUse
<1>4. p \notin superseded
  BY <1>2 DEF DecoderInv, LatestIsDecodable
<1> HIDE DEF superseded
<1>5. /\ DOMAIN page' = DOMAIN page \ superseded
      /\ \A q \in DOMAIN page \ superseded : /\ page'[q].displayset = page[q].displayset
                                             /\ page'[q].regions = page[q].regions
  <2>1. {"status", "displayset", "regions"} \subseteq DOMAIN page[p]
    BY <1>2 DEF Page
  <2>2. /\ DOMAIN PagesWithout(superseded) = DOMAIN page \ superseded
        /\ \A q \in DOMAIN page \ superseded : PagesWithout(superseded)[q] = page[q]
    BY DEF PagesWithout, InUse
  <2> HIDE DEF p
  <2> QED  BY <1>1, <1>2, <1>4, <2>1, <2>2
<1>6. job'.stage = "idle"
  BY <1>1 DEF Idle
<1>7. Loose' = {} /\ Data' = {} /\ SegmentsAreNew' /\ RegionsAreNew'
  BY <1>6 DEF Loose, Data, SegmentsAreNew, RegionsAreNew
<1>8. Loose = {} /\ Data = {}
  BY <1>2, NoneLoose
<1> QED  BY <1>1, <1>3, <1>5, <1>7, <1>8, PagesLess

LEMMA CleanUpMemory ==
  ASSUME DecoderInv, TypeInv, MemoryInv, CleanUp
  PROVE  MemoryInv'
<1>1. job.stage = "failed" /\ page' = PagesWithout({job.page}) /\ job' = Idle
  BY DEF CleanUp
<1>2. job'.stage = "idle"
  BY <1>1 DEF Idle
<1>3. Loose' = {} /\ Data' = {} /\ SegmentsAreNew' /\ RegionsAreNew'
  BY <1>2 DEF Loose, Data, SegmentsAreNew, RegionsAreNew
<1>4. CASE job.page # NULL
  <2>1. job.page \in DOMAIN page
    BY <1>4, DecodingIs DEF InUse
  <2>2. MemoryWithout({job.page})
    BY <1>4 DEF CleanUp, MemoryAfterFailure
  <2>3. /\ {job.page} \subseteq DOMAIN page
        /\ DOMAIN page' = DOMAIN page \ {job.page}
        /\ \A q \in DOMAIN page \ {job.page} : page'[q] = page[q]
    BY <1>1, <2>1 DEF PagesWithout, InUse
  <2> QED  BY <1>3, <1>4, <2>2, <2>3, NoneLoose, PagesLess
<1>5. CASE job.page = NULL
  <2>1. /\ composition' = composition - Cardinality(SegmentBlocks(job.set))
        /\ coded' = coded - Cardinality(ObjectBlocks(job.set))
    BY <1>5 DEF CleanUp, MemoryAfterFailure
  <2>2. DOMAIN page' = DOMAIN page /\ \A q \in DOMAIN page : page'[q] = page[q]
    <3>1. NULL \notin DOMAIN page
      BY NullIsNoPage DEF TypeInv, PagesType
    <3> QED  BY <1>1, <1>5, <3>1 DEF PagesWithout, InUse
  <2>3. BlocksOf(InUse)' = BlocksOf(InUse) /\ CodedOf(InUse)' = CodedOf(InUse)
    BY <2>2, PagesSame
  <2>4. Loose = SegmentBlocks(job.set) /\ Data = ObjectBlocks(job.set)
    BY <1>1, <1>5 DEF Loose, Data
  <2>5. /\ composition = Cardinality(BlocksOf(InUse)) + Cardinality(Loose)
        /\ coded = Cardinality(CodedOf(InUse)) + Cardinality(Data)
    BY DEF MemoryInv
  <2>6. Cardinality(Loose') = 0 /\ Cardinality(Data') = 0
    BY <1>3, NoneIsEmpty
  <2>7. /\ composition' = Cardinality(BlocksOf(InUse)) + Cardinality(Loose')
        /\ coded' = Cardinality(CodedOf(InUse)) + Cardinality(Data')
    BY <2>1, <2>4, <2>5, <2>6, CountsAre
  <2> QED  BY <1>3, <2>3, <2>7 DEF MemoryInv
<1> QED  BY <1>4, <1>5

LEMMA RetireMemory ==
  ASSUME DecoderInv, TypeInv, MemoryInv, NEW p \in PageId, Retire(p)
  PROVE  MemoryInv'
<1>1. job.stage = "idle" /\ job' = job /\ p \in DOMAIN page
  BY DEF Retire, InUse
<1>2. /\ Loose = {} /\ Data = {} /\ Loose' = {} /\ Data' = {}
      /\ SegmentsAreNew' /\ RegionsAreNew'
  BY <1>1 DEF Loose, Data, SegmentsAreNew, RegionsAreNew
<1>3. CASE p = latestDisplayPage
  <2>1. page' = [page EXCEPT ![p].status = "retired"] /\ UNCHANGED << composition, coded >>
    BY <1>3 DEF Retire, IsBase
  <2>2. {"status", "displayset", "regions"} \subseteq DOMAIN page[p]
    BY <1>1 DEF TypeInv, PagesType, Page
  <2>3. /\ DOMAIN page' = DOMAIN page
        /\ \A q \in DOMAIN page : /\ page'[q].displayset = page[q].displayset
                                  /\ DOMAIN page'[q].regions = DOMAIN page[q].regions
    BY <1>1, <2>1, <2>2
  <2> QED  BY <1>2, <2>1, <2>3, JobMemory
<1>4. CASE p # latestDisplayPage
  <2>1. page' = PagesWithout({p}) /\ MemoryWithout({p})
    BY <1>4 DEF Retire, IsBase
  <2>2. /\ {p} \subseteq DOMAIN page /\ DOMAIN page' = DOMAIN page \ {p}
        /\ \A q \in DOMAIN page \ {p} : page'[q] = page[q]
    BY <1>1, <2>1 DEF PagesWithout, InUse
  <2> QED  BY <1>2, <2>1, <2>2, PagesLess
<1> QED  BY <1>3, <1>4

LEMMA ResetMemory ==
  ASSUME DecoderInv, TypeInv, MemoryInv, Reset
  PROVE  MemoryInv'
<1>1. /\ job.stage = "idle" /\ job' = job /\ page' = PagesWithout(InUse) /\ MemoryWithout(InUse)
  BY DEF Reset, MemoryAfterReset
<1>2. /\ Loose = {} /\ Data = {} /\ Loose' = {} /\ Data' = {}
      /\ SegmentsAreNew' /\ RegionsAreNew'
  BY <1>1 DEF Loose, Data, SegmentsAreNew, RegionsAreNew
<1>3. /\ InUse \subseteq DOMAIN page /\ DOMAIN page' = DOMAIN page \ InUse
      /\ \A q \in DOMAIN page \ InUse : page'[q] = page[q]
  BY <1>1 DEF PagesWithout, InUse
<1> QED  BY <1>1, <1>2, <1>3, PagesLess

LEMMA StepKeepsMemory ==
  ASSUME DecoderInv, TypeInv, MemoryInv, [Next]_vars
  PROVE  MemoryInv'
<1>1. CASE UNCHANGED vars
  <2>1. UNCHANGED << page, composition, coded, job >>
    BY <1>1 DEF vars
  <2>2. Loose' = Loose /\ Data' = Data
    BY <2>1 DEF Loose, Data, SegmentBlocks, ObjectBlocks
  <2>3. SegmentsAreNew' /\ RegionsAreNew'
    BY <2>1 DEF MemoryInv, SegmentsAreNew, RegionsAreNew, SegmentBlocks, Decoding
  <2> QED  BY <2>1, <2>2, <2>3, JobMemory
<1>2. CASE \E d \in Epochs \cup Updates \cup Others : Submit(d)
  BY <1>2, SubmitMemory
<1>3. CASE \E p \in PageId : Retire(p)
  BY <1>3, RetireMemory
<1> QED
  BY <1>1, <1>2, <1>3, ParsePCSMemory, ParseRCSMemory, ParseCDSMemory, ParseODSMemory,
     OtherParsingMemory, TruncatedMemory, DisplayPageNewMemory, decodeMemory,
     DecodeRegionMemory, CopyRegionMemory, UpdateRegionMemory, QueueMemory, CleanUpMemory,
     ResetMemory
  DEF Next

LEMMA MemoryInvHolds == Spec => []MemoryInv
BY InitMemory, StepKeepsMemory, DecoderInvHolds, TypeInvHolds, PTL DEF Spec

\* However often allocations fail and whichever segments, pages and regions they leave out:
\* each block of the composition buffer and of the coded objects has one owner, and what
\* LS_DisplayPageDelete and the clean-up of a failed packet give back is what was taken.
THEOREM BlocksHaveOneOwner == Spec => []MemoryIsOwned
<1>1. MemoryInv => MemoryIsOwned
  BY DEF MemoryInv, MemoryIsOwned, Loose, Data
<1> QED  BY <1>1, MemoryInvHolds, PTL

\* The variables keep their types; the counts never become negative.
THEOREM DecoderTypeCorrect == Spec => []TypeOK
<1>1. TypeInv /\ MemoryInv => TypeOK
  BY CountsAre DEF TypeInv, TypeOK, PagesType, PixmapsType, StreamType, RestType
<1> QED  BY <1>1, TypeInvHolds, MemoryInvHolds, PTL

=============================================================================
