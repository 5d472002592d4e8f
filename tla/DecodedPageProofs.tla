-------------------------- MODULE DecodedPageProofs --------------------------
(***************************************************************************)
(* If nothing was lost since the epoch began, the latest page has the      *)
(* regions that the broadcaster has defined, with their pixels, however    *)
(* the versions wrap; with their colours, unless an RCS has come without   *)
(* the CDS that the region had; and visible as they were sent, if the last *)
(* display set decoded for this page had a PCS for it.                     *)
(*                                                                         *)
(* PageIsWhatWasSent speaks of the moments between two packets only.  The  *)
(* invariant says at each stage of decoding what is already known: that    *)
(* the segments parsed and those still to parse make up a display set that *)
(* defines its regions as the stream does (IsSent), that a region which is *)
(* still to be updated becomes what was sent by its RCS or is so already   *)
(* (Due), and that the others are done.  That a region which is skipped    *)
(* because its version has not changed is done needs a changed region to   *)
(* have another version than before; that one which is drawn again is done *)
(* needs drawing it twice to be the same as drawing it once.  A display    *)
(* set of another page is decoded upon the latest page as well: it changes *)
(* nothing but which regions are visible (Changes).                        *)
(***************************************************************************)
EXTENDS DisplaysetDecoderProofs

-----------------------------------------------------------------------------
(* What the page shows                                                     *)

\* What a page shows: its regions with the pixels of their pixmaps.
PageView(p) ==
  [r \in DOMAIN page[p].regions |->
     [visible |-> page[p].regions[r].visible, clut |-> page[p].regions[r].clut,
      version |-> page[p].regions[r].version, pixels |-> pixmap[page[p].regions[r].pixmap]]]

LatestView == PageView(latestDisplayPage)

DecodingView == PageView(job.page)

\* Something is known of the page: nothing was lost in an epoch that has regions.
Known == intact /\ DOMAIN stream.rcs # {}

\* The broadcaster's side, s being the stream: to draw a region once more makes no difference.
IsDrawn(s) ==
  /\ DOMAIN s.pixels = DOMAIN s.rcs
  /\ \A r \in DOMAIN s.rcs : Drawn(s.pixels[r], s.rcs[r]) = s.pixels[r]

\* A region in the view v is as the broadcaster has defined it.
Done(s, v, r) ==
  /\ s.colours[r] # "dropped" => v[r].clut = s.colours[r]
  /\ v[r].version = s.rcs[r].version /\ v[r].pixels = s.pixels[r]

\* It becomes so once its RCS has been decoded; if that is skipped, it is so already.
Due(s, v, r) ==
  /\ Drawn(v[r].pixels, s.rcs[r]) = s.pixels[r]
  /\ v[r].version = s.rcs[r].version =>
       v[r].pixels = s.pixels[r] /\ (s.colours[r] # "dropped" => v[r].clut = s.colours[r])

Seen(s, v, r) == s.composed = "sent" => v[r].visible = (r \in s.shows)

Shows(s, v) ==
  DOMAIN v = DOMAIN s.rcs /\ \A r \in DOMAIN s.rcs : Done(s, v, r) /\ Seen(s, v, r)

\* What a display set holds, with the segments of it that are still to parse.
Pages(set, todo) == ({set.pcs} \ {NULL}) \cup {x.body : x \in {t \in todo : t.type = "PCS"}}

Ids(todo, type) == {x.id : x \in {t \in todo : t.type = type}}

RegionsOf(set, todo) == DOMAIN set.rcs \cup Ids(todo, "RCS")

\* Only a display set for this service changes regions.
Changes(ours, R) == IF ours THEN R ELSE {}

\* The display set defines its regions as the stream does, with their colours and objects.
Fits(s, set, todo) ==
  /\ \A x \in todo :
       /\ x.type = "RCS" => x.id \in DOMAIN s.rcs /\ x.body = s.rcs[x.id]
       /\ x.type = "ODS" => x.body = s.rcs[x.id].object
  /\ \A r \in DOMAIN set.rcs : r \in DOMAIN s.rcs /\ set.rcs[r] = s.rcs[r]
  /\ \A r \in DOMAIN set.ods : set.ods[r] = s.rcs[r].object
  /\ \A r \in RegionsOf(set, todo) :
       /\ s.colours[r] # "dropped" =>
            (r \in set.cds \cup Ids(todo, "CDS")) = (s.colours[r] = "sent")
       /\ s.rcs[r].object # NULL => r \in DOMAIN set.ods \cup Ids(todo, "ODS")

\* It begins the epoch, and defines all the regions of it.
IsEpoch(s, set, todo) ==
  /\ Pages(set, todo) # {}
  /\ \A c \in Pages(set, todo) : c.ours /\ c.state = "acquisition" /\ c.shows = s.shows
  /\ Fits(s, set, todo)
  /\ RegionsOf(set, todo) = DOMAIN s.rcs
  /\ \A r \in DOMAIN s.rcs : Drawn(Blank, s.rcs[r]) = s.pixels[r]

\* It says which regions are visible if the stream says so.
Composes(s, set, todo) ==
  s.composed = "sent" =>
    /\ Pages(set, todo) # {}
    /\ \A c \in Pages(set, todo) : c.shows = s.shows

\* It updates the regions of the latest page that it defines; the others are done.
IsUpdate(s, v, set, todo, ours) ==
  /\ Composes(s, set, todo)
  /\ ours => Fits(s, set, todo)
  /\ DOMAIN v = DOMAIN s.rcs
  /\ \A r \in DOMAIN s.rcs :
       IF r \in Changes(ours, RegionsOf(set, todo)) THEN Due(s, v, r) ELSE Done(s, v, r)

\* It is not for this service.
IsForOthers(set, todo) ==
  /\ Pages(set, todo) # {}
  /\ \A c \in Pages(set, todo) : c.state = "reserved" \/ (c.state = "acquisition" /\ ~c.ours)

IsSent(s, v, ours, latest, set, todo) ==
  \/ ours /\ IsEpoch(s, set, todo)
  \/ /\ latest # NULL /\ IsUpdate(s, v, set, todo, ours)
     /\ \A c \in Pages(set, todo) : c.state = "normal"
  \/ latest # NULL /\ Shows(s, v) /\ IsForOthers(set, todo)

\* The regions of the page being decoded, at each stage.
IsDecoded(s, v, left) ==
  /\ DOMAIN v \cup left = DOMAIN s.rcs
  /\ \A r \in DOMAIN v : Done(s, v, r) /\ Seen(s, v, r)

IsCopied(s, v, left, R) ==
  /\ DOMAIN v \cup left = DOMAIN s.rcs
  /\ \A r \in DOMAIN v : Seen(s, v, r) /\ IF r \in R THEN Due(s, v, r) ELSE Done(s, v, r)

IsUpdated(s, v, left) ==
  /\ DOMAIN v = DOMAIN s.rcs
  /\ \A r \in DOMAIN v : Seen(s, v, r) /\ IF r \in left THEN Due(s, v, r) ELSE Done(s, v, r)

LatestShows == latestDisplayPage # NULL /\ Shows(stream, LatestView)

Updating ==
  /\ latestDisplayPage # NULL /\ Set.pcs # NULL
  /\ IsUpdate(stream, LatestView, Set, {}, job.ours)

ContentInv ==
  Known =>
    /\ IsDrawn(stream)
    /\ job.stage \in {"idle", "failed"} => LatestShows
    /\ job.stage = "parsing" =>
         IsSent(stream, LatestView, job.ours, latestDisplayPage, job.set, job.todo)
    /\ job.stage = "parsed" =>
         IsSent(stream, LatestView, job.ours, latestDisplayPage, job.set, {})
    /\ job.stage = "acquisition" =>
         \/ job.ours /\ IsEpoch(stream, Set, {})
         \/ LatestShows /\ ~Set.pcs.ours
    /\ job.stage = "normal" => Updating
    /\ job.stage = "decoding" =>
         job.ours /\ IsEpoch(stream, Set, {}) /\ IsDecoded(stream, DecodingView, job.left)
    /\ job.stage = "copying" =>
         Updating /\ IsCopied(stream, DecodingView, job.left, Changes(job.ours, DOMAIN Set.rcs))
    /\ job.stage = "updating" =>
         Updating /\ IsUpdated(stream, DecodingView, Changes(job.ours, job.left))

-----------------------------------------------------------------------------
(* Views                                                                   *)

LEMMA ViewIs ==
  ASSUME NEW p
  PROVE  /\ DOMAIN PageView(p) = DOMAIN page[p].regions
         /\ \A r \in DOMAIN page[p].regions :
              /\ PageView(p)[r].visible = page[p].regions[r].visible
              /\ PageView(p)[r].clut = page[p].regions[r].clut
              /\ PageView(p)[r].version = page[p].regions[r].version
              /\ PageView(p)[r].pixels = pixmap[page[p].regions[r].pixmap]
BY DEF PageView

\* As long as it is the latest, the latest page shows the same.
LEMMA LatestViewKept ==
  ASSUME DecoderInv, DecoderInv', QueuedKept, latestDisplayPage # NULL,
         latestDisplayPage' = latestDisplayPage
  PROVE  LatestView' = LatestView
<1>1. PICK p : p = latestDisplayPage
  OBVIOUS
<1>2. p \in InUse /\ p \in InUse' /\ p # job.page
  BY <1>1 DEF DecoderInv, LatestIsDecodable
<1>3. page[p].status # "new"
  BY <1>2 DEF DecoderInv, PagesShape
<1>4. /\ page'[p].regions = page[p].regions
      /\ \A x \in PixmapsOf(p) : pixmap'[x] = pixmap[x]
  BY <1>2, <1>3 DEF QueuedKept
<1>5. \A r \in DOMAIN page[p].regions : page[p].regions[r].pixmap \in PixmapsOf(p)
  BY DEF PixmapsOf
<1>6. PageView(p)' = PageView(p)
  BY <1>4, <1>5 DEF PageView
<1> QED  BY <1>1, <1>6 DEF LatestView, PageView

-----------------------------------------------------------------------------
(* Drawing                                                                 *)

LEMMA DrawnTwice ==
  ASSUME NEW old, NEW rcs
  PROVE  Drawn(Drawn(old, rcs), rcs) = Drawn(old, rcs)
BY DEF Drawn

LEMMA NextVersionDiffers ==
  ASSUME NEW v \in Version
  PROVE  NextVersion(v) # v
<1>1. /\ v \in Nat /\ v < Versions /\ Versions \in Nat /\ Versions > 1
  BY DecoderAssumption DEF Version
<1>2. CASE v + 1 < Versions
  <2>1. (v + 1) % Versions = v + 1
    BY <1>1, <1>2
  <2> QED  BY <1>1, <2>1 DEF NextVersion
<1>3. CASE v + 1 = Versions
  <2>1. Versions % Versions = 0
    BY <1>1
  <2> QED  BY <1>1, <1>3, <2>1 DEF NextVersion
<1> QED  BY <1>1, <1>2, <1>3

\* Decoding the RCS of a display set that fits the stream draws what the broadcaster draws.
LEMMA DecodeRCSDraws ==
  ASSUME TypeInv, Fits(stream, Set, {}), NEW r \in DOMAIN Set.rcs, NEW old
  PROVE  /\ DecodeRCS(r, old) = Drawn(old, stream.rcs[r])
         /\ stream.colours[r] # "dropped" => DecodeCDS(r) = stream.colours[r]
         /\ Set.rcs[r] = stream.rcs[r]
<1>1. /\ r \in DOMAIN stream.rcs /\ Set.rcs[r] = stream.rcs[r]
      /\ \A x \in DOMAIN Set.ods : Set.ods[x] = stream.rcs[x].object
      /\ stream.colours[r] # "dropped" => (r \in Set.cds) = (stream.colours[r] = "sent")
      /\ stream.rcs[r].object # NULL => r \in DOMAIN Set.ods
  BY DEF Fits, RegionsOf, Ids
<1>2. stream.colours[r] \in {"sent", "default", "dropped"}
  BY <1>1, SomeOf DEF TypeInv, StreamType, Stream
<1>3. DecodeRCS(r, old) = Drawn(old, stream.rcs[r])
  BY <1>1 DEF DecodeRCS, DecodeODSBitmap, Drawn
<1> QED  BY <1>1, <1>2, <1>3 DEF DecodeCDS

-----------------------------------------------------------------------------
(* Parsing keeps what was sent                                             *)

\* What has been parsed and what is left make up the same display set as before.
Follows(set2, todo2, set, todo) ==
  /\ Pages(set, todo) # {} => Pages(set2, todo2) # {}
  /\ \A c2 \in Pages(set2, todo2) : \E c \in Pages(set, todo) :
       c2.ours = c.ours /\ c2.state = c.state /\ c2.shows = c.shows
  /\ RegionsOf(set2, todo2) = RegionsOf(set, todo)
  /\ \A s : Fits(s, set, todo) => Fits(s, set2, todo2)

LEMMA FollowsSent ==
  ASSUME NEW set2, NEW todo2, NEW set, NEW todo, Follows(set2, todo2, set, todo),
         NEW s, NEW v, NEW ours, NEW latest, IsSent(s, v, ours, latest, set, todo)
  PROVE  IsSent(s, v, ours, latest, set2, todo2)
<1>1. IsEpoch(s, set, todo) => IsEpoch(s, set2, todo2)
  BY DEF Follows, IsEpoch
<1>2. Composes(s, set, todo) => Composes(s, set2, todo2)
  BY DEF Follows, Composes
<1>3. IsUpdate(s, v, set, todo, ours) => IsUpdate(s, v, set2, todo2, ours)
  BY <1>2 DEF Follows, IsUpdate
<1>4. /\ IsForOthers(set, todo) => IsForOthers(set2, todo2)
      /\ (\A c \in Pages(set, todo) : c.state = "normal") =>
           \A c \in Pages(set2, todo2) : c.state = "normal"
  BY DEF Follows, IsForOthers
<1> QED  BY <1>1, <1>3, <1>4 DEF IsSent

LEMMA LatestIsThere ==
  ASSUME NEW s, NEW v, NEW v2, NEW ours, NEW latest, NEW set, NEW todo,
         IsSent(s, v, ours, latest, set, todo), latest # NULL => v2 = v
  PROVE  IsSent(s, v2, ours, latest, set, todo)
BY DEF IsSent

LEMMA ParsedContent ==
  ASSUME DecoderInv, TypeInv, DecoderInv', QueuedKept, ContentInv, job.stage = "parsing",
         NEW set, NEW todo, Parsed(set, todo), intact' => intact,
         intact => Follows(set, todo, job.set, job.todo)
  PROVE  ContentInv'
<1> SUFFICES ASSUME Known' PROVE ContentInv'
  BY DEF ContentInv
<1>1. Known /\ Follows(set, todo, job.set, job.todo)
  BY DEF Known, Parsed
<1>2. /\ job' = [job EXCEPT !.set = set, !.todo = todo,
                            !.stage = IF todo = {} THEN "parsed" ELSE "parsing"]
      /\ UNCHANGED << latestDisplayPage, stream >>
  BY DEF Parsed
<1>3. /\ job'.set = set /\ job'.todo = todo /\ job'.ours = job.ours
      /\ job'.stage = IF todo = {} THEN "parsed" ELSE "parsing"
  BY <1>2 DEF TypeInv, Job
<1>4. IsDrawn(stream) /\ IsSent(stream, LatestView, job.ours, latestDisplayPage, job.set, job.todo)
  BY <1>1 DEF ContentInv
<1>5. IsSent(stream, LatestView, job.ours, latestDisplayPage, set, todo)
  BY <1>1, <1>4, FollowsSent
<1>6. IsSent(stream, LatestView', job.ours, latestDisplayPage, set, todo)
  BY <1>2, <1>5, LatestViewKept, LatestIsThere
<1>7. IsSent(stream', LatestView', job'.ours, latestDisplayPage', job'.set, job'.todo)
  BY <1>2, <1>3, <1>6
<1> QED  BY <1>2, <1>3, <1>4, <1>7 DEF ContentInv

LEMMA IdsWithout ==
  ASSUME NEW seg \in job.todo, NEW type
  PROVE  /\ Ids(Without(seg), type) \subseteq Ids(job.todo, type)
         /\ seg.type # type => Ids(Without(seg), type) = Ids(job.todo, type)
         /\ seg.type = type => Ids(Without(seg), type) \cup {seg.id} = Ids(job.todo, type)
BY DEF Ids, Without

LEMMA ParsePCSFollows ==
  ASSUME TypeInv, NEW seg \in Parsing("PCS"), NEW pcs \in PCS,
         pcs.ours = seg.body.ours, pcs.state = seg.body.state, pcs.shows = seg.body.shows
  PROVE  Follows([job.set EXCEPT !.pcs = pcs], Without(seg), job.set, job.todo)
<1> DEFINE set == [job.set EXCEPT !.pcs = pcs]
           todo == Without(seg)
<1>1. seg \in job.todo /\ seg.type = "PCS" /\ job.set \in Displayset
  BY ParsingIs
<1>2. /\ set.pcs = pcs /\ set.rcs = job.set.rcs /\ set.cds = job.set.cds /\ set.ods = job.set.ods
  BY <1>1 DEF Displayset
<1>3. /\ Ids(todo, "RCS") = Ids(job.todo, "RCS") /\ Ids(todo, "CDS") = Ids(job.todo, "CDS")
      /\ Ids(todo, "ODS") = Ids(job.todo, "ODS")
  BY <1>1, IdsWithout
<1>4. todo \subseteq job.todo
  BY DEF Without
<1> HIDE DEF set, todo
<1>5. RegionsOf(set, todo) = RegionsOf(job.set, job.todo)
  BY <1>2, <1>3 DEF RegionsOf
<1>6. ASSUME NEW s, Fits(s, job.set, job.todo) PROVE Fits(s, set, todo)
  BY <1>2, <1>3, <1>4, <1>5, <1>6 DEF Fits
<1>7. Pages(set, todo) # {}
  BY <1>2, NullAssumption DEF Pages
<1>8. seg.body \in Pages(job.set, job.todo)
  BY <1>1 DEF Pages
<1>9. \A c2 \in Pages(set, todo) : c2 = pcs \/ c2 \in Pages(job.set, job.todo)
  BY <1>2, <1>4 DEF Pages
<1>10. \A c2 \in Pages(set, todo) : \E c \in Pages(job.set, job.todo) :
         c2.ours = c.ours /\ c2.state = c.state /\ c2.shows = c.shows
  BY <1>8, <1>9
<1>11. Follows(set, todo, job.set, job.todo)
  BY <1>5, <1>6, <1>7, <1>10 DEF Follows
<1> QED  BY <1>11 DEF set, todo

LEMMA ParsePCSContent ==
  ASSUME DecoderInv, TypeInv, DecoderInv', QueuedKept, ContentInv, ParsePCS
  PROVE  ContentInv'
<1>0. PICK seg \in Parsing("PCS") : \E shows \in SUBSET seg.body.shows :
        /\ Failing(shows # seg.body.shows)
        /\ Parsed([job.set EXCEPT !.pcs = [ours |-> seg.body.ours, state |-> seg.body.state,
                     version |-> seg.body.version, infos |-> Cardinality(shows), shows |-> shows]],
                  Without(seg))
  BY DEF ParsePCS
<1>1. PICK shows \in SUBSET seg.body.shows :
        /\ Failing(shows # seg.body.shows)
        /\ Parsed([job.set EXCEPT !.pcs = [ours |-> seg.body.ours, state |-> seg.body.state,
                     version |-> seg.body.version, infos |-> Cardinality(shows), shows |-> shows]],
                  Without(seg))
  BY <1>0
<1> DEFINE pcs == [ours |-> seg.body.ours, state |-> seg.body.state, version |-> seg.body.version,
                   infos |-> Cardinality(shows), shows |-> shows]
<1>2. /\ seg.body \in [ours : BOOLEAN, state : {"acquisition", "normal", "reserved"},
                       version : Version, shows : SUBSET RegionId]
      /\ shows \subseteq RegionId /\ job.stage = "parsing"
  <2>1. seg \in Segment /\ seg.type = "PCS" /\ job.stage = "parsing"
    BY ParsingIs
  <2> QED  BY <2>1, SegmentIs
<1>3. pcs \in PCS
  BY <1>2, RegionsAreFinite DEF PCS
<1>4. intact' => intact /\ shows = seg.body.shows
  BY <1>1 DEF Failing
<1>5. /\ pcs.ours = seg.body.ours /\ pcs.state = seg.body.state /\ pcs.shows = shows
      /\ Parsed([job.set EXCEPT !.pcs = pcs], Without(seg))
  BY <1>1
<1> HIDE DEF pcs
<1>6. CASE intact'
  <2>1. Follows([job.set EXCEPT !.pcs = pcs], Without(seg), job.set, job.todo)
    BY <1>3, <1>4, <1>5, <1>6, ParsePCSFollows
  <2> QED  BY <1>2, <1>4, <1>5, <2>1, ParsedContent
<1>7. CASE ~intact'
  BY <1>7 DEF ContentInv, Known
<1> QED  BY <1>6, <1>7

LEMMA ParseRCSFollows ==
  ASSUME TypeInv, NEW seg \in Parsing("RCS")
  PROVE  Follows([job.set EXCEPT !.rcs = With(@, seg.id, seg.body)], Without(seg),
                 job.set, job.todo)
<1> DEFINE set == [job.set EXCEPT !.rcs = With(@, seg.id, seg.body)]
           todo == Without(seg)
<1>1. seg \in job.todo /\ seg.type = "RCS" /\ job.set \in Displayset
  BY ParsingIs
<1>2. /\ set.pcs = job.set.pcs /\ set.rcs = With(job.set.rcs, seg.id, seg.body)
      /\ set.cds = job.set.cds /\ set.ods = job.set.ods
  BY <1>1 DEF Displayset
<1>3. /\ DOMAIN set.rcs = DOMAIN job.set.rcs \cup {seg.id}
      /\ \A r \in DOMAIN set.rcs : \/ r = seg.id /\ set.rcs[r] = seg.body
                                   \/ r \in DOMAIN job.set.rcs /\ set.rcs[r] = job.set.rcs[r]
  BY <1>2 DEF With
<1>4. /\ Ids(todo, "RCS") \cup {seg.id} = Ids(job.todo, "RCS")
      /\ Ids(todo, "CDS") = Ids(job.todo, "CDS") /\ Ids(todo, "ODS") = Ids(job.todo, "ODS")
  BY <1>1, IdsWithout
<1>5. todo \subseteq job.todo /\ job.todo \ {seg} = todo
  BY DEF Without
<1> HIDE DEF set, todo
<1>6. RegionsOf(set, todo) = RegionsOf(job.set, job.todo)
  BY <1>3, <1>4 DEF RegionsOf
<1>7. ASSUME NEW s, Fits(s, job.set, job.todo) PROVE Fits(s, set, todo)
  <2>1. \A r \in DOMAIN set.rcs : r \in DOMAIN s.rcs /\ set.rcs[r] = s.rcs[r]
    BY <1>1, <1>3, <1>7 DEF Fits
  <2> QED  BY <1>2, <1>4, <1>5, <1>6, <1>7, <2>1 DEF Fits
<1>8. Pages(set, todo) = Pages(job.set, job.todo)
  BY <1>1, <1>2, <1>5 DEF Pages
<1>9. Follows(set, todo, job.set, job.todo)
  BY <1>6, <1>7, <1>8 DEF Follows
<1> QED  BY <1>9 DEF set, todo

LEMMA ParseRCSContent ==
  ASSUME DecoderInv, TypeInv, DecoderInv', QueuedKept, ContentInv, ParseRCS
  PROVE  ContentInv'
<1>0. PICK seg \in Parsing("RCS") : \E object \in {seg.body.object, NULL} :
        /\ Failing(object # seg.body.object)
        /\ Parsed([job.set EXCEPT !.rcs = With(@, seg.id, [seg.body EXCEPT !.object = object])],
                  Without(seg))
  BY DEF ParseRCS
<1>1. PICK object \in {seg.body.object, NULL} :
        /\ Failing(object # seg.body.object)
        /\ Parsed([job.set EXCEPT !.rcs = With(@, seg.id, [seg.body EXCEPT !.object = object])],
                  Without(seg))
  BY <1>0
<1>2. job.stage = "parsing" /\ seg.body \in RCS
  <2>1. seg \in Segment /\ seg.type = "RCS" /\ job.stage = "parsing"
    BY ParsingIs
  <2> QED  BY <2>1, SegmentIs
<1>3. CASE intact'
  <2>1. intact /\ object = seg.body.object
    BY <1>1, <1>3 DEF Failing
  <2>2. [seg.body EXCEPT !.object = object] = seg.body
    BY <1>2, <2>1 DEF RCS
  <2>3. Parsed([job.set EXCEPT !.rcs = With(@, seg.id, seg.body)], Without(seg))
    BY <1>1, <2>2
  <2>4. Follows([job.set EXCEPT !.rcs = With(@, seg.id, seg.body)], Without(seg), job.set, job.todo)
    BY ParseRCSFollows
  <2> QED  BY <1>2, <2>1, <2>3, <2>4, ParsedContent
<1>4. CASE ~intact'
  BY <1>4 DEF ContentInv, Known
<1> QED  BY <1>3, <1>4

LEMMA ParseCDSFollows ==
  ASSUME TypeInv, NEW seg \in Parsing("CDS")
  PROVE  Follows([job.set EXCEPT !.cds = @ \cup {seg.id}], Without(seg), job.set, job.todo)
<1> DEFINE set == [job.set EXCEPT !.cds = @ \cup {seg.id}]
           todo == Without(seg)
<1>1. seg \in job.todo /\ seg.type = "CDS" /\ job.set \in Displayset
  BY ParsingIs
<1>2. /\ set.pcs = job.set.pcs /\ set.rcs = job.set.rcs
      /\ set.cds = job.set.cds \cup {seg.id} /\ set.ods = job.set.ods
  BY <1>1 DEF Displayset
<1>3. /\ Ids(todo, "CDS") \cup {seg.id} = Ids(job.todo, "CDS")
      /\ Ids(todo, "RCS") = Ids(job.todo, "RCS") /\ Ids(todo, "ODS") = Ids(job.todo, "ODS")
  BY <1>1, IdsWithout
<1>4. todo \subseteq job.todo /\ job.todo \ {seg} = todo
  BY DEF Without
<1> HIDE DEF set, todo
<1>5. RegionsOf(set, todo) = RegionsOf(job.set, job.todo)
  BY <1>2, <1>3 DEF RegionsOf
<1>6. ASSUME NEW s, Fits(s, job.set, job.todo) PROVE Fits(s, set, todo)
  BY <1>2, <1>3, <1>4, <1>5, <1>6 DEF Fits
<1>7. Pages(set, todo) = Pages(job.set, job.todo)
  BY <1>1, <1>2, <1>4 DEF Pages
<1>8. Follows(set, todo, job.set, job.todo)
  BY <1>5, <1>6, <1>7 DEF Follows
<1> QED  BY <1>8 DEF set, todo

LEMMA ParseODSFollows ==
  ASSUME TypeInv, NEW seg \in Parsing("ODS")
  PROVE  Follows([job.set EXCEPT !.ods = With(@, seg.id, seg.body)], Without(seg),
                 job.set, job.todo)
<1> DEFINE set == [job.set EXCEPT !.ods = With(@, seg.id, seg.body)]
           todo == Without(seg)
<1>1. seg \in job.todo /\ seg.type = "ODS" /\ job.set \in Displayset
  BY ParsingIs
<1>2. /\ set.pcs = job.set.pcs /\ set.ods = With(job.set.ods, seg.id, seg.body)
      /\ set.cds = job.set.cds /\ set.rcs = job.set.rcs
  BY <1>1 DEF Displayset
<1>3. /\ DOMAIN set.ods = DOMAIN job.set.ods \cup {seg.id}
      /\ \A r \in DOMAIN set.ods : \/ r = seg.id /\ set.ods[r] = seg.body
                                   \/ r \in DOMAIN job.set.ods /\ set.ods[r] = job.set.ods[r]
  BY <1>2 DEF With
<1>4. /\ Ids(todo, "ODS") \cup {seg.id} = Ids(job.todo, "ODS")
      /\ Ids(todo, "CDS") = Ids(job.todo, "CDS") /\ Ids(todo, "RCS") = Ids(job.todo, "RCS")
  BY <1>1, IdsWithout
<1>5. todo \subseteq job.todo /\ job.todo \ {seg} = todo
  BY DEF Without
<1> HIDE DEF set, todo
<1>6. RegionsOf(set, todo) = RegionsOf(job.set, job.todo)
  BY <1>2, <1>4 DEF RegionsOf
<1>7. ASSUME NEW s, Fits(s, job.set, job.todo) PROVE Fits(s, set, todo)
  <2>1. \A r \in DOMAIN set.ods : set.ods[r] = s.rcs[r].object
    <3>1. seg.body = s.rcs[seg.id].object
      BY <1>1, <1>7 DEF Fits
    <3> QED  BY <1>3, <1>7, <3>1 DEF Fits
  <2>2. \A r \in RegionsOf(set, todo) :
          s.rcs[r].object # NULL => r \in DOMAIN set.ods \cup Ids(todo, "ODS")
    BY <1>3, <1>4, <1>6, <1>7 DEF Fits
  <2> QED  BY <1>2, <1>4, <1>5, <1>6, <1>7, <2>1, <2>2 DEF Fits
<1>8. Pages(set, todo) = Pages(job.set, job.todo)
  BY <1>1, <1>2, <1>5 DEF Pages
<1>9. Follows(set, todo, job.set, job.todo)
  BY <1>6, <1>7, <1>8 DEF Follows
<1> QED  BY <1>9 DEF set, todo

\* A segment that defines nothing that is shown; the EDS is the last one.
LEMMA PlainFollows ==
  ASSUME NEW set, NEW todo, set.pcs = job.set.pcs, set.rcs = job.set.rcs, set.cds = job.set.cds,
         set.ods = job.set.ods, todo \subseteq job.todo,
         \A x \in job.todo \ todo : x.type \in {"DDS", "EDS"}
  PROVE  Follows(set, todo, job.set, job.todo)
<1>1. /\ Ids(todo, "RCS") = Ids(job.todo, "RCS") /\ Ids(todo, "CDS") = Ids(job.todo, "CDS")
      /\ Ids(todo, "ODS") = Ids(job.todo, "ODS")
  BY DEF Ids
<1>2. RegionsOf(set, todo) = RegionsOf(job.set, job.todo)
  BY <1>1 DEF RegionsOf
<1>3. ASSUME NEW s, Fits(s, job.set, job.todo) PROVE Fits(s, set, todo)
  BY <1>1, <1>2, <1>3 DEF Fits
<1>4. Pages(set, todo) = Pages(job.set, job.todo)
  BY DEF Pages
<1> QED  BY <1>2, <1>3, <1>4 DEF Follows

LEMMA EDSIsLast ==
  ASSUME TypeInv, NEW seg \in Parsing("EDS")
  PROVE  \A x \in job.todo : x.type = "EDS"
<1>1. \A x \in job.todo : Rank["EDS"] <= Rank[x.type]
  BY DEF Parsing
<1>2. \A x \in job.todo : x.type \in {"DDS", "PCS", "RCS", "CDS", "ODS", "EDS"}
  BY ParsingIs, SegmentIs
<1> QED  BY <1>1, <1>2 DEF Rank

LEMMA OtherParsingContent ==
  ASSUME DecoderInv, TypeInv, DecoderInv', QueuedKept, ContentInv,
         ParseCDS \/ ParseODS \/ ParseDDS \/ ParseEDS \/ SegmentNewFails \/ Truncated
  PROVE  ContentInv'
<1>1. CASE ParseCDS
  <2>1. PICK seg \in Parsing("CDS") :
          /\ Parsed([job.set EXCEPT !.cds = @ \cup {seg.id}], Without(seg)) /\ intact' = intact
    BY <1>1 DEF ParseCDS
  <2>2. Follows([job.set EXCEPT !.cds = @ \cup {seg.id}], Without(seg), job.set, job.todo)
    BY ParseCDSFollows
  <2>3. job.stage = "parsing"
    BY ParsingIs
  <2> QED  BY <2>1, <2>2, <2>3, ParsedContent
<1>2. CASE ParseODS
  <2>1. PICK seg \in Parsing("ODS") : \E object \in {seg.body, NULL} :
          /\ Failing(object = NULL)
          /\ Parsed([job.set EXCEPT !.ods = With(@, seg.id, object)], Without(seg))
    BY <1>2 DEF ParseODS
  <2>2. PICK object \in {seg.body, NULL} :
          /\ Failing(object = NULL)
          /\ Parsed([job.set EXCEPT !.ods = With(@, seg.id, object)], Without(seg))
    BY <2>1
  <2>3. CASE intact'
    <3>1. intact /\ object = seg.body
      BY <2>2, <2>3 DEF Failing
    <3>2. Follows([job.set EXCEPT !.ods = With(@, seg.id, seg.body)], Without(seg),
                  job.set, job.todo)
      BY ParseODSFollows
    <3>3. job.stage = "parsing"
      BY ParsingIs
    <3> QED  BY <2>2, <3>1, <3>2, <3>3, ParsedContent
  <2>4. CASE ~intact'
    BY <2>4 DEF ContentInv, Known
  <2> QED  BY <2>3, <2>4
<1>3. CASE ParseDDS
  <2>1. PICK seg \in Parsing("DDS") :
          /\ Parsed([job.set EXCEPT !.dds = TRUE], Without(seg)) /\ intact' = intact
    BY <1>3 DEF ParseDDS
  <2> DEFINE set == [job.set EXCEPT !.dds = TRUE]
  <2>2. /\ seg \in job.todo /\ seg.type = "DDS" /\ job.set \in Displayset /\ job.stage = "parsing"
    BY ParsingIs
  <2>3. /\ set.pcs = job.set.pcs /\ set.rcs = job.set.rcs
        /\ set.cds = job.set.cds /\ set.ods = job.set.ods
    BY <2>2 DEF Displayset
  <2>4. Without(seg) \subseteq job.todo /\ \A x \in job.todo \ Without(seg) : x = seg
    BY DEF Without
  <2>5. Parsed(set, Without(seg))
    BY <2>1
  <2> HIDE DEF set
  <2>6. Follows(set, Without(seg), job.set, job.todo)
    BY <2>2, <2>3, <2>4, PlainFollows
  <2> QED  BY <2>1, <2>2, <2>5, <2>6, ParsedContent
<1>4. CASE ParseEDS
  <2>1. PICK seg \in Parsing("EDS"), eds \in BOOLEAN :
          /\ Parsed([job.set EXCEPT !.eds = eds], {}) /\ intact' = intact
    BY <1>4 DEF ParseEDS
  <2> DEFINE set == [job.set EXCEPT !.eds = eds]
  <2>2. job.set \in Displayset /\ job.stage = "parsing"
    BY ParsingIs
  <2>3. /\ set.pcs = job.set.pcs /\ set.rcs = job.set.rcs
        /\ set.cds = job.set.cds /\ set.ods = job.set.ods
    BY <2>2 DEF Displayset
  <2>4. \A x \in job.todo : x.type = "EDS"
    BY EDSIsLast
  <2>5. Parsed(set, {})
    BY <2>1
  <2> HIDE DEF set
  <2>6. Follows(set, {}, job.set, job.todo)
    BY <2>3, <2>4, PlainFollows
  <2> QED  BY <2>1, <2>2, <2>5, <2>6, ParsedContent
<1>5. CASE SegmentNewFails \/ Truncated
  BY <1>5 DEF SegmentNewFails, Truncated, Failing, ContentInv, Known
<1> QED  BY <1>1, <1>2, <1>3, <1>4, <1>5

-----------------------------------------------------------------------------
(* A packet is submitted                                                   *)

LEMMA EmptySetIs ==
  /\ EmptySet.pcs = NULL /\ DOMAIN EmptySet.rcs = {} /\ EmptySet.cds = {}
  /\ DOMAIN EmptySet.ods = {}
BY DEF EmptySet

\* What the segments of a display set make up.
LEMMA SegmentsPages ==
  ASSUME NEW d
  PROVE  /\ d.state # "none" => Pages(EmptySet, Segments(d)) # {}
         /\ \A c \in Pages(EmptySet, Segments(d)) :
              /\ d.state # "none"
              /\ c.ours = d.ours /\ c.state = d.state /\ c.shows = d.shows
<1> DEFINE body == [ours |-> d.ours, state |-> d.state, version |-> d.version, shows |-> d.shows]
<1>1. {x \in Segments(d) : x.type = "PCS"} =
        IF d.state = "none" THEN {} ELSE {Seg("PCS", NULL, body)}
  BY DEF Segments, Seg
<1>2. Seg("PCS", NULL, body).body = body
  BY DEF Seg
<1>3. body.ours = d.ours /\ body.state = d.state /\ body.shows = d.shows
  OBVIOUS
<1> HIDE DEF body
<1>4. {x.body : x \in {t \in Segments(d) : t.type = "PCS"}} =
        IF d.state = "none" THEN {} ELSE {body}
  BY <1>1, <1>2
<1>5. Pages(EmptySet, Segments(d)) = IF d.state = "none" THEN {} ELSE {body}
  BY <1>4, EmptySetIs DEF Pages
<1> QED  BY <1>3, <1>5

LEMMA SegmentsIds ==
  ASSUME NEW d
  PROVE  /\ Ids(Segments(d), "RCS") = DOMAIN d.rcs /\ Ids(Segments(d), "CDS") = d.cds
         /\ \A r \in DOMAIN d.rcs : d.rcs[r].object # NULL => r \in Ids(Segments(d), "ODS")
<1>1. Ids(Segments(d), "RCS") = DOMAIN d.rcs
  <2>1. ASSUME NEW r \in DOMAIN d.rcs PROVE r \in Ids(Segments(d), "RCS")
    <3>1. Seg("RCS", r, d.rcs[r]) \in Segments(d)
      BY DEF Segments
    <3>2. Seg("RCS", r, d.rcs[r]).type = "RCS" /\ Seg("RCS", r, d.rcs[r]).id = r
      BY DEF Seg
    <3> QED  BY <3>1, <3>2 DEF Ids
  <2>2. \A x \in Segments(d) : x.type = "RCS" => x.id \in DOMAIN d.rcs
    BY DEF Segments, Seg
  <2> QED  BY <2>1, <2>2 DEF Ids
<1>2. Ids(Segments(d), "CDS") = d.cds
  <2>1. ASSUME NEW r \in d.cds PROVE r \in Ids(Segments(d), "CDS")
    <3>1. Seg("CDS", r, NULL) \in Segments(d)
      BY DEF Segments
    <3>2. Seg("CDS", r, NULL).type = "CDS" /\ Seg("CDS", r, NULL).id = r
      BY DEF Seg
    <3> QED  BY <3>1, <3>2 DEF Ids
  <2>2. \A x \in Segments(d) : x.type = "CDS" => x.id \in d.cds
    BY DEF Segments, Seg
  <2> QED  BY <2>1, <2>2 DEF Ids
<1>3. \A r \in DOMAIN d.rcs : d.rcs[r].object # NULL => r \in Ids(Segments(d), "ODS")
  <2>1. ASSUME NEW r \in DOMAIN d.rcs, d.rcs[r].object # NULL
        PROVE  r \in Ids(Segments(d), "ODS")
    <3>1. Seg("ODS", r, d.rcs[r].object) \in Segments(d)
      BY <2>1 DEF Segments
    <3>2. Seg("ODS", r, d.rcs[r].object).type = "ODS" /\ Seg("ODS", r, d.rcs[r].object).id = r
      BY DEF Seg
    <3> QED  BY <3>1, <3>2 DEF Ids
  <2> QED  BY <2>1
<1> QED  BY <1>1, <1>2, <1>3

LEMMA SegmentsFit ==
  ASSUME NEW d, NEW s,
         \A r \in DOMAIN d.rcs :
           /\ r \in DOMAIN s.rcs /\ s.rcs[r] = d.rcs[r]
           /\ s.colours[r] # "dropped" => (r \in d.cds) = (s.colours[r] = "sent")
  PROVE  /\ Fits(s, EmptySet, Segments(d)) /\ RegionsOf(EmptySet, Segments(d)) = DOMAIN d.rcs
<1>1. RegionsOf(EmptySet, Segments(d)) = DOMAIN d.rcs
  BY EmptySetIs, SegmentsIds DEF RegionsOf
<1>2. \A x \in Segments(d) : x.type = "RCS" => x.id \in DOMAIN d.rcs /\ x.body = d.rcs[x.id]
  BY DEF Segments, Seg
<1>3. \A x \in Segments(d) : x.type = "ODS" => x.id \in DOMAIN d.rcs /\ x.body = d.rcs[x.id].object
  BY DEF Segments, Seg
<1>4. \A r \in RegionsOf(EmptySet, Segments(d)) :
        /\ s.colours[r] # "dropped" =>
             (r \in EmptySet.cds \cup Ids(Segments(d), "CDS")) = (s.colours[r] = "sent")
        /\ s.rcs[r].object # NULL => r \in DOMAIN EmptySet.ods \cup Ids(Segments(d), "ODS")
  BY <1>1, SegmentsIds, EmptySetIs
<1> QED  BY <1>1, <1>2, <1>3, <1>4, EmptySetIs DEF Fits

LEMMA EpochContent ==
  ASSUME TypeInv, NEW d \in Epochs
  PROVE  IsDrawn(Broadcast(d)) /\ IsEpoch(Broadcast(d), EmptySet, Segments(d))
<1> DEFINE s == Broadcast(d)
<1>1. d.state = "acquisition" /\ d.ours = TRUE /\ d.shows = DOMAIN d.rcs
  BY EpochIs
<1>2. /\ s.shows = d.shows /\ DOMAIN s.rcs = DOMAIN d.rcs /\ DOMAIN s.pixels = DOMAIN d.rcs
      /\ \A r \in DOMAIN d.rcs :
           /\ s.rcs[r] = d.rcs[r] /\ s.pixels[r] = Drawn(Blank, d.rcs[r])
           /\ s.colours[r] = IF r \in d.cds THEN "sent" ELSE "default"
  BY <1>1 DEF Broadcast, Over, Colours
<1> HIDE DEF s
<1>3. IsDrawn(s)
  BY <1>2, DrawnTwice DEF IsDrawn
<1>4. Fits(s, EmptySet, Segments(d)) /\ RegionsOf(EmptySet, Segments(d)) = DOMAIN d.rcs
  BY <1>2, SegmentsFit
<1>5. IsEpoch(s, EmptySet, Segments(d))
  BY <1>1, <1>2, <1>4, SegmentsPages DEF IsEpoch
<1> QED  BY <1>3, <1>5 DEF s

\* What a display set for this service makes of the stream within an epoch.
LEMMA UpdatedStream ==
  ASSUME TypeInv, NEW d \in Updates
  PROVE  /\ DOMAIN Broadcast(d).rcs = DOMAIN stream.rcs
         /\ DOMAIN Broadcast(d).pixels = DOMAIN stream.rcs
         /\ \A r \in DOMAIN d.rcs :
              /\ r \in DOMAIN stream.rcs
              /\ Broadcast(d).rcs[r] = d.rcs[r]
              /\ Broadcast(d).pixels[r] = Drawn(stream.pixels[r], d.rcs[r])
              /\ Broadcast(d).colours[r] = Colours(d, r)
         /\ \A r \in DOMAIN stream.rcs \ DOMAIN d.rcs :
              /\ Broadcast(d).rcs[r] = stream.rcs[r]
              /\ Broadcast(d).pixels[r] = stream.pixels[r]
              /\ Broadcast(d).colours[r] = stream.colours[r]
         /\ Broadcast(d).composed = "sent" =>
              d.state = "normal" /\ Broadcast(d).shows = d.shows
<1>1. d.ours = TRUE /\ d.rcs \in Resent /\ d.state \in {"normal", "none"}
  BY UpdateIs
<1>2. DOMAIN d.rcs \subseteq DOMAIN stream.rcs
  BY <1>1, ResentType
<1> QED  BY <1>1, <1>2 DEF Broadcast, Over, Colours, ComposedBy

\* The colours of a region that is sent again.
LEMMA ColoursSent ==
  ASSUME TypeInv, NEW d \in Updates, NEW r \in DOMAIN d.rcs
  PROVE  /\ Colours(d, r) # "dropped" => (r \in d.cds) = (Colours(d, r) = "sent")
         /\ Colours(d, r) # "dropped" /\ d.rcs[r] = stream.rcs[r] =>
              Colours(d, r) = stream.colours[r]
<1>1. d.state \in {"normal", "none"} /\ d.cds \in Coloured(d.rcs)
  BY UpdateIs
<1>2. r \in d.cds => (stream.colours[r] = "default" => d.rcs[r] # stream.rcs[r])
  BY <1>1 DEF Coloured
<1>3. stream.colours[r] \in {"sent", "default", "dropped"}
  <2>1. r \in DOMAIN stream.rcs
    BY UpdatedStream
  <2> QED  BY <2>1, SomeOf DEF TypeInv, StreamType, Stream
<1> QED  BY <1>1, <1>2, <1>3 DEF Colours

LEMMA UpdateContent ==
  ASSUME TypeInv, NEW d \in Updates, NEW v, IsDrawn(stream), Shows(stream, v)
  PROVE  /\ IsDrawn(Broadcast(d)) /\ IsUpdate(Broadcast(d), v, EmptySet, Segments(d), TRUE)
         /\ \A c \in Pages(EmptySet, Segments(d)) : c.state = "normal"
<1> DEFINE s == Broadcast(d)
<1>1. d.rcs \in Resent /\ d.state \in {"normal", "none"}
  BY UpdateIs
<1>2. \A r \in DOMAIN d.rcs : \/ d.rcs[r] = stream.rcs[r]
                              \/ d.rcs[r].version = NextVersion(stream.rcs[r].version)
  BY <1>1, ResentType
<1>3. /\ DOMAIN s.rcs = DOMAIN stream.rcs /\ DOMAIN s.pixels = DOMAIN stream.rcs
      /\ \A r \in DOMAIN d.rcs : /\ r \in DOMAIN stream.rcs
                                 /\ s.rcs[r] = d.rcs[r]
                                 /\ s.pixels[r] = Drawn(stream.pixels[r], d.rcs[r])
                                 /\ s.colours[r] = Colours(d, r)
      /\ \A r \in DOMAIN stream.rcs \ DOMAIN d.rcs : /\ s.rcs[r] = stream.rcs[r]
                                                     /\ s.pixels[r] = stream.pixels[r]
                                                     /\ s.colours[r] = stream.colours[r]
      /\ s.composed = "sent" => d.state = "normal" /\ s.shows = d.shows
  BY UpdatedStream
<1>4. \A r \in DOMAIN stream.rcs : stream.rcs[r] \in RCS
  BY SomeOf DEF TypeInv, StreamType, Stream
<1> HIDE DEF s
<1>5. IsDrawn(s)
  BY <1>3, DrawnTwice DEF IsDrawn
<1>6. Fits(s, EmptySet, Segments(d)) /\ RegionsOf(EmptySet, Segments(d)) = DOMAIN d.rcs
  <2>1. \A r \in DOMAIN d.rcs :
          /\ r \in DOMAIN s.rcs /\ s.rcs[r] = d.rcs[r]
          /\ s.colours[r] # "dropped" => (r \in d.cds) = (s.colours[r] = "sent")
    BY <1>3, ColoursSent
  <2> QED  BY ONLY <2>1, SegmentsFit
<1>7. /\ Composes(s, EmptySet, Segments(d))
      /\ \A c \in Pages(EmptySet, Segments(d)) : c.state = "normal"
  BY <1>1, <1>3, SegmentsPages DEF Composes
<1>8. \A r \in DOMAIN s.rcs : IF r \in DOMAIN d.rcs THEN Due(s, v, r) ELSE Done(s, v, r)
  <2>1. ASSUME NEW r \in DOMAIN d.rcs PROVE Due(s, v, r)
    <3>1. /\ stream.colours[r] # "dropped" => v[r].clut = stream.colours[r]
          /\ v[r].version = stream.rcs[r].version /\ v[r].pixels = stream.pixels[r]
      BY <1>3 DEF Shows, Done
    <3>2. Drawn(v[r].pixels, s.rcs[r]) = s.pixels[r]
      BY <1>3, <3>1
    <3>3. CASE d.rcs[r] = stream.rcs[r]
      <4>1. s.pixels[r] = stream.pixels[r]
        BY <1>3, <3>3 DEF IsDrawn
      <4>2. s.colours[r] # "dropped" => s.colours[r] = stream.colours[r]
        BY <1>3, <3>3, ColoursSent
      <4> QED  BY <3>1, <3>2, <4>1, <4>2 DEF Due
    <3>4. CASE d.rcs[r].version = NextVersion(stream.rcs[r].version)
      <4>1. s.rcs[r].version # v[r].version
        BY <1>3, <1>4, <3>1, <3>4, NextVersionDiffers DEF RCS
      <4> QED  BY <3>2, <4>1 DEF Due
    <3> QED  BY <1>2, <3>3, <3>4
  <2>2. ASSUME NEW r \in DOMAIN stream.rcs \ DOMAIN d.rcs PROVE Done(s, v, r)
    BY <1>3 DEF Shows, Done
  <2> QED  BY <1>3, <2>1, <2>2
<1>9. DOMAIN v = DOMAIN s.rcs
  BY <1>3 DEF Shows
<1>10. IsUpdate(s, v, EmptySet, Segments(d), TRUE)
  BY <1>6, <1>7, <1>8, <1>9 DEF IsUpdate, Changes
<1> QED  BY <1>5, <1>7, <1>10 DEF s

\* A display set that is not for this service changes at most what is known of visibility.
LEMMA OtherContent ==
  ASSUME TypeInv, NEW d \in Others, NEW v, IsDrawn(stream), Shows(stream, v)
  PROVE  /\ IsDrawn(Broadcast(d)) /\ Broadcast(d).rcs = stream.rcs
         /\ \/ /\ IsUpdate(Broadcast(d), v, EmptySet, Segments(d), d.ours)
               /\ \A c \in Pages(EmptySet, Segments(d)) : c.state = "normal"
            \/ Shows(Broadcast(d), v) /\ IsForOthers(EmptySet, Segments(d))
<1> DEFINE s == Broadcast(d)
<1>1. \/ d.state \in {"acquisition", "normal"} /\ d.ours = FALSE
      \/ d.state = "reserved" /\ d.ours = TRUE
  BY OtherIs
<1>2. /\ s.rcs = stream.rcs /\ s.pixels = stream.pixels /\ s.colours = stream.colours
      /\ s.shows = stream.shows
      /\ s.composed = IF d.state = "normal" THEN "other" ELSE stream.composed
  <2>1. s = [stream EXCEPT !.composed = ComposedBy(d)] /\ stream \in Stream
    BY <1>1 DEF Broadcast, TypeInv, StreamType
  <2>2. ComposedBy(d) = IF d.state = "normal" THEN "other" ELSE stream.composed
    BY <1>1 DEF ComposedBy
  <2> QED  BY <2>1, <2>2 DEF Stream
<1> HIDE DEF s
<1>3. IsDrawn(s)
  BY <1>2 DEF IsDrawn
<1>4. CASE d.state = "normal"
  <2>1. \A r \in DOMAIN s.rcs : Done(s, v, r)
    BY <1>2 DEF Shows, Done
  <2>2. Composes(s, EmptySet, Segments(d))
    BY <1>2, <1>4 DEF Composes
  <2>3. DOMAIN v = DOMAIN s.rcs /\ d.ours = FALSE
    BY <1>1, <1>2, <1>4 DEF Shows
  <2>4. IsUpdate(s, v, EmptySet, Segments(d), d.ours)
    BY <2>1, <2>2, <2>3 DEF IsUpdate, Changes
  <2> QED  BY <1>2, <1>3, <1>4, <2>4, SegmentsPages DEF s
<1>5. CASE d.state # "normal"
  <2>1. IsForOthers(EmptySet, Segments(d))
    BY <1>1, <1>5, SegmentsPages DEF IsForOthers
  <2>2. Shows(s, v)
    BY <1>2, <1>5 DEF Shows, Done, Seen
  <2> QED  BY <1>2, <1>3, <2>1, <2>2 DEF s
<1> QED  BY <1>4, <1>5

LEMMA SubmitContent ==
  ASSUME DecoderInv, TypeInv, DecoderInv', QueuedKept, ContentInv,
         NEW d \in Epochs \cup Updates \cup Others, Submit(d)
  PROVE  ContentInv'
<1> SUFFICES ASSUME Known' PROVE ContentInv'
  BY DEF ContentInv
<1>1. /\ job.stage = "idle"
      /\ job' = [Idle EXCEPT !.stage = "parsing", !.ours = d.ours, !.todo = Segments(d)]
      /\ stream' = Broadcast(d) /\ latestDisplayPage' = latestDisplayPage
      /\ intact' = (intact \/ (d.ours /\ d.state = "acquisition"))
  BY DEF Submit
<1>2. /\ job'.stage = "parsing" /\ job'.ours = d.ours /\ job'.set = EmptySet
      /\ job'.todo = Segments(d)
  BY <1>1 DEF Idle
<1>3. Known => IsDrawn(stream) /\ latestDisplayPage # NULL /\ Shows(stream, LatestView)
               /\ LatestView' = LatestView
  BY <1>1, LatestViewKept DEF ContentInv, LatestShows
<1>4. /\ IsDrawn(stream')
      /\ IsSent(stream', LatestView', d.ours, latestDisplayPage, EmptySet, Segments(d))
  <2>1. CASE d \in Epochs
    <3>1. d.ours = TRUE
      BY <2>1, EpochIs
    <3> QED  BY <1>1, <2>1, <3>1, EpochContent DEF IsSent
  <2>2. CASE d \in Updates
    <3>1. d.ours = TRUE /\ d.state # "acquisition" /\ DOMAIN Broadcast(d).rcs = DOMAIN stream.rcs
      BY <2>2, UpdateIs, UpdatedStream
    <3>2. Known
      BY <1>1, <3>1 DEF Known
    <3>3. /\ IsDrawn(stream')
          /\ IsUpdate(stream', LatestView', EmptySet, Segments(d), TRUE)
          /\ \A c \in Pages(EmptySet, Segments(d)) : c.state = "normal"
      BY <1>1, <1>3, <2>2, <3>2, UpdateContent
    <3> QED  BY <1>3, <3>1, <3>2, <3>3 DEF IsSent
  <2>3. CASE d \in Others
    <3>1. ~(d.ours /\ d.state = "acquisition")
      BY <2>3, OtherIs
    <3>2. Broadcast(d).rcs = stream.rcs
      BY <2>3, OtherIs DEF Broadcast, TypeInv, StreamType, Stream
    <3>3. Known
      BY <1>1, <3>1, <3>2 DEF Known
    <3>4. /\ IsDrawn(stream')
          /\ \/ /\ IsUpdate(stream', LatestView', EmptySet, Segments(d), d.ours)
                /\ \A c \in Pages(EmptySet, Segments(d)) : c.state = "normal"
             \/ Shows(stream', LatestView') /\ IsForOthers(EmptySet, Segments(d))
      BY <1>1, <1>3, <2>3, <3>3, OtherContent
    <3> QED  BY <1>3, <3>3, <3>4 DEF IsSent
  <2> QED  BY <2>1, <2>2, <2>3
<1> QED  BY <1>1, <1>2, <1>4 DEF ContentInv

-----------------------------------------------------------------------------
(* The page is decoded                                                     *)

\* The latest page shows what it did, and what was sent is what it was.
LEMMA LatestStillShows ==
  ASSUME DecoderInv, DecoderInv', QueuedKept, latestDisplayPage' = latestDisplayPage,
         stream' = stream
  PROVE  /\ LatestShows => LatestShows'
         /\ Updating /\ Set' = Set /\ job'.ours = job.ours => Updating'
<1>1. latestDisplayPage # NULL => LatestView' = LatestView
  BY LatestViewKept
<1>2. LatestShows => LatestShows'
  BY <1>1 DEF LatestShows
<1>3. Updating /\ Set' = Set /\ job'.ours = job.ours => Updating'
  BY <1>1 DEF Updating
<1> QED  BY <1>2, <1>3

LEMMA NewPageContent ==
  ASSUME DecoderInv, TypeInv, DecoderInv', QueuedKept, ContentInv, job.stage = "parsed",
         NEW p \in PageId \ InUse, NewPage(p)
  PROVE  ContentInv'
<1> SUFFICES ASSUME Known' PROVE ContentInv'
  BY DEF ContentInv
<1>1. PICK pcs \in Compositions :
        /\ page' = With(page, p,
             [status |-> "new", dds |-> FALSE, regions |-> << >>,
              displayset |-> [job.set EXCEPT !.pcs = pcs],
              ours |-> pcs # NULL /\ pcs.ours, version |-> IF pcs = NULL THEN 0 ELSE pcs.version])
        /\ job' = [job EXCEPT !.page = p, !.set = EmptySet, !.stage = PageStage]
        /\ Failing(pcs = NULL /\ latestDisplayPage # NULL)
        /\ UNCHANGED << latestDisplayPage, stream >>
  BY DEF NewPage
<1>2. Known /\ ~(pcs = NULL /\ latestDisplayPage # NULL)
  BY <1>1 DEF Failing, Known
<1>3. /\ IsDrawn(stream)
      /\ IsSent(stream, LatestView, job.ours, latestDisplayPage, job.set, {})
  BY <1>2 DEF ContentInv
<1>4. Pages(job.set, {}) = {job.set.pcs} \ {NULL} /\ job.set \in Displayset
  BY DEF Pages, TypeInv, Job
<1>5. job.set.pcs # NULL => [job.set EXCEPT !.pcs = pcs] = job.set
  BY <1>1, <1>4 DEF Compositions, Displayset
<1>7. /\ job'.page = p /\ job'.stage = PageStage /\ job'.ours = job.ours
  BY <1>1 DEF TypeInv, Job
<1>8. Set' = [job.set EXCEPT !.pcs = pcs]
  <2>1. page'[p].displayset = [job.set EXCEPT !.pcs = pcs]
    BY <1>1 DEF With
  <2> QED  BY <1>7, <2>1 DEF Set, Decoding
<1>9. /\ LatestShows => LatestShows'
      /\ latestDisplayPage # NULL => LatestView' = LatestView
  BY <1>1, LatestStillShows, LatestViewKept
<1>10. CASE job.ours /\ IsEpoch(stream, job.set, {})
  <2>1. job'.stage = "acquisition" /\ Set' = job.set
    BY <1>4, <1>5, <1>7, <1>8, <1>10 DEF PageStage, IsEpoch
  <2> QED  BY <1>1, <1>3, <1>7, <1>10, <2>1 DEF ContentInv
<1>11. CASE /\ latestDisplayPage # NULL /\ IsUpdate(stream, LatestView, job.set, {}, job.ours)
            /\ \A c \in Pages(job.set, {}) : c.state = "normal"
  <2>1. job'.stage = "normal"
    BY <1>4, <1>7, <1>11 DEF PageStage
  <2>2. pcs # NULL
    BY <1>2, <1>11
  <2> DEFINE set == [job.set EXCEPT !.pcs = pcs]
  <2>3. /\ set.pcs = pcs /\ set.rcs = job.set.rcs /\ set.cds = job.set.cds
        /\ set.ods = job.set.ods /\ (job.set.pcs # NULL => set = job.set)
    BY <1>4, <1>5 DEF Displayset
  <2>4. Set' = set
    BY <1>8
  <2> HIDE DEF set
  <2>5. Composes(stream, set, {})
    BY <1>4, <1>11, <2>3 DEF IsUpdate, Composes
  <2>6. /\ RegionsOf(set, {}) = RegionsOf(job.set, {})
        /\ job.ours => Fits(stream, set, {})
    BY <1>11, <2>3 DEF IsUpdate, Fits, RegionsOf
  <2>7. IsUpdate(stream, LatestView, set, {}, job.ours)
    BY <1>11, <2>5, <2>6 DEF IsUpdate
  <2>8. Updating'
    BY <1>1, <1>7, <1>9, <1>11, <2>2, <2>3, <2>4, <2>7 DEF Updating
  <2> QED  BY <1>1, <1>3, <2>1, <2>8 DEF ContentInv
<1>12. CASE /\ latestDisplayPage # NULL /\ Shows(stream, LatestView)
            /\ IsForOthers(job.set, {})
  <2>1. LatestShows'
    BY <1>9, <1>12 DEF LatestShows
  <2>2. job.set.pcs # NULL /\ Set' = job.set
    BY <1>4, <1>5, <1>8, <1>12 DEF IsForOthers
  <2>3. \/ job'.stage = "failed"
        \/ job'.stage = "acquisition" /\ ~job.set.pcs.ours
    BY <1>4, <1>7, <1>12, <2>2 DEF PageStage, IsForOthers
  <2> QED  BY <1>1, <1>3, <2>1, <2>2, <2>3 DEF ContentInv
<1> QED  BY <1>3, <1>10, <1>11, <1>12 DEF IsSent

\* A failure that costs something ends what is known of the page.
LEMMA FailingContent ==
  ASSUME Failing(TRUE)
  PROVE  ContentInv'
BY DEF Failing, ContentInv, Known

LEMMA DisplayPageNewContent ==
  ASSUME DecoderInv, TypeInv, DecoderInv', QueuedKept, ContentInv, DisplayPageNew
  PROVE  ContentInv'
BY NewPageContent, FailingContent DEF DisplayPageNew

\* The display set of the page being decoded stays the same when regions are begun.
LEMMA BeginIs ==
  ASSUME DecoderInv, TypeInv, MemoryInv, job.stage \in {"acquisition", "normal"},
         NEW stage \in {"decoding", "copying"}, NEW left, NEW dds, Begin(stage, left, dds)
  PROVE  /\ job'.stage = stage /\ job'.left = left /\ job'.ours = job.ours /\ Set' = Set
         /\ DOMAIN DecodingView' = {}
         /\ UNCHANGED << latestDisplayPage, stream >>
<1>0. PICK p : p = job.page
  OBVIOUS
<1>1. p \in DOMAIN page /\ p # NULL /\ page[p] \in Page
  <2>1. job.page # NULL
    BY DEF DecoderInv, JobShape, Composed
  <2> QED  BY <1>0, <2>1, DecodingIs DEF InUse, Decoding
<1>2. /\ page' = [page EXCEPT ![p].dds = dds] /\ job' = [job EXCEPT !.stage = stage, !.left = left]
      /\ UNCHANGED << latestDisplayPage, stream >>
  BY <1>0 DEF Begin
<1>3. job'.page = p /\ job'.stage = stage /\ job'.left = left /\ job'.ours = job.ours
  BY <1>0, <1>2 DEF TypeInv, Job
<1>4. page'[p].displayset = page[p].displayset /\ page'[p].regions = page[p].regions
  <2>1. {"dds", "displayset", "regions"} \subseteq DOMAIN page[p]
    BY <1>1 DEF Page
  <2> QED  BY <1>1, <1>2, <2>1
<1>5. Set' = Set
  BY <1>0, <1>3, <1>4 DEF Set, Decoding
<1>6. DOMAIN page[p].regions = {}
  BY <1>0 DEF MemoryInv, RegionsAreNew, Decoding
<1>7. DOMAIN DecodingView' = {}
  BY <1>3, <1>4, <1>6 DEF DecodingView, PageView
<1> QED  BY <1>2, <1>3, <1>5, <1>7

LEMMA decodeEpochContent ==
  ASSUME DecoderInv, TypeInv, MemoryInv, DecoderInv', QueuedKept, ContentInv,
         decodeEpochDisplayset
  PROVE  ContentInv'
<1> SUFFICES ASSUME Known' PROVE ContentInv'
  BY DEF ContentInv
<1>1. job.stage = "acquisition" /\ Set.pcs # NULL /\ Known
  <2>1. stream' = stream /\ intact' = intact
    BY DEF decodeEpochDisplayset, Begin, Fails, Decodes
  <2> QED  BY <2>1 DEF decodeEpochDisplayset, DecoderInv, JobShape, Composed, Known
<1>2. IsDrawn(stream) /\ (\/ job.ours /\ IsEpoch(stream, Set, {})
                          \/ LatestShows /\ ~Set.pcs.ours)
  BY <1>1 DEF ContentInv
<1>3. CASE job.ours /\ IsEpoch(stream, Set, {})
  <2>1. DOMAIN Set.rcs = DOMAIN stream.rcs /\ Set.pcs.ours
    BY <1>1, <1>3 DEF IsEpoch, RegionsOf, Ids, Pages
  <2>2. Accepted
    BY <1>1, <2>1 DEF Accepted, Known
  <2>3. Begin("decoding", DOMAIN Set.rcs, Set.dds)
    BY <2>2 DEF decodeEpochDisplayset
  <2>4. /\ job'.stage = "decoding" /\ job'.left = DOMAIN Set.rcs /\ job'.ours = job.ours
        /\ Set' = Set /\ DOMAIN DecodingView' = {}
        /\ UNCHANGED << latestDisplayPage, stream >>
    BY <1>1, <2>3, BeginIs
  <2>5. IsDecoded(stream', DecodingView', job'.left)
    BY <2>1, <2>4 DEF IsDecoded
  <2> QED  BY <1>2, <1>3, <2>4, <2>5 DEF ContentInv
<1>4. CASE LatestShows /\ ~Set.pcs.ours
  <2>1. Fails
    BY <1>4 DEF decodeEpochDisplayset, Accepted
  <2>2. job'.stage = "failed" /\ UNCHANGED << latestDisplayPage, stream >>
    BY <2>1 DEF Fails, Decodes, TypeInv, Job
  <2>3. LatestShows'
    BY <1>4, <2>2, LatestStillShows
  <2> QED  BY <1>2, <2>2, <2>3 DEF ContentInv
<1> QED  BY <1>2, <1>3, <1>4

LEMMA decodeNormalContent ==
  ASSUME DecoderInv, TypeInv, MemoryInv, DecoderInv', QueuedKept, ContentInv,
         decodeNormalCaseDisplayset
  PROVE  ContentInv'
<1> SUFFICES ASSUME Known' PROVE ContentInv'
  BY DEF ContentInv
<1>1. job.stage = "normal" /\ Known
  <2>1. stream' = stream /\ intact' = intact
    BY DEF decodeNormalCaseDisplayset, Begin, Fails, Crashes, Decodes
  <2> QED  BY <2>1 DEF decodeNormalCaseDisplayset, Known
<1>2. IsDrawn(stream) /\ Updating
  BY <1>1 DEF ContentInv
<1>3. /\ Set.pcs # NULL /\ latestDisplayPage # NULL
      /\ DOMAIN Latest.regions = DOMAIN stream.rcs
  BY <1>2 DEF Updating, IsUpdate, LatestView, PageView, Latest
<1>4. Latest.regions # << >>
  BY <1>1, <1>3 DEF Known
<1>5. Begin("copying", DOMAIN Latest.regions, Set.dds \/ Latest.dds)
  BY <1>3, <1>4 DEF decodeNormalCaseDisplayset
<1>6. /\ job'.stage = "copying" /\ job'.left = DOMAIN Latest.regions /\ job'.ours = job.ours
      /\ Set' = Set /\ DOMAIN DecodingView' = {}
      /\ UNCHANGED << latestDisplayPage, stream >>
  BY <1>1, <1>5, BeginIs
<1>7. IsCopied(stream', DecodingView', job'.left, Changes(job'.ours, DOMAIN Set'.rcs))
  BY <1>3, <1>6 DEF IsCopied
<1>8. Updating'
  BY <1>2, <1>6, LatestStillShows
<1> QED  BY <1>2, <1>6, <1>7, <1>8 DEF ContentInv

-----------------------------------------------------------------------------
(* The regions are decoded                                                 *)

\* What the view of a page has of a region.
IsViewOf(x, region, pixels) ==
  /\ x.visible = region.visible /\ x.clut = region.clut /\ x.version = region.version
  /\ x.pixels = pixels

\* The page being decoded has its own pixmaps.
LEMMA DecodingViewIs ==
  ASSUME DecoderInv, TypeInv, job.page # NULL
  PROVE  /\ DOMAIN DecodingView = DOMAIN Decoding.regions
         /\ \A r \in DOMAIN Decoding.regions :
              /\ Decoding.regions[r].pixmap = << job.page, r >> /\ << job.page, r >> \in DOMAIN pixmap
              /\ IsViewOf(DecodingView[r], Decoding.regions[r], pixmap[<< job.page, r >>])
<1>1. PICK p : p = job.page
  OBVIOUS
<1>2. p \in InUse
  BY <1>1, DecodingIs
<1>3. \A r \in DOMAIN page[p].regions : /\ page[p].regions[r].pixmap = << p, r >>
                                        /\ << p, r >> \in DOMAIN pixmap
  BY <1>2 DEF DecoderInv, PagesShape, OwnPixmaps
<1>4. DecodingView = PageView(p) /\ Decoding = page[p]
  BY <1>1 DEF DecodingView, PageView, Decoding
<1> QED  BY <1>1, <1>3, <1>4, ViewIs DEF IsViewOf

LEMMA AddedView ==
  ASSUME DecoderInv, TypeInv, job.page # NULL, NEW r, NEW region, NEW pixels,
         Adds(r, region, pixels), region.pixmap = << job.page, r >>, job'.page = job.page
  PROVE  /\ DOMAIN DecodingView' = DOMAIN DecodingView \cup {r} /\ Set' = Set
         /\ IsViewOf(DecodingView'[r], region, pixels)
         /\ \A s \in DOMAIN DecodingView \ {r} : DecodingView'[s] = DecodingView[s]
<1>1. PICK p : p = job.page
  OBVIOUS
<1>2. /\ page'[p].displayset = page[p].displayset
      /\ DOMAIN page'[p].regions = DOMAIN page[p].regions \cup {r}
      /\ page'[p].regions[r] = region
      /\ \A s \in DOMAIN page[p].regions \ {r} : page'[p].regions[s] = page[p].regions[s]
      /\ \A x \in DOMAIN pixmap \ {<< p, r >>} : pixmap'[x] = pixmap[x]
  <2>1. /\ page'[job.page].displayset = page[job.page].displayset
        /\ DOMAIN page'[job.page].regions = DOMAIN page[job.page].regions \cup {r}
        /\ page'[job.page].regions[r] = region
        /\ \A s \in DOMAIN page[job.page].regions \ {r} :
             page'[job.page].regions[s] = page[job.page].regions[s]
        /\ \A x \in DOMAIN pixmap \ {<< job.page, r >>} : pixmap'[x] = pixmap[x]
    BY Added
  <2> QED  BY <1>1, <2>1
<1>3. pixmap'[<< p, r >>] = pixels
  BY <1>1 DEF Adds, NewPixmap, With
<1>4. p \in InUse
  BY <1>1, DecodingIs
<1>5. \A s \in DOMAIN page[p].regions : /\ page[p].regions[s].pixmap = << p, s >>
                                        /\ << p, s >> \in DOMAIN pixmap
  BY <1>4 DEF DecoderInv, PagesShape, OwnPixmaps
<1>6. \A s \in DOMAIN page[p].regions \ {r} : pixmap'[<< p, s >>] = pixmap[<< p, s >>]
  BY <1>2, <1>5
<1>7. IsViewOf(PageView(p)'[r], region, pixels)
  BY <1>1, <1>2, <1>3 DEF PageView, IsViewOf
<1>8. ASSUME NEW s \in DOMAIN page[p].regions \ {r} PROVE PageView(p)'[s] = PageView(p)[s]
  <2>1. /\ page'[p].regions[s] = page[p].regions[s] /\ s \in DOMAIN page'[p].regions
        /\ pixmap'[page[p].regions[s].pixmap] = pixmap[page[p].regions[s].pixmap]
    BY <1>2, <1>5, <1>6
  <2> QED  BY <2>1 DEF PageView
<1>9. DOMAIN PageView(p)' = DOMAIN PageView(p) \cup {r} /\ DOMAIN PageView(p) = DOMAIN page[p].regions
  BY <1>2 DEF PageView
<1>10. DecodingView = PageView(p) /\ DecodingView' = PageView(p)'
  BY <1>1 DEF DecodingView, PageView
<1>11. Set' = Set
  BY <1>1, <1>2 DEF Set, Decoding
<1> QED  BY <1>7, <1>8, <1>9, <1>10, <1>11

LEMMA DecodeRegionContent ==
  ASSUME DecoderInv, TypeInv, DecoderInv', QueuedKept, ContentInv, DecodeRegion
  PROVE  ContentInv'
<1> SUFFICES ASSUME Known' PROVE ContentInv'
  BY DEF ContentInv
<1>1. job.stage = "decoding" /\ job.page # NULL /\ Set.pcs # NULL
  BY DEF DecodeRegion, DecoderInv, JobShape, Composed
<1>2. Known
  BY DEF DecodeRegion, Failing, Fails, Crashes, Decodes, Known
<1>3. /\ IsDrawn(stream) /\ job.ours /\ IsEpoch(stream, Set, {})
      /\ IsDecoded(stream, DecodingView, job.left)
  BY <1>1, <1>2 DEF ContentInv
<1>4. PICK r \in job.left :
        /\ NewPixmap(r, DecodeRCS(r, Blank))
        /\ page' = [page EXCEPT ![job.page].regions = With(@, r,
             [version |-> Set.rcs[r].version, clut |-> DecodeCDS(r), pixmap |-> << job.page, r >>,
              visible |-> r \in Set.pcs.shows])]
        /\ job' = [job EXCEPT !.left = Left(r)]
        /\ stream' = stream
  BY <1>3 DEF DecodeRegion, Failing, Known
<1>5. r \in DOMAIN Set.rcs
  BY <1>1 DEF TypeInv, LeftIsSent
<1>6. /\ job'.page = job.page /\ job'.left = Left(r) /\ job'.stage = "decoding"
      /\ job'.ours = job.ours
  BY <1>1, <1>4 DEF TypeInv, Job
<1>8. r \in DOMAIN stream.rcs /\ Drawn(Blank, stream.rcs[r]) = stream.pixels[r]
  BY <1>3, <1>5 DEF IsEpoch, Fits
<1>7. /\ DecodeRCS(r, Blank) = Drawn(Blank, stream.rcs[r])
      /\ stream.colours[r] # "dropped" => DecodeCDS(r) = stream.colours[r]
      /\ Set.rcs[r] = stream.rcs[r]
  BY <1>3, <1>5, <1>8, DecodeRCSDraws DEF IsEpoch
<1>9. Set.pcs.shows = stream.shows
  BY <1>1, <1>3 DEF IsEpoch, Pages
<1> DEFINE region == [version |-> Set.rcs[r].version, clut |-> DecodeCDS(r),
                      pixmap |-> << job.page, r >>, visible |-> r \in Set.pcs.shows]
<1>10. Adds(r, region, DecodeRCS(r, Blank))
  BY <1>4 DEF Adds
<1>11. /\ region.pixmap = << job.page, r >> /\ region.clut = DecodeCDS(r)
       /\ region.version = stream.rcs[r].version /\ region.visible = (r \in stream.shows)
  BY <1>7, <1>9
<1> HIDE DEF region
<1>12. /\ DOMAIN DecodingView' = DOMAIN DecodingView \cup {r} /\ Set' = Set
       /\ IsViewOf(DecodingView'[r], region, DecodeRCS(r, Blank))
       /\ \A s \in DOMAIN DecodingView \ {r} : DecodingView'[s] = DecodingView[s]
  BY <1>1, <1>6, <1>10, <1>11, AddedView
<1>13. Done(stream, DecodingView', r) /\ Seen(stream, DecodingView', r)
  BY <1>7, <1>8, <1>11, <1>12 DEF Done, Seen, IsViewOf
<1>14. \A s \in DOMAIN DecodingView \ {r} :
         Done(stream, DecodingView', s) /\ Seen(stream, DecodingView', s)
  BY <1>3, <1>12 DEF IsDecoded, Done, Seen
<1>15. IsDecoded(stream, DecodingView', Left(r))
  BY <1>3, <1>8, <1>12, <1>13, <1>14 DEF IsDecoded, Left
<1> QED  BY <1>3, <1>4, <1>6, <1>12, <1>15 DEF ContentInv

\* When the last region has been copied, the page is to be updated with all that was sent.
LEMMA CopiedContent ==
  ASSUME NEW r, Updating', IsDrawn(stream'), job.stage = "copying", job \in Job, job' = Copied(r),
         Set' = Set, IsCopied(stream', DecodingView', Left(r), Changes(job.ours, DOMAIN Set.rcs))
  PROVE  ContentInv'
<1>1. CASE Left(r) = {}
  <2>1. job'.stage = "updating" /\ job'.left = DOMAIN Set.rcs /\ job'.ours = job.ours
    BY <1>1 DEF Copied, Job
  <2>2. IsUpdated(stream', DecodingView', Changes(job'.ours, job'.left))
    BY <1>1, <2>1 DEF IsCopied, IsUpdated
  <2> QED  BY <2>1, <2>2 DEF ContentInv
<1>2. CASE Left(r) # {}
  <2>1. job'.stage = "copying" /\ job'.left = Left(r) /\ job'.ours = job.ours
    BY <1>2 DEF Copied, Job
  <2> QED  BY <2>1 DEF ContentInv
<1> QED  BY <1>1, <1>2

LEMMA CopyRegionContent ==
  ASSUME DecoderInv, TypeInv, DecoderInv', QueuedKept, ContentInv, CopyRegion
  PROVE  ContentInv'
<1> SUFFICES ASSUME Known' PROVE ContentInv'
  BY DEF ContentInv
<1>1. job.stage = "copying" /\ job.page # NULL /\ Set.pcs # NULL
      /\ latestDisplayPage # NULL /\ job.left \subseteq DOMAIN Latest.regions
  BY DEF CopyRegion, DecoderInv, JobShape, Composed, CopiesLatest
<1>2. Known
  BY DEF CopyRegion, Failing, Crashes, Decodes, Known
<1> DEFINE R == Changes(job.ours, DOMAIN Set.rcs)
<1>3. /\ IsDrawn(stream) /\ Updating
      /\ IsCopied(stream, DecodingView, job.left, R)
  BY <1>1, <1>2 DEF ContentInv
<1>4. PICK r \in job.left :
        /\ NewPixmap(r, pixmap[Latest.regions[r].pixmap])
        /\ page' = [page EXCEPT ![job.page].regions = With(@, r,
             [DisplayRegionCopy(r) EXCEPT !.visible = r \in Set.pcs.shows])]
        /\ job' = Copied(r)
        /\ UNCHANGED << latestDisplayPage, stream >>
  BY DEF CopyRegion, Failing, Known
<1>5. job'.page = job.page /\ job'.ours = job.ours /\ job \in Job
  BY <1>4 DEF TypeInv, Job, Copied
<1>6. /\ DOMAIN LatestView = DOMAIN stream.rcs
      /\ stream.composed = "sent" => Set.pcs.shows = stream.shows
      /\ \A s \in DOMAIN stream.rcs :
           IF s \in R THEN Due(stream, LatestView, s) ELSE Done(stream, LatestView, s)
  BY <1>1, <1>3 DEF Updating, IsUpdate, Composes, Pages, RegionsOf, Ids
<1>7. /\ r \in DOMAIN stream.rcs
      /\ LatestView[r].clut = Latest.regions[r].clut
      /\ LatestView[r].version = Latest.regions[r].version
      /\ LatestView[r].pixels = pixmap[Latest.regions[r].pixmap]
  <2>1. r \in DOMAIN Latest.regions
    BY <1>1
  <2> QED  BY <1>6, <2>1 DEF LatestView, PageView, Latest
<1> DEFINE region == [DisplayRegionCopy(r) EXCEPT !.visible = r \in Set.pcs.shows]
<1>8. Adds(r, region, pixmap[Latest.regions[r].pixmap])
  BY <1>4 DEF Adds
<1>9. /\ region.pixmap = << job.page, r >> /\ region.visible = (r \in Set.pcs.shows)
      /\ region.clut = Latest.regions[r].clut /\ region.version = Latest.regions[r].version
  <2>1. Latest.regions[r] \in Region
    BY <1>1, LatestIs
  <2> QED  BY <2>1 DEF DisplayRegionCopy, Region
<1> HIDE DEF region, R
<1>10. /\ DOMAIN DecodingView' = DOMAIN DecodingView \cup {r} /\ Set' = Set
       /\ IsViewOf(DecodingView'[r], region, pixmap[Latest.regions[r].pixmap])
       /\ \A s \in DOMAIN DecodingView \ {r} : DecodingView'[s] = DecodingView[s]
  BY <1>1, <1>5, <1>8, <1>9, AddedView
<1>11. /\ Seen(stream, DecodingView', r)
       /\ IF r \in R THEN Due(stream, DecodingView', r) ELSE Done(stream, DecodingView', r)
  BY <1>6, <1>7, <1>9, <1>10 DEF Done, Due, Seen, IsViewOf
<1>12. \A s \in DOMAIN DecodingView \ {r} :
         /\ Seen(stream, DecodingView', s)
         /\ IF s \in R THEN Due(stream, DecodingView', s) ELSE Done(stream, DecodingView', s)
  BY <1>3, <1>10 DEF IsCopied, Done, Due, Seen
<1>13. IsCopied(stream, DecodingView', Left(r), R)
  <2>1. DOMAIN DecodingView' \cup Left(r) = DOMAIN stream.rcs
    BY <1>3, <1>7, <1>10 DEF IsCopied, Left
  <2> QED  BY <1>10, <1>11, <1>12, <2>1 DEF IsCopied
<1>14. Updating'
  BY <1>3, <1>4, <1>5, <1>10, LatestStillShows
<1> QED  BY <1>1, <1>3, <1>4, <1>5, <1>10, <1>13, <1>14, CopiedContent DEF R

\* What the view of the page being decoded becomes when a region is redrawn.
LEMMA RedrawnView ==
  ASSUME DecoderInv, TypeInv, job.page # NULL, NEW r \in DOMAIN Decoding.regions,
         NEW pixels, NEW version, NEW clut, Redraws(r, pixels, version, clut),
         job'.page = job.page
  PROVE  /\ DOMAIN DecodingView' = DOMAIN DecodingView /\ Set' = Set
         /\ DecodingView'[r].visible = DecodingView[r].visible
         /\ DecodingView'[r].clut = clut /\ DecodingView'[r].version = version
         /\ DecodingView'[r].pixels = pixels
         /\ \A s \in DOMAIN DecodingView \ {r} : DecodingView'[s] = DecodingView[s]
<1>1. PICK p : p = job.page
  OBVIOUS
<1>2. /\ page'[p].displayset = page[p].displayset
      /\ DOMAIN page'[p].regions = DOMAIN page[p].regions
      /\ \A s \in DOMAIN page[p].regions \ {r} : page'[p].regions[s] = page[p].regions[s]
      /\ \A x \in DOMAIN pixmap \ {<< p, r >>} : pixmap'[x] = pixmap[x]
      /\ Decoding.regions[r].pixmap = << p, r >> /\ << p, r >> \in DOMAIN pixmap
  BY <1>1, Redrawn
<1>3. r \in DOMAIN page[p].regions /\ page[p].regions[r] \in Region
  <2>1. Decoding.regions \in Some(Region)
    BY DecodingIs
  <2> QED  BY <1>1, <2>1, SomeOf DEF Decoding
<1>12. /\ page'[p].regions[r] = [page[p].regions[r] EXCEPT !.version = version, !.clut = clut]
       /\ pixmap'[<< p, r >>] = pixels
  <2>1. page[p] \in Page /\ p \in DOMAIN page
    BY <1>1, DecodingIs DEF Decoding, InUse
  <2>2. page' = [page EXCEPT ![p].regions[r] = [@ EXCEPT !.version = version, !.clut = clut]]
    BY <1>1 DEF Redraws
  <2>3. page'[p].regions =
          [page[p].regions EXCEPT ![r] = [@ EXCEPT !.version = version, !.clut = clut]]
    BY <2>1, <2>2 DEF Page
  <2>4. pixmap' = [pixmap EXCEPT ![<< p, r >>] = pixels]
    BY <1>1, <1>2 DEF Redraws
  <2> QED  BY <1>2, <1>3, <2>3, <2>4
<1>4. p \in InUse
  BY <1>1, DecodingIs
<1>5. \A s \in DOMAIN page[p].regions : /\ page[p].regions[s].pixmap = << p, s >>
                                        /\ << p, s >> \in DOMAIN pixmap
  BY <1>4 DEF DecoderInv, PagesShape, OwnPixmaps
<1>6. /\ page'[p].regions[r].version = version /\ page'[p].regions[r].clut = clut
      /\ page'[p].regions[r].visible = page[p].regions[r].visible
      /\ page'[p].regions[r].pixmap = << p, r >>
  BY <1>3, <1>5, <1>12 DEF Region
<1>7. /\ PageView(p)'[r].visible = PageView(p)[r].visible
      /\ PageView(p)'[r].clut = clut /\ PageView(p)'[r].version = version
      /\ PageView(p)'[r].pixels = pixels
  BY <1>2, <1>3, <1>6, <1>12 DEF PageView
<1>13. \A s \in DOMAIN page[p].regions \ {r} : pixmap'[<< p, s >>] = pixmap[<< p, s >>]
  BY <1>2, <1>5
<1>8. ASSUME NEW s \in DOMAIN page[p].regions \ {r} PROVE PageView(p)'[s] = PageView(p)[s]
  <2>1. /\ page'[p].regions[s] = page[p].regions[s] /\ s \in DOMAIN page'[p].regions
        /\ pixmap'[page[p].regions[s].pixmap] = pixmap[page[p].regions[s].pixmap]
    BY <1>2, <1>5, <1>13
  <2> QED  BY <2>1 DEF PageView
<1>9. DOMAIN PageView(p)' = DOMAIN PageView(p) /\ DOMAIN PageView(p) = DOMAIN page[p].regions
  BY <1>2 DEF PageView
<1>10. DecodingView = PageView(p) /\ DecodingView' = PageView(p)'
  BY <1>1 DEF DecodingView, PageView
<1>11. Set' = Set
  BY <1>1, <1>2 DEF Set, Decoding
<1> QED  BY <1>7, <1>8, <1>9, <1>10, <1>11

LEMMA UpdateRegionContent ==
  ASSUME DecoderInv, TypeInv, DecoderInv', QueuedKept, ContentInv, UpdateRegion
  PROVE  ContentInv'
<1> SUFFICES ASSUME Known' PROVE ContentInv'
  BY DEF ContentInv
<1>1. job.stage = "updating" /\ job.page # NULL /\ Known
  BY DEF UpdateRegion, DecoderInv, JobShape, Composed, Known
<1>2. /\ IsDrawn(stream) /\ Updating
      /\ IsUpdated(stream, DecodingView, Changes(job.ours, job.left))
      /\ job.ours => Fits(stream, Set, {})
  BY <1>1 DEF ContentInv, Updating, IsUpdate
<1>3. PICK r \in job.left :
        /\ job' = [job EXCEPT !.left = Left(r)]
        /\ IF r \in DOMAIN Decoding.regions /\ job.ours /\ Outdated(r)
             THEN /\ pixmap' = [pixmap EXCEPT ![Decoding.regions[r].pixmap] = DecodeRCS(r, @)]
                  /\ page' = [page EXCEPT ![job.page].regions[r] =
                                 [@ EXCEPT !.version = Set.rcs[r].version, !.clut = DecodeCDS(r)]]
             ELSE UNCHANGED << pixmap, page >>
        /\ UNCHANGED << latestDisplayPage, stream >>
  BY DEF UpdateRegion
<1>4. r \in DOMAIN Set.rcs
  BY <1>1 DEF TypeInv, LeftIsSent
<1>5. /\ job'.page = job.page /\ job'.left = Left(r) /\ job'.stage = "updating"
      /\ job'.ours = job.ours
  BY <1>1, <1>3 DEF TypeInv, Job
<1>12. CASE ~job.ours
  <2>1. UNCHANGED << pixmap, page >> /\ Changes(job.ours, job.left) = Changes(job'.ours, job'.left)
    BY <1>3, <1>5, <1>12 DEF Changes
  <2>2. DecodingView' = DecodingView /\ Set' = Set
    BY <1>5, <2>1 DEF DecodingView, PageView, Set, Decoding
  <2>3. Updating'
    BY <1>2, <1>3, <1>5, <2>2, LatestStillShows
  <2> QED  BY <1>2, <1>3, <1>5, <2>1, <2>2, <2>3 DEF ContentInv
<1> SUFFICES ASSUME job.ours PROVE ContentInv'
  BY <1>12
<1>13. IsUpdated(stream, DecodingView, job.left) /\ Fits(stream, Set, {})
  BY <1>2 DEF Changes
<1>6. /\ DOMAIN DecodingView = DOMAIN stream.rcs
      /\ DOMAIN Decoding.regions = DOMAIN stream.rcs
      /\ r \in DOMAIN stream.rcs /\ Set.rcs[r] = stream.rcs[r]
      /\ Due(stream, DecodingView, r) /\ Seen(stream, DecodingView, r)
  <2>1. DOMAIN DecodingView = DOMAIN stream.rcs
    BY <1>13 DEF IsUpdated
  <2>2. DOMAIN Decoding.regions = DOMAIN stream.rcs
    BY <1>1, <2>1, DecodingViewIs
  <2>3. r \in DOMAIN stream.rcs /\ Set.rcs[r] = stream.rcs[r]
    BY <1>4, <1>13 DEF Fits
  <2> QED  BY <1>13, <2>1, <2>2, <2>3 DEF IsUpdated
<1>7. /\ DecodingView[r].version = Decoding.regions[r].version
      /\ DecodingView[r].pixels = pixmap[<< job.page, r >>]
      /\ Decoding.regions[r].pixmap = << job.page, r >> /\ << job.page, r >> \in DOMAIN pixmap
  BY <1>1, <1>6, DecodingViewIs DEF IsViewOf
<1>8. /\ DOMAIN DecodingView' = DOMAIN DecodingView /\ Set' = Set
      /\ Done(stream, DecodingView', r) /\ Seen(stream, DecodingView', r)
      /\ \A s \in DOMAIN DecodingView \ {r} : DecodingView'[s] = DecodingView[s]
  <2>1. CASE Outdated(r)
    <3> DEFINE pixels == DecodeRCS(r, pixmap[<< job.page, r >>])
    <3>1. Redraws(r, pixels, Set.rcs[r].version, DecodeCDS(r))
      BY <1>2, <1>3, <1>6, <1>7, <2>1 DEF Redraws
    <3>2. /\ pixels = Drawn(DecodingView[r].pixels, stream.rcs[r])
          /\ stream.colours[r] # "dropped" => DecodeCDS(r) = stream.colours[r]
          /\ Set.rcs[r] = stream.rcs[r]
      BY <1>4, <1>6, <1>7, <1>13, DecodeRCSDraws
    <3>3. pixels = stream.pixels[r]
      BY <1>6, <3>2 DEF Due
    <3> HIDE DEF pixels
    <3>4. /\ DOMAIN DecodingView' = DOMAIN DecodingView /\ Set' = Set
          /\ DecodingView'[r].visible = DecodingView[r].visible
          /\ DecodingView'[r].clut = DecodeCDS(r) /\ DecodingView'[r].version = Set.rcs[r].version
          /\ DecodingView'[r].pixels = pixels
          /\ \A s \in DOMAIN DecodingView \ {r} : DecodingView'[s] = DecodingView[s]
      BY <1>1, <1>5, <1>6, <3>1, RedrawnView
    <3> QED  BY <1>6, <3>2, <3>3, <3>4 DEF Done, Seen
  <2>2. CASE ~Outdated(r)
    <3>1. UNCHANGED << pixmap, page >>
      BY <1>3, <2>2
    <3>2. DecodingView' = DecodingView /\ Set' = Set
      BY <1>5, <3>1 DEF DecodingView, PageView, Set, Decoding
    <3>3. DecodingView[r].version = stream.rcs[r].version
      BY <1>6, <1>7, <2>2 DEF Outdated
    <3> QED  BY <1>6, <3>2, <3>3 DEF Due, Done, Seen
  <2> QED  BY <2>1, <2>2
<1>9. \A s \in DOMAIN DecodingView \ {r} :
        /\ Seen(stream, DecodingView', s)
        /\ IF s \in Left(r) THEN Due(stream, DecodingView', s) ELSE Done(stream, DecodingView', s)
  BY <1>8, <1>13 DEF IsUpdated, Left, Due, Done, Seen
<1>10. IsUpdated(stream, DecodingView', Left(r))
  BY <1>6, <1>8, <1>9 DEF IsUpdated, Left
<1>11. Updating'
  BY <1>2, <1>3, <1>5, <1>8, LatestStillShows
<1>14. IsUpdated(stream', DecodingView', Changes(job'.ours, job'.left))
  BY <1>3, <1>5, <1>10 DEF Changes
<1> QED  BY <1>2, <1>3, <1>5, <1>11, <1>14 DEF ContentInv

-----------------------------------------------------------------------------
(* The page is queued                                                      *)

LEMMA QueueContent ==
  ASSUME DecoderInv, TypeInv, DecoderInv', ContentInv, Queue
  PROVE  ContentInv'
<1> SUFFICES ASSUME Known' PROVE ContentInv'
  BY DEF ContentInv
<1>1. PICK p : p = job.page
  OBVIOUS
<1>2. job.stage \in {"decoding", "updating"} /\ job.left = {} /\ job.page # NULL /\ Known
  BY DEF Queue, DecoderInv, JobShape, Composed, Known
<1>3. IsDrawn(stream) /\ Shows(stream, DecodingView)
  <2>1. CASE job.stage = "decoding"
    <3>1. IsDrawn(stream) /\ IsDecoded(stream, DecodingView, {})
      BY <1>2, <2>1 DEF ContentInv
    <3> QED  BY <3>1 DEF IsDecoded, Shows
  <2>2. CASE job.stage = "updating"
    <3>1. IsDrawn(stream) /\ IsUpdated(stream, DecodingView, {})
      BY <1>2, <2>2 DEF ContentInv, Changes
    <3> QED  BY <3>1 DEF IsUpdated, Shows
  <2> QED  BY <1>2, <2>1, <2>2
<1> DEFINE superseded == {q \in {latestDisplayPage} \ {NULL} : page[q].status = "retired"}
<1>4. /\ MemoryWithout(superseded)
      /\ page' = [PagesWithout(superseded) EXCEPT ![p].status = "queued"]
      /\ latestDisplayPage' = p /\ job' = Idle /\ stream' = stream
  BY <1>1 DEF Queue
<1>5. p \in InUse /\ p # NULL /\ page[p] \in Page
  BY <1>1, <1>2, DecodingIs DEF Decoding
<1>6. superseded \subseteq InUse \ {p}
  BY <1>1 DEF DecoderInv, LatestIsDecodable
<1> HIDE DEF superseded
<1>7. page'[p].regions = page[p].regions
  <2>1. page'[p] = [page[p] EXCEPT !.status = "queued"]
    BY <1>4, <1>5, <1>6 DEF PagesWithout, InUse
  <2> QED  BY <1>5, <2>1 DEF Page
<1>8. ASSUME NEW r \in DOMAIN page[p].regions
      PROVE  pixmap'[page[p].regions[r].pixmap] = pixmap[page[p].regions[r].pixmap]
  <2>1. PixmapsGone(superseded)
    BY <1>4, MemoryGone
  <2>2. << p, r >> \in DOMAIN pixmap /\ page[p].regions[r].pixmap = << p, r >>
    BY <1>5 DEF DecoderInv, PagesShape, OwnPixmaps
  <2>3. ASSUME NEW q \in superseded PROVE << p, r >> \notin PixmapsOf(q)
    BY <1>6, <2>3, OwnNames DEF DecoderInv
  <2>4. << p, r >> \in DOMAIN pixmap'
    BY <2>1, <2>2, <2>3 DEF PixmapsGone
  <2> QED  BY <2>1, <2>2, <2>4 DEF PixmapsGone
<1>9. PageView(p)' = PageView(p)
  BY <1>7, <1>8 DEF PageView
<1>10. LatestView' = DecodingView
  BY <1>1, <1>4, <1>9 DEF LatestView, DecodingView, PageView
<1>11. LatestShows' /\ job'.stage = "idle"
  BY <1>3, <1>4, <1>5, <1>10 DEF LatestShows, Idle
<1> QED  BY <1>3, <1>4, <1>11 DEF ContentInv

LEMMA RestContent ==
  ASSUME DecoderInv, DecoderInv', QueuedKept, ContentInv,
         \/ CleanUp
         \/ \E p \in PageId : Retire(p)
         \/ Reset
  PROVE  ContentInv'
<1> SUFFICES ASSUME Known' PROVE ContentInv'
  BY DEF ContentInv
<1>1. /\ job.stage \in {"idle", "failed"} /\ job'.stage = "idle" /\ Known
      /\ UNCHANGED << latestDisplayPage, stream >>
  <2>1. CASE CleanUp
    BY <2>1 DEF CleanUp, Idle, Known
  <2>2. CASE \E p \in PageId : Retire(p)
    BY <2>2 DEF Retire, Known
  <2>3. CASE Reset
    BY <2>3 DEF Reset, Known
  <2> QED  BY <2>1, <2>2, <2>3
<1>2. IsDrawn(stream) /\ LatestShows
  BY <1>1 DEF ContentInv
<1>3. LatestShows'
  BY <1>1, <1>2, LatestStillShows
<1> QED  BY <1>1, <1>2, <1>3 DEF ContentInv

LEMMA StepKeepsContent ==
  ASSUME DecoderInv, TypeInv, MemoryInv, ContentInv, [Next]_vars
  PROVE  ContentInv'
<1>1. DecoderInv' /\ QueuedKept
  BY StepKeepsDecoderInv
<1>2. CASE UNCHANGED vars
  BY <1>2 DEF vars, ContentInv, Known, LatestShows, Updating, LatestView, DecodingView, PageView, Set, Decoding
<1>3. CASE \E d \in Epochs \cup Updates \cup Others : Submit(d)
  BY <1>1, <1>3, SubmitContent
<1>4. CASE CleanUp \/ (\E p \in PageId : Retire(p)) \/ Reset
  BY <1>1, <1>4, RestContent
<1> QED
  BY <1>1, <1>2, <1>3, <1>4, ParsePCSContent, ParseRCSContent, OtherParsingContent,
     DisplayPageNewContent, decodeEpochContent, decodeNormalContent, DecodeRegionContent,
     CopyRegionContent, UpdateRegionContent, QueueContent
  DEF Next

LEMMA ContentInvHolds == Spec => []ContentInv
<1>1. Init => ContentInv
  BY DEF Init, ContentInv, Known
<1> QED  BY <1>1, StepKeepsContent, DecoderInvHolds, TypeInvHolds, MemoryInvHolds, PTL DEF Spec

\* If nothing was lost or reset since an epoch began that has regions, then between two packets
\* the latest page has these regions, each with the pixels that the epoch's display sets have
\* drawn, those without a PCS included, whatever was sent for another page and however the
\* versions wrap.  A region has its colours unless an RCS came without the CDS that the region
\* had had, and it is visible as the last PCS says if the last display set decoded had one for
\* this page.
THEOREM LatestShowsWhatWasSent == Spec => []PageIsWhatWasSent
<1>1. ContentInv => PageIsWhatWasSent
  <2> SUFFICES ASSUME ContentInv, Known, job.stage = "idle" PROVE PageIsWhatWasSent
    BY DEF PageIsWhatWasSent, Known
  <2>1. latestDisplayPage # NULL /\ Shows(stream, LatestView)
    BY DEF ContentInv, LatestShows
  <2>2. DOMAIN Latest.regions = DOMAIN stream.rcs
    BY <2>1 DEF Shows, LatestView, PageView, Latest
  <2>3. ASSUME NEW r \in DOMAIN Latest.regions
        PROVE  /\ LatestView[r].visible = Latest.regions[r].visible
               /\ LatestView[r].clut = Latest.regions[r].clut
               /\ LatestView[r].pixels = pixmap[Latest.regions[r].pixmap]
    BY DEF LatestView, PageView, Latest
  <2>4. ASSUME NEW r \in DOMAIN Latest.regions
        PROVE  /\ pixmap[Latest.regions[r].pixmap] = stream.pixels[r]
               /\ stream.colours[r] # "dropped" => Latest.regions[r].clut = stream.colours[r]
               /\ stream.composed = "sent" => Latest.regions[r].visible = (r \in stream.shows)
    BY <2>1, <2>2, <2>3 DEF Shows, Done, Seen
  <2> QED  BY <2>1, <2>2, <2>4 DEF PageIsWhatWasSent
<1> QED  BY <1>1, ContentInvHolds, PTL

=============================================================================
