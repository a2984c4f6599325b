------------------------------ MODULE Homepage -------------------------------
(***************************************************************************)
(* The pictures of a shop's homepage: forms that edit them                 *)
(* (src/components/admin/homepage-form.tsx), uploads (src/app/api/uploads, *)
(* src/server/uploads.ts) and the save that deletes what is no longer      *)
(* shown (saveHomepage, src/server/services/shop-homepage-service.ts).     *)
(*                                                                         *)
(* An editor is one open form: [hero, gallery] as shown, the upload of a   *)
(* hero under way or not, at most one batch of pictures for the gallery    *)
(* [base, keys, left], base being the gallery when it was chosen, and at   *)
(* most one save [step, values, prev].  The logo goes as the hero does.    *)
(***************************************************************************)
EXTENDS Naturals, FiniteSets

CONSTANTS Editors,
          MaxPictures,          \* bound of the pictures uploaded
          MaxGallery,           \* MAX (12)
          MaxWrites,            \* bound of saves that reach the row
          Fields,               \* a bound: which pictures a history is of, {"hero", "gallery"}
          Blank                 \* null

VARIABLES fields,     \* one of Fields
          files,      \* keys on the disk
          made,       \* number of keys given so far; the n-th is n
          profile,    \* the row: the pictures published, or Blank
          editors,
          writes,     \* saves that reached the row
          shownOnce,  \* keys that have been published
          secondHand, \* keys saved from a form older than the row, or put back by a batch
          leftBehind  \* keys that a save did not know of, or could not delete

homeVars == <<fields, files, made, profile, editors, writes, shownOnce, secondHand, leftBehind>>

\* the pictures of a page, a batch being uploaded, and a save under way
Picture == [hero : Nat \cup {Blank}, gallery : SUBSET Nat]
Batch   == [base : SUBSET Nat, keys : SUBSET Nat, left : Nat]
Save    == [step : {"asked", "read", "written"}, values : Picture, prev : Picture]

HomepageAssumption == MaxGallery \in Nat /\ Blank \notin Nat \cup Picture \cup Batch \cup Save

ASSUME HomepageAssumption

NoPictures == [hero |-> Blank, gallery |-> {}]

PicturesOf(p) == p.gallery \cup ({p.hero} \ {Blank})

RowOr(p) == IF p = Blank THEN NoPictures ELSE p

\* getHomepageForEditor: empty fields without a row
Form(p, n) ==
    [shown |-> RowOr(p), asOf |-> n, heroBusy |-> FALSE, batch |-> Blank, save |-> Blank]

\* a new homepage, or one with a picture in its gallery
HomepageInit ==
    /\ fields \in Fields
    /\ made \in {0, 1} /\ files = 1..made /\ writes = 0
    /\ profile = IF made = 0 THEN Blank ELSE [hero |-> Blank, gallery |-> {1}]
    /\ editors = [e \in Editors |-> Form(profile, 0)]
    /\ shownOnce = files /\ secondHand = {} /\ leftBehind = {}

(***************************************************************************)
(* The form                                                                *)
(***************************************************************************)
OnlyForm == UNCHANGED <<fields, files, made, profile, writes, shownOnce, secondHand, leftBehind>>

\* the page is loaded, again or for the first time; what was not saved is gone
Load(e) ==
    /\ editors[e].save = Blank
    /\ editors' = [editors EXCEPT ![e] = Form(profile, writes)]
    /\ OnlyForm

\* SingleImage.accept: one at a time
PickHero(e) ==
    /\ "hero" \in fields /\ ~editors[e].heroBusy
    /\ editors' = [editors EXCEPT ![e].heroBusy = TRUE]
    /\ OnlyForm

\* POST of /api/uploads: saveImage under a new key
NewKey == made + 1

Stored == made < MaxPictures /\ made' = NewKey /\ files' = files \cup {NewKey}

OnlyUpload == UNCHANGED <<fields, profile, writes, shownOnce, secondHand, leftBehind>>

HeroArrives(e) ==
    /\ editors[e].heroBusy
    /\ Stored
    /\ editors' = [editors EXCEPT ![e].heroBusy = FALSE, ![e].shown.hero = NewKey]
    /\ OnlyUpload

\* refused, or the answer is lost after the file was written
UploadFails(e) ==
    /\ \/ editors[e].heroBusy /\ editors' = [editors EXCEPT ![e].heroBusy = FALSE]
       \/ editors[e].batch # Blank /\ editors[e].batch.left > 0
          /\ editors' = [editors EXCEPT ![e].batch = Blank]
    /\ \/ UNCHANGED <<files, made>>
       \/ Stored
    /\ OnlyUpload

RemoveHero(e) ==
    /\ editors[e].shown.hero # Blank
    /\ editors' = [editors EXCEPT ![e].shown.hero = Blank]
    /\ OnlyForm

\* GalleryImages.accept: no more than there is room for
PickGallery(e) ==
    /\ "gallery" \in fields /\ editors[e].batch = Blank
    /\ \E n \in 1..MaxGallery - Cardinality(editors[e].shown.gallery) :
         editors' = [editors EXCEPT ![e].batch =
                       [base |-> editors[e].shown.gallery, keys |-> {}, left |-> n]]
    /\ OnlyForm

\* one file after the other
NextOfBatch(e) ==
    /\ editors[e].batch # Blank /\ editors[e].batch.left > 0
    /\ Stored
    /\ editors' = [editors EXCEPT ![e].batch.keys = @ \cup {NewKey}, ![e].batch.left = @ - 1]
    /\ OnlyUpload

\* the gallery becomes what it was when the files were chosen, and the new ones
BatchDone(e) ==
    LET batch == editors[e].batch IN
    /\ batch # Blank /\ batch.left = 0
    /\ editors' = [editors EXCEPT ![e].shown.gallery = batch.base \cup batch.keys,
                                  ![e].batch = Blank]
    /\ secondHand' = secondHand \cup (batch.base \ editors[e].shown.gallery)
    /\ UNCHANGED <<fields, files, made, profile, writes, shownOnce, leftBehind>>

RemovePicture(e) ==
    /\ \E k \in editors[e].shown.gallery :
         editors' = [editors EXCEPT ![e].shown.gallery = @ \ {k}]
    /\ OnlyForm

(***************************************************************************)
(* saveHomepage                                                            *)
(***************************************************************************)

\* the button is off while a save is under way, and not while an upload is
Submit(e) ==
    /\ editors[e].save = Blank /\ writes < MaxWrites
    /\ editors' = [editors EXCEPT ![e].save =
                     [step |-> "asked", values |-> editors[e].shown, prev |-> NoPictures]]
    /\ OnlyForm

SaveReads(e) ==
    /\ editors[e].save # Blank /\ editors[e].save.step = "asked"
    /\ editors' = [editors EXCEPT ![e].save.step = "read", ![e].save.prev = RowOr(profile)]
    /\ OnlyForm

SaveWrites(e) ==
    LET save == editors[e].save IN
    /\ save # Blank /\ save.step = "read" /\ writes < MaxWrites
    /\ profile' = save.values
    /\ writes' = writes + 1
    /\ editors' = [editors EXCEPT ![e].save.step = "written", ![e].asOf = writes + 1]
    /\ shownOnce' = shownOnce \cup PicturesOf(save.values)
    /\ secondHand' = secondHand \cup
         (IF editors[e].asOf = writes THEN {} ELSE PicturesOf(save.values))
    /\ leftBehind' = leftBehind \cup
         (IF save.prev = RowOr(profile) THEN {} ELSE PicturesOf(RowOr(profile)))
    /\ UNCHANGED <<fields, files, made>>

\* a bug to be caught: the pictures of the gallery are not among those kept
HeroKept(values) == {values.hero}

Keep(values) == PicturesOf(values)

Unreferenced(save) == PicturesOf(save.prev) \ Keep(save.values)

\* deleteImage of each, whose failure is ignored; then the form says that it is saved
SaveDeletes(e) ==
    LET save == editors[e].save IN
    /\ save # Blank /\ save.step = "written"
    /\ \E gone \in {Unreferenced(save)} \cup {Unreferenced(save) \ {k} : k \in Unreferenced(save)} :
         /\ files' = files \ gone
         /\ leftBehind' = leftBehind \cup (Unreferenced(save) \ gone)
    /\ editors' = [editors EXCEPT ![e].save = Blank]
    /\ UNCHANGED <<fields, made, profile, writes, shownOnce, secondHand>>

\* refused, or the call is lost before the row is written
SaveFails(e) ==
    /\ editors[e].save # Blank /\ editors[e].save.step # "written"
    /\ editors' = [editors EXCEPT ![e].save = Blank]
    /\ OnlyForm

HomepageNext ==
    \E e \in Editors :
      \/ Load(e) \/ PickHero(e) \/ HeroArrives(e) \/ UploadFails(e) \/ RemoveHero(e)
      \/ PickGallery(e) \/ NextOfBatch(e) \/ BatchDone(e) \/ RemovePicture(e)
      \/ Submit(e) \/ SaveReads(e) \/ SaveWrites(e) \/ SaveDeletes(e) \/ SaveFails(e)

HomepageSpec == HomepageInit /\ [][HomepageNext]_homeVars

(* A picture on the published page is on the disk, unless it was saved     *)
(* from a form older than the row or had been put back by an upload that   *)
(* began before it was removed; and a picture that was published and is no *)
(* longer is deleted in the end, unless two saves crossed or the deletion  *)
(* failed (saveHomepage: "remember the old keys and delete, after the      *)
(* save, the files no longer referenced").                                 *)
ImagesKept ==
    /\ PicturesOf(RowOr(profile)) \subseteq files \cup secondHand
    /\ \A k \in (shownOnce \cap files) \ PicturesOf(RowOr(profile)) :
         \/ k \in leftBehind
         \/ \E e \in Editors : editors[e].save # Blank /\ editors[e].save.step = "written"
=============================================================================
