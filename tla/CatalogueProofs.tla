---------------------------- MODULE CatalogueProofs ----------------------------
(***************************************************************************)
(* What holds of features and files for any number of products, files and  *)
(* handlers.  That no file is lost rests on what a handler half way may    *)
(* rely on: the file it holds is stored, no row names it, and no other     *)
(* handler knows it; a file whose image is being deleted shows nothing     *)
(* else; and two artwork columns share a file only within a category.      *)
(* That images stay in order rests on counting: places below the count and *)
(* no two alike leave no gap.                                              *)
(***************************************************************************)
EXTENDS Catalogue, FiniteSetTheorems, TLAPS

USE CatalogueAssumption

-----------------------------------------------------------------------------
(* The inductive invariant.                                                *)

\* What a handler of each stage works on.
Stages == \A h \in Handlers :
  /\ handler[h].step \in {"selecting", "image", "photo", "offering", "deleting", "removing"} =>
       handler[h].on \in Products
  /\ handler[h].step = "photo" => InCatalogue(handler[h].on)
  /\ handler[h].step = "artwork" => handler[h].on \in Owners
  /\ handler[h].step \in {"idle", "selecting"} <=> handler[h].file = None

\* A file that a handler holds is stored, shown nowhere and known to nobody else.
HeldAlone == \A h \in Handlers : HoldsFile(h) =>
  /\ handler[h].file \in stored
  /\ ~Named(handler[h].file)
  /\ \A g \in Handlers \ {h} : handler[g].file # handler[h].file

\* A file whose image is being deleted is no artwork and no photo.
DeletesImages == \A h \in Handlers : handler[h].step \in {"deleting", "removing"} =>
  /\ handler[h].file \notin conditionPhotos
  /\ \A o \in Owners : artwork[o] # handler[h].file
  /\ handler[h].step = "removing" => handler[h].file \notin stored

\* A file is an image, an artwork or a photo, never two of them.
RolesApart == \A f \in Files :
  /\ imageOf[f] # None => f \notin conditionPhotos
  /\ \A o \in Owners : artwork[o] = f => imageOf[f] = None /\ f \notin conditionPhotos

\* Only the columns of one category can share a file.
OfOneCategory(o, p) == \E c \in Categories : o \in {c} \X Columns /\ p \in {c} \X Columns
ArtworkOnce == \A o, p \in Owners :
  artwork[o] = artwork[p] => artwork[o] = None \/ o = p \/ OfOneCategory(o, p)

FilesInv == HeldAlone /\ DeletesImages /\ RolesApart /\ ArtworkOnce /\ FilesAccounted

CatalogueIInv == CatalogueTypeOK /\ Stages /\ FilesInv

-----------------------------------------------------------------------------
(* Type correctness.                                                       *)

\* The number of a product's images is a number.
LEMMA ImagesCounted ==
  ASSUME NEW S \in SUBSET Files
  PROVE  Cardinality(S) \in Nat
BY FS_Subset, FS_CardinalityType, Zenon

\* A handler that moves on is in its new stage, and no other handler moves.
LEMMA BecomeMoves ==
  ASSUME CatalogueTypeOK, NEW h \in Handlers, NEW step, NEW on, NEW file, NEW seen,
         Become(h, step, on, file, seen)
  PROVE  /\ handler'[h].step = step /\ handler'[h].on = on
         /\ handler'[h].file = file /\ handler'[h].seen = seen
         /\ \A g \in Handlers \ {h} : handler'[g] = handler[g]
BY DEF CatalogueTypeOK, Become

\* A handler that ends is idle and holds nothing, and no other handler moves.
LEMMA FinishMoves ==
  ASSUME CatalogueTypeOK, NEW h \in Handlers, Finish(h)
  PROVE  /\ handler'[h].step = "idle" /\ handler'[h].file = None
         /\ \A g \in Handlers \ {h} : handler'[g] = handler[g]
BY DEF CatalogueTypeOK, Finish, Idle

\* Only a creation and a staff edit touch a product's category; every other
\* step adds feature products, or is a selection.
LEMMA FeatureFrame ==
  ASSUME CatalogueTypeOK, [CatalogueNext]_catalogueVars
  PROVE  \/ category' = category /\ featured \subseteq featured'
         \/ \E h \in Handlers : setFeature(h)
         \/ \E p \in Products, c \in Categories : createProduct(p, c) \/ updateProduct(p, c)
BY DEF CatalogueNext, FeatureNext, FileNext, catalogueVars, featureVars, fileVars,
       BeginSetFeature, Upload, uploadImage, uploadEvidence, uploadArtwork, Compensate, Discard,
       SaveImage, reorderImages, BeginDeleteImage, DeleteImageFile, RemoveImage, Replace,
       setArtwork, removeArtwork, BeginUsedOffer, createPhysicalUsedOffer, Die

\* A category that has a feature product keeps one (KeepsFeature).
LEMMA StepKeepsFeature ==
  CatalogueTypeOK /\ [CatalogueNext]_catalogueVars => KeepsFeature
<1> SUFFICES ASSUME CatalogueTypeOK, [CatalogueNext]_catalogueVars, NEW p \in featured,
                    category'[p] = category[p]
             PROVE  \E q \in featured' : category'[q] = category[p]
  BY DEF KeepsFeature
<1>1. CASE category' = category /\ featured \subseteq featured'
  BY <1>1
<1>2. ASSUME NEW h \in Handlers, setFeature(h)
      PROVE  \E q \in featured' : category'[q] = category[p]
  <2>1. CASE featured' = featured
    BY <1>2, <2>1 DEF setFeature
  <2>2. CASE category[handler[h].on] = handler[h].seen /\ SelectIn(handler[h].seen, handler[h].on)
    <3>1. handler[h].on \in featured' /\ category' = category
      BY <1>2, <2>2 DEF setFeature, SelectIn
    <3>2. category[p] # handler[h].seen => p \in featured'
      BY <2>2 DEF SelectIn
    <3> QED BY <2>2, <3>1, <3>2
  <2> QED BY <1>2, <2>1, <2>2 DEF setFeature
<1>3. ASSUME NEW a \in Products, NEW c \in Categories, createProduct(a, c) \/ updateProduct(a, c)
      PROVE  \E q \in featured' : category'[q] = category[p]
  <2>1. featured \subseteq featured'
    BY <1>3 DEF createProduct, updateProduct
  <2> QED BY <2>1
<1> QED BY <1>1, <1>2, <1>3, FeatureFrame

\* Every step keeps the types, given what stage each handler is in.
LEMMA StepKeepsTypes ==
  CatalogueTypeOK /\ Stages /\ [CatalogueNext]_catalogueVars => CatalogueTypeOK'
<1> SUFFICES ASSUME CatalogueTypeOK, Stages, [CatalogueNext]_catalogueVars
             PROVE  CatalogueTypeOK'
  OBVIOUS
<1> USE DEF CatalogueTypeOK, featureVars, imageVars, fileVars, Owners
<1>1. ASSUME NEW p \in Products, NEW c \in Categories, createProduct(p, c) \/ updateProduct(p, c)
      PROVE  CatalogueTypeOK'
  BY <1>1 DEF createProduct, updateProduct
<1>2. ASSUME NEW p \in Products, reorderImages(p)
      PROVE  CatalogueTypeOK'
  <2>1. Cardinality(ImagesOf(p)) \in Nat
    BY ImagesCounted DEF ImagesOf
  <2>2. sortOrder' \in [Files -> Nat]
    BY <1>2, <2>1 DEF reorderImages, ImagesOf
  <2> QED BY <1>2, <2>2 DEF reorderImages
<1>3. ASSUME NEW h \in Handlers, NEW p \in Products, BeginSetFeature(h, p)
      PROVE  CatalogueTypeOK'
  BY <1>3 DEF BeginSetFeature, Become
<1>4. ASSUME NEW h \in Handlers, setFeature(h)
      PROVE  CatalogueTypeOK'
  <2>1. featured' \subseteq Products
    BY <1>4 DEF setFeature, SelectIn, Stages
  <2> QED BY <1>4, <2>1 DEF setFeature, Finish, Idle
<1>5. ASSUME NEW h \in Handlers, NEW f \in Files, NEW o \in Owners,
             NEW step \in {"image", "artwork", "photo"}, Upload(h, step, o, f)
      PROVE  CatalogueTypeOK'
  BY <1>5 DEF Upload, Become
<1>6. ASSUME NEW h \in Handlers, NEW f \in Files, BeginDeleteImage(h, f)
      PROVE  CatalogueTypeOK'
  BY <1>6 DEF BeginDeleteImage, Become
<1>7. ASSUME NEW h \in Handlers, SaveImage(h)
      PROVE  CatalogueTypeOK'
  <2>1. Cardinality(ImagesOf(handler[h].on)) \in Nat
    BY ImagesCounted DEF ImagesOf
  <2>2. handler[h].on \in Products
    BY <1>7 DEF SaveImage, Stages
  <2> QED BY <1>7, <2>1, <2>2 DEF SaveImage, Finish, Idle
<1>8. ASSUME NEW h \in Handlers, DeleteImageFile(h)
      PROVE  CatalogueTypeOK'
  BY <1>8 DEF DeleteImageFile, Become, Finish, Idle
<1>9. ASSUME NEW h \in Handlers, RemoveImage(h)
      PROVE  CatalogueTypeOK'
  <2> DEFINE rest(f) == {g \in ImagesOf(handler[h].on) \ {handler[h].file} : sortOrder[g] < sortOrder[f]}
  <2>1. \A f \in Files : Cardinality(rest(f)) \in Nat
    BY ImagesCounted DEF ImagesOf
  <2> HIDE DEF rest
  <2>2. sortOrder' = sortOrder \/ sortOrder' = [f \in Files |->
          IF f \in ImagesOf(handler[h].on) \ {handler[h].file} THEN Cardinality(rest(f)) ELSE sortOrder[f]]
    BY <1>9 DEF RemoveImage, rest
  <2>3. sortOrder' \in [Files -> Nat]
    BY <2>1, <2>2
  <2> QED BY <1>9, <2>3 DEF RemoveImage, Unlink, Finish, Idle
<1>10. ASSUME NEW h \in Handlers, NEW o \in Owners, NEW file \in Files \union {None}, Replace(h, o, file)
      PROVE  CatalogueTypeOK'
  BY <1>10 DEF Replace, Become, Finish, Idle
<1>11. ASSUME NEW h \in Handlers, BeginUsedOffer(h)
      PROVE  CatalogueTypeOK'
  <2>1. category[handler[h].on] \in Categories \union {NoCategory}
    BY <1>11 DEF BeginUsedOffer, Stages, InCatalogue
  <2> QED BY <1>11, <2>1 DEF BeginUsedOffer, Become
<1>12. ASSUME NEW h \in Handlers, createPhysicalUsedOffer(h)
      PROVE  CatalogueTypeOK'
  BY <1>12 DEF createPhysicalUsedOffer, Finish, Idle, Stages
<1>13. ASSUME NEW h \in Handlers, Compensate(h) \/ Discard(h) \/ Die(h)
      PROVE  CatalogueTypeOK'
  BY <1>13 DEF Compensate, Discard, Die, Become, Finish, Idle, HoldsFile, Stages
<1>14. CASE UNCHANGED catalogueVars
  BY <1>14 DEF catalogueVars
<1>15. ASSUME NEW h \in Handlers, setArtwork(h) PROVE CatalogueTypeOK'
  BY <1>15, <1>10 DEF setArtwork, Stages
<1> QED BY <1>1, <1>2, <1>3, <1>4, <1>5, <1>6, <1>7, <1>8, <1>9, <1>10, <1>11, <1>12, <1>13, <1>14, <1>15
        DEF CatalogueNext, FeatureNext, FileNext, uploadImage, uploadEvidence, uploadArtwork,
            removeArtwork

-----------------------------------------------------------------------------
(* The inductive step.                                                     *)

\* A product that exists goes on existing.
LEMMA ProductsStay ==
  ASSUME CatalogueTypeOK, [CatalogueNext]_catalogueVars, NEW p \in Products, InCatalogue(p)
  PROVE  InCatalogue(p)'
<1> USE DEF CatalogueTypeOK, InCatalogue
<1>1. category' = category => InCatalogue(p)'
  OBVIOUS
<1>2. ASSUME NEW q \in Products, NEW c \in Categories, createProduct(q, c) \/ updateProduct(q, c)
      PROVE  InCatalogue(p)'
  BY <1>2 DEF createProduct, updateProduct
<1>3. ASSUME NEW h \in Handlers, setFeature(h) PROVE category' = category
  BY <1>3 DEF setFeature
<1> QED BY <1>1, <1>2, <1>3, FeatureFrame

\* Each handler's next stage is one it can act from.
LEMMA StepKeepsStages ==
  CatalogueTypeOK /\ Stages /\ [CatalogueNext]_catalogueVars => Stages'
<1> SUFFICES ASSUME CatalogueTypeOK, Stages, [CatalogueNext]_catalogueVars
             PROVE  Stages'
  OBVIOUS
<1>1. \A p \in Products : InCatalogue(p) => InCatalogue(p)'
  BY ProductsStay
<1>2. ASSUME handler' = handler PROVE Stages'
  BY <1>1, <1>2 DEF Stages, InCatalogue
<1>3. ASSUME NEW h \in Handlers, Finish(h) PROVE Stages'
  BY <1>1, <1>3, FinishMoves DEF Stages, InCatalogue
<1>4. ASSUME NEW h \in Handlers, NEW step, NEW on, NEW file, NEW seen,
             Become(h, step, on, file, seen),
             step \in {"selecting", "image", "photo", "offering", "deleting", "removing"} =>
               on \in Products,
             step = "photo" => InCatalogue(on),
             step = "artwork" => on \in Owners,
             step \in {"idle", "selecting"} <=> file = None
      PROVE  Stages'
  BY <1>1, <1>4, BecomeMoves DEF Stages, InCatalogue
<1>5. ASSUME NEW h \in Handlers, FeatureNext(h) PROVE Stages'
  <2>1. ASSUME NEW p \in Products, BeginSetFeature(h, p) PROVE Stages'
    BY <2>1, <1>4 DEF BeginSetFeature
  <2> QED BY <1>3, <1>5, <2>1 DEF FeatureNext, setFeature
<1>6. ASSUME NEW h \in Handlers, FileNext(h) PROVE Stages'
  <2>1. ASSUME NEW p \in Products, NEW f \in Files, uploadImage(h, p, f) PROVE Stages'
    BY <2>1, <1>4 DEF uploadImage, Upload
  <2>2. ASSUME NEW p \in Products, NEW f \in Files, uploadEvidence(h, p, f) PROVE Stages'
    BY <2>2, <1>4 DEF uploadEvidence, Upload
  <2>3. ASSUME NEW o \in Owners, NEW f \in Files, uploadArtwork(h, o, f) PROVE Stages'
    BY <2>3, <1>4 DEF uploadArtwork, Upload
  <2>4. ASSUME NEW f \in Files, BeginDeleteImage(h, f) PROVE Stages'
    <3>1. imageOf[f] \in Products
      BY <2>4 DEF BeginDeleteImage, CatalogueTypeOK
    <3> QED BY <2>4, <3>1, <1>4 DEF BeginDeleteImage
  <2>5. CASE DeleteImageFile(h)
    <3>1. handler[h].on \in Products /\ handler[h].file # None
      BY <2>5 DEF DeleteImageFile, Stages
    <3> QED BY <2>5, <3>1, <1>3, <1>4 DEF DeleteImageFile
  <2>6. ASSUME NEW o \in Owners, NEW file, Replace(h, o, file) PROVE Stages'
    <3>1. CASE Finish(h)
      BY <3>1, <1>3
    <3>2. CASE artwork[o] # None /\ Become(h, "discarding", None, artwork[o], None)
      BY <3>2, <1>4
    <3> QED BY <2>6, <3>1, <3>2 DEF Replace
  <2>7. CASE BeginUsedOffer(h)
    <3>1. handler[h].on \in Products /\ handler[h].file # None
      BY <2>7 DEF BeginUsedOffer, Stages
    <3> QED BY <2>7, <3>1, <1>4 DEF BeginUsedOffer
  <2>8. CASE Compensate(h)
    <3>1. handler[h].file # None
      BY <2>8 DEF Compensate, Stages
    <3> QED BY <2>8, <3>1, <1>4 DEF Compensate
  <2>9. CASE SaveImage(h) \/ RemoveImage(h) \/ createPhysicalUsedOffer(h) \/ Discard(h)
    BY <2>9, <1>3 DEF SaveImage, RemoveImage, createPhysicalUsedOffer, Discard
  <2>10. CASE setArtwork(h)
    BY <2>10, <2>6 DEF setArtwork, Stages
  <2> QED BY <1>6, <2>1, <2>2, <2>3, <2>4, <2>5, <2>6, <2>7, <2>8, <2>9, <2>10
          DEF FileNext, removeArtwork
<1>7. ASSUME NEW h \in Handlers, Die(h) PROVE Stages'
  BY <1>3, <1>7 DEF Die
<1>8. ASSUME NEW p \in Products, NEW c \in Categories, createProduct(p, c) \/ updateProduct(p, c)
      PROVE  Stages'
  BY <1>2, <1>8 DEF createProduct, updateProduct
<1>9. ASSUME NEW p \in Products, reorderImages(p)
      PROVE  Stages'
  BY <1>2, <1>9 DEF reorderImages
<1>10. CASE UNCHANGED catalogueVars
  BY <1>2, <1>10 DEF catalogueVars
<1> QED BY <1>5, <1>6, <1>7, <1>8, <1>9, <1>10 DEF CatalogueNext

\* A deletion takes at most the image it was asked for out of the rows.
LEMMA RemovesOne ==
  ASSUME CatalogueTypeOK, NEW h \in Handlers, RemoveImage(h)
  PROVE  \A f \in Files : imageOf'[f] = imageOf[f] \/ (f = handler[h].file /\ imageOf'[f] = None)
<1>1. imageOf' = imageOf \/ imageOf' = [imageOf EXCEPT ![handler[h].file] = None]
  BY DEF RemoveImage, Unlink, imageVars
<1>2. imageOf \in [Files -> Products \union {None}]
  BY DEF CatalogueTypeOK
<1> QED BY <1>1, <1>2

\* A deletion of an image touches no row, and takes at most its own file out of storage.
LEMMA DeletesOne ==
  ASSUME CatalogueTypeOK, NEW h \in Handlers, DeleteImageFile(h)
  PROVE  /\ UNCHANGED <<imageOf, artwork, conditionPhotos, leftBehind>>
         /\ stored' \subseteq stored
         /\ \A f \in stored : f \in stored' \/ f = handler[h].file
         /\ \A g \in Handlers \ {h} : handler'[g] = handler[g]
         /\ \/ /\ handler'[h].step = "removing" /\ handler'[h].file = handler[h].file
               /\ handler[h].file \notin stored'
            \/ handler'[h].step = "idle" /\ handler'[h].file = None /\ stored' = stored
<1>1. CASE /\ stored' = stored \ {handler[h].file}
           /\ Become(h, "removing", handler[h].on, handler[h].file, None)
  BY <1>1, BecomeMoves DEF DeleteImageFile, imageVars
<1>2. CASE Finish(h) /\ UNCHANGED stored
  BY <1>2, FinishMoves DEF DeleteImageFile, imageVars
<1> QED BY <1>1, <1>2 DEF DeleteImageFile

\* Every step keeps track of every file.
LEMMA StepKeepsFiles ==
  CatalogueIInv /\ [CatalogueNext]_catalogueVars => FilesInv'
<1> SUFFICES ASSUME CatalogueTypeOK, Stages, FilesInv, [CatalogueNext]_catalogueVars
             PROVE  FilesInv'
  BY DEF CatalogueIInv
<1> USE DEF FilesInv, HeldAlone, DeletesImages, RolesApart, ArtworkOnce, FilesAccounted,
            HoldsFile, Named, imageVars, fileVars
\* Steps that concern no file.
<1>1. ASSUME UNCHANGED <<imageOf, artwork, conditionPhotos, stored, leftBehind, handler>>
      PROVE  FilesInv'
  BY <1>1
<1>2. ASSUME NEW h \in Handlers, NEW p \in Products, BeginSetFeature(h, p)
      PROVE  FilesInv'
  <2>1. Become(h, "selecting", p, None, category[p]) /\ handler[h].step = "idle"
    BY <1>2 DEF BeginSetFeature
  <2>2. handler'[h].step = "selecting" /\ handler'[h].file = None
        /\ \A g \in Handlers \ {h} : handler'[g] = handler[g]
    BY <2>1, BecomeMoves
  <2>3. UNCHANGED fileVars
    BY <1>2 DEF BeginSetFeature
  <2> QED BY <2>1, <2>2, <2>3 DEF CatalogueTypeOK, Stages
<1>3. ASSUME NEW h \in Handlers, setFeature(h)
      PROVE  FilesInv'
  BY <1>3, FinishMoves DEF setFeature, CatalogueTypeOK, Stages
<1>4. ASSUME NEW h \in Handlers, NEW f \in Files, NEW on, NEW step \in {"image", "artwork", "photo"},
             Upload(h, step, on, f)
      PROVE  FilesInv'
  BY <1>4, BecomeMoves DEF Upload, Fresh, CatalogueTypeOK
<1>5. ASSUME NEW h \in Handlers, Compensate(h)
      PROVE  FilesInv'
  BY <1>5, BecomeMoves DEF Compensate
<1>6. ASSUME NEW h \in Handlers, BeginUsedOffer(h)
      PROVE  FilesInv'
  BY <1>6, BecomeMoves DEF BeginUsedOffer
<1>7. ASSUME NEW h \in Handlers, Discard(h)
      PROVE  FilesInv'
  BY <1>7, FinishMoves DEF Discard, CatalogueTypeOK, Stages
<1>8. ASSUME NEW h \in Handlers, Die(h)
      PROVE  FilesInv'
  BY <1>8, FinishMoves DEF Die, CatalogueTypeOK, Stages
<1>9. ASSUME NEW h \in Handlers, SaveImage(h)
      PROVE  FilesInv'
  <2>1. HeldAlone'
    BY <1>9, FinishMoves DEF SaveImage, CatalogueTypeOK, Stages
  <2>2. DeletesImages'
    BY <1>9, FinishMoves DEF SaveImage, CatalogueTypeOK, Stages
  <2>3. RolesApart'
    BY <1>9, FinishMoves DEF SaveImage, CatalogueTypeOK, Stages
  <2>4. ArtworkOnce'
    BY <1>9, FinishMoves DEF SaveImage, CatalogueTypeOK, Stages
  <2>5. FilesAccounted'
    <3>1. handler[h].on \in Products /\ handler[h].file \in Files /\ None \notin Products
      BY <1>9 DEF SaveImage, CatalogueTypeOK, Stages
    <3>2. imageOf'[handler[h].file] # None /\ \A f \in Files : imageOf[f] # None => imageOf'[f] # None
      BY <1>9, <3>1 DEF SaveImage, CatalogueTypeOK
    <3>3. UNCHANGED <<artwork, conditionPhotos, stored, leftBehind>>
      BY <1>9 DEF SaveImage
    <3>4. \A g \in Handlers \ {h} : handler'[g] = handler[g]
      BY <1>9, FinishMoves DEF SaveImage
    <3>5. \A f \in stored : Named(f) \/ f = handler[h].file => Named(f)'
      BY <3>2, <3>3 DEF CatalogueTypeOK
    <3>6. ASSUME NEW g \in Handlers, HoldsFile(g)
          PROVE  g = h \/ (HoldsFile(g)' /\ handler'[g].file = handler[g].file)
      BY <3>4, <3>6
    <3> QED BY <3>3, <3>5, <3>6
  <2> QED BY <2>1, <2>2, <2>3, <2>4, <2>5
<1>10. ASSUME NEW h \in Handlers, createPhysicalUsedOffer(h)
      PROVE  FilesInv'
  <2>1. HeldAlone'
    BY <1>10, FinishMoves DEF createPhysicalUsedOffer, CatalogueTypeOK, Stages
  <2>2. DeletesImages'
    BY <1>10, FinishMoves DEF createPhysicalUsedOffer, CatalogueTypeOK, Stages
  <2>3. RolesApart'
    BY <1>10, FinishMoves DEF createPhysicalUsedOffer, CatalogueTypeOK, Stages
  <2>4. ArtworkOnce'
    BY <1>10, FinishMoves DEF createPhysicalUsedOffer, CatalogueTypeOK, Stages
  <2>5. FilesAccounted'
    <3>1. /\ conditionPhotos' = conditionPhotos \union {handler[h].file}
          /\ UNCHANGED <<imageOf, artwork, stored, leftBehind>>
      BY <1>10 DEF createPhysicalUsedOffer
    <3>2. handler[h].file \in stored
      BY <1>10 DEF createPhysicalUsedOffer
    <3>3. \A g \in Handlers \ {h} : handler'[g] = handler[g]
      BY <1>10, FinishMoves DEF createPhysicalUsedOffer
    <3>4. ASSUME NEW f \in stored
          PROVE  Named(f)' \/ f \in leftBehind \/ (\E g \in Handlers : HoldsFile(g) /\ handler[g].file = f)'
      <4>1. CASE Named(f)
        BY <3>1, <4>1
      <4>2. CASE f \in leftBehind
        BY <4>2
      <4>3. ASSUME NEW g \in Handlers, HoldsFile(g), handler[g].file = f
            PROVE  Named(f)' \/ (HoldsFile(g) /\ handler[g].file = f)'
        BY <3>1, <3>3, <4>3
      <4> QED BY <4>1, <4>2, <4>3
    <3>5. conditionPhotos' \subseteq stored' /\ \A o \in Owners : artwork'[o] \in stored' \union {None}
      BY <3>1, <3>2
    <3> QED BY <3>1, <3>4, <3>5
  <2> QED BY <2>1, <2>2, <2>3, <2>4, <2>5
<1>11. ASSUME NEW h \in Handlers, NEW f \in Files, BeginDeleteImage(h, f)
      PROVE  FilesInv'
  BY <1>11, BecomeMoves DEF BeginDeleteImage, CatalogueTypeOK
<1>12. ASSUME NEW h \in Handlers, DeleteImageFile(h)
      PROVE  FilesInv'
  <2>1. handler[h].step = "deleting" /\ handler[h].file \in Files
    BY <1>12 DEF DeleteImageFile, CatalogueTypeOK, Stages
  <2>2. /\ UNCHANGED <<imageOf, artwork, conditionPhotos, leftBehind>>
        /\ stored' \subseteq stored
        /\ \A f \in stored : f \in stored' \/ f = handler[h].file
    BY <1>12, DeletesOne
  <2>3. /\ \A g \in Handlers \ {h} : handler'[g] = handler[g]
        /\ \/ /\ handler'[h].step = "removing" /\ handler'[h].file = handler[h].file
              /\ handler[h].file \notin stored'
           \/ handler'[h].step = "idle" /\ handler'[h].file = None /\ stored' = stored
    BY <1>12, DeletesOne
  <2>4. ASSUME NEW g \in Handlers
        PROVE  /\ HoldsFile(g)' <=> HoldsFile(g)
               /\ HoldsFile(g) => g # h /\ handler'[g] = handler[g]
    BY <2>1, <2>3
  <2>5. HeldAlone'
    <3>1. ASSUME NEW g \in Handlers, HoldsFile(g)
          PROVE  /\ handler[g].file \in stored /\ ~Named(handler[g].file)
                 /\ handler[g].file # handler[h].file /\ handler[g].file # None
      BY <2>1, <2>4, <3>1 DEF CatalogueTypeOK, Stages
    <3>2. ASSUME NEW g \in Handlers, HoldsFile(g), NEW k \in Handlers \ {g}
          PROVE  handler'[k].file # handler[g].file
      BY <2>3, <3>1, <3>2
    <3> QED BY <2>2, <2>4, <3>1, <3>2
  <2>6. DeletesImages'
    BY <2>1, <2>2, <2>3
  <2>7. RolesApart' /\ ArtworkOnce'
    BY <2>2
  <2>8. FilesAccounted'
    <3>1. handler[h].file \notin conditionPhotos /\ \A o \in Owners : artwork[o] # handler[h].file
      BY <2>1
    <3>2. conditionPhotos' \subseteq stored' /\ \A o \in Owners : artwork'[o] \in stored' \union {None}
      BY <2>2, <3>1
    <3> QED BY <2>2, <2>4, <3>2
  <2> QED BY <2>5, <2>6, <2>7, <2>8
<1>13. ASSUME NEW h \in Handlers, RemoveImage(h)
      PROVE  FilesInv'
  <2>1. handler[h].step = "removing" /\ UNCHANGED <<artwork, conditionPhotos, stored, leftBehind>>
    BY <1>13 DEF RemoveImage
  <2>2. handler[h].file \in Files /\ handler[h].file \notin stored
    BY <2>1 DEF CatalogueTypeOK, Stages
  <2>3. \A f \in Files : imageOf'[f] = imageOf[f] \/ (f = handler[h].file /\ imageOf'[f] = None)
    BY <1>13, RemovesOne
  <2>4. /\ handler'[h].step = "idle"
        /\ \A g \in Handlers \ {h} : handler'[g] = handler[g]
    BY <1>13, FinishMoves DEF RemoveImage
  <2>5. HeldAlone'
    <3>1. handler'[h].file = None
      BY <1>13, FinishMoves DEF RemoveImage
    <3>2. ASSUME NEW g \in Handlers, HoldsFile(g)' PROVE g # h /\ handler'[g] = handler[g] /\ HoldsFile(g)
      BY <2>4, <3>2
    <3>3. ASSUME NEW g \in Handlers, HoldsFile(g) PROVE handler[g].file \in Files
      BY <3>3 DEF CatalogueTypeOK, Stages
    <3> QED BY <2>1, <2>3, <2>4, <3>1, <3>2, <3>3
  <2>6. DeletesImages'
    BY <2>1, <2>4
  <2>7. RolesApart'
    BY <2>1, <2>3
  <2>8. ArtworkOnce'
    BY <2>1
  <2>9. FilesAccounted'
    <3>1. ASSUME NEW f \in stored PROVE f \in Files /\ imageOf'[f] = imageOf[f]
      BY <2>2, <2>3 DEF CatalogueTypeOK
    <3>2. ASSUME NEW g \in Handlers, HoldsFile(g) PROVE HoldsFile(g)' /\ handler'[g].file = handler[g].file
      BY <2>1, <2>4, <3>2
    <3> QED BY <2>1, <3>1, <3>2
  <2> QED BY <2>5, <2>6, <2>7, <2>8, <2>9
<1>14. ASSUME NEW h \in Handlers, NEW o \in Owners, NEW file \in Files \union {None},
             Replace(h, o, file),
             \/ file = None /\ handler[h].step = "idle"
             \/ file = handler[h].file /\ handler[h].step = "artwork"
      PROVE  FilesInv'
  <2>1. /\ artwork' = [artwork EXCEPT ![o] = file]
        /\ UNCHANGED <<imageOf, conditionPhotos, stored, leftBehind>>
    BY <1>14 DEF Replace
  <2>2. file # None => ~Named(file) /\ file \in stored /\ \A g \in Handlers \ {h} : handler[g].file # file
    BY <1>14
  <2>3. \A p \in Owners : p # o => artwork'[p] = artwork[p]
    BY <2>1 DEF CatalogueTypeOK
  <2>4. artwork'[o] = file
    BY <2>1 DEF CatalogueTypeOK
  <2>5. ArtworkOnce'
    BY <2>2, <2>3, <2>4 DEF OfOneCategory, CatalogueTypeOK
  <2>6. RolesApart'
    BY <2>1, <2>2, <2>3, <2>4
  <2>7. CASE artwork[o] = None \/ stillUsedBySibling(o)
    <3>1. Finish(h)
      BY <1>14, <2>7 DEF Replace
    <3>2. HeldAlone'
      BY <1>14, <2>1, <2>2, <2>3, <2>4, <3>1, FinishMoves DEF CatalogueTypeOK, Stages
    <3>3. DeletesImages'
      BY <1>14, <2>1, <2>2, <2>3, <2>4, <3>1, FinishMoves DEF CatalogueTypeOK, Stages
    <3>4. artwork[o] # None => \E p \in Owners : p # o /\ artwork[p] = artwork[o]
      <4> SUFFICES ASSUME artwork[o] # None
                   PROVE  \E p \in Owners : p # o /\ artwork[p] = artwork[o]
        OBVIOUS
      <4>1. PICK c \in Categories, a \in Columns, b \in Columns :
              o = <<c, a>> /\ a # b /\ artwork[<<c, a>>] = artwork[<<c, b>>]
        BY <2>7 DEF stillUsedBySibling
      <4>2. <<c, b>> \in Owners /\ <<c, b>> # o
        BY <4>1 DEF Owners
      <4> QED BY <4>1, <4>2
    <3>5. FilesAccounted'
      BY <1>14, <2>1, <2>2, <2>3, <2>4, <3>1, <3>4, FinishMoves DEF CatalogueTypeOK, Stages
    <3> QED BY <2>5, <2>6, <3>2, <3>3, <3>5
  <2>8. CASE artwork[o] # None /\ ~stillUsedBySibling(o)
    <3>1. Become(h, "discarding", None, artwork[o], None)
      BY <1>14, <2>8 DEF Replace
    <3>2. ASSUME NEW p \in Owners, p # o PROVE artwork[p] # artwork[o]
      <4>1. SUFFICES ASSUME artwork[p] = artwork[o] PROVE FALSE
        OBVIOUS
      <4>2. PICK c \in Categories : o \in {c} \X Columns /\ p \in {c} \X Columns
        BY <2>8, <3>2, <4>1 DEF OfOneCategory
      <4>3. PICK a \in Columns, b \in Columns : o = <<c, a>> /\ p = <<c, b>>
        BY <4>2
      <4> QED BY <2>8, <3>2, <4>1, <4>3 DEF stillUsedBySibling
    <3>3. HeldAlone'
      <4>1. /\ handler'[h].step = "discarding" /\ handler'[h].file = artwork[o]
            /\ \A g \in Handlers \ {h} : handler'[g] = handler[g]
        BY <3>1, BecomeMoves
      <4>2. artwork[o] \in Files /\ artwork[o] \in stored
        BY <2>8 DEF CatalogueTypeOK
      <4>3. artwork[o] # file
        BY <2>2, <2>8
      <4>4. ~Named(handler[h].file)'
        <5>1. \A p \in Owners : artwork'[p] # artwork[o]
          BY <2>3, <2>4, <3>2, <4>3
        <5>2. imageOf[artwork[o]] = None /\ artwork[o] \notin conditionPhotos
          BY <4>2
        <5> QED BY <2>1, <4>1, <5>1, <5>2
      <4>5. ASSUME NEW g \in Handlers PROVE handler[g].file # artwork[o]
        BY <2>8, <4>2 DEF CatalogueTypeOK, Stages
      <4>6. ASSUME NEW g \in Handlers \ {h}, HoldsFile(g)
            PROVE  ~Named(handler[g].file)'
        <5>1. handler[g].file # file
          BY <2>2, <4>6 DEF CatalogueTypeOK, Stages
        <5>2. \A p \in Owners : artwork'[p] # handler[g].file
          BY <2>3, <2>4, <4>6, <5>1
        <5>3. imageOf'[handler[g].file] = None /\ handler[g].file \notin conditionPhotos'
          BY <2>1, <4>6
        <5> QED BY <4>1, <5>2, <5>3
      <4> QED BY <2>1, <4>1, <4>2, <4>4, <4>5, <4>6
    <3>4. DeletesImages'
      BY <1>14, <2>1, <2>2, <2>3, <2>4, <3>1, BecomeMoves DEF CatalogueTypeOK, Stages
    <3>5. FilesAccounted'
      BY <1>14, <2>1, <2>2, <2>3, <2>4, <3>1, <3>2, BecomeMoves DEF CatalogueTypeOK, Stages
    <3> QED BY <2>5, <2>6, <3>3, <3>4, <3>5
  <2> QED BY <2>7, <2>8
<1>15. ASSUME NEW h \in Handlers, setArtwork(h) PROVE FilesInv'
  BY <1>14, <1>15 DEF setArtwork, Stages, CatalogueTypeOK
<1>16. ASSUME NEW h \in Handlers, NEW o \in Owners, removeArtwork(h, o) PROVE FilesInv'
  BY <1>14, <1>16 DEF removeArtwork
<1>17. ASSUME NEW p \in Products, NEW c \in Categories, createProduct(p, c) \/ updateProduct(p, c)
       PROVE  FilesInv'
  BY <1>1, <1>17 DEF createProduct, updateProduct
<1>18. ASSUME NEW p \in Products, reorderImages(p) PROVE FilesInv'
  BY <1>1, <1>18 DEF reorderImages
<1>19. CASE UNCHANGED catalogueVars
  BY <1>1, <1>19 DEF catalogueVars
<1> HIDE DEF FilesInv
<1> QED BY <1>2, <1>3, <1>4, <1>5, <1>6, <1>7, <1>8, <1>9, <1>10, <1>11, <1>12, <1>13, <1>15,
           <1>16, <1>17, <1>18, <1>19
        DEF CatalogueNext, FeatureNext, FileNext, uploadImage, uploadEvidence, uploadArtwork

\* An empty catalogue, with at most one file shared by the columns of a category.
LEMMA CatalogueInitIInv == CatalogueInit => CatalogueIInv
<1> SUFFICES ASSUME CatalogueInit PROVE CatalogueIInv
  OBVIOUS
<1> PICK shared \in Files \union {None}, c \in Categories :
      /\ artwork = [o \in Owners |-> IF o \in {c} \X Columns THEN shared ELSE None]
      /\ stored = {shared} \ {None}
  BY DEF CatalogueInit
<1>1. CatalogueTypeOK
  BY DEF CatalogueInit, CatalogueTypeOK, Idle
<1>2. Stages /\ HeldAlone /\ DeletesImages
  BY DEF CatalogueInit, Stages, HeldAlone, DeletesImages, HoldsFile, Idle
<1>3. RolesApart /\ ArtworkOnce
  BY DEF CatalogueInit, RolesApart, ArtworkOnce, OfOneCategory
<1>4. FilesAccounted
  <2>1. ASSUME NEW f \in stored PROVE Named(f)
    <3>1. <<c, "opening">> \in Owners /\ <<c, "opening">> \in {c} \X Columns
      BY DEF Owners, Columns
    <3> QED BY <2>1, <3>1 DEF Named
  <2> QED BY <2>1 DEF CatalogueInit, FilesAccounted
<1> QED BY <1>1, <1>2, <1>3, <1>4 DEF CatalogueIInv, FilesInv

\* The strengthened invariant: types, stages and where every file is, kept by
\* every handler at every cut between storage and database.
THEOREM CatalogueInductive == CatalogueSpec => []CatalogueIInv
<1>1. CatalogueIInv /\ [CatalogueNext]_catalogueVars => CatalogueIInv'
  BY StepKeepsTypes, StepKeepsStages, StepKeepsFiles DEF CatalogueIInv
<1> QED BY <1>1, CatalogueInitIInv, PTL DEF CatalogueSpec

\* Every row and every handler keeps its type (CatalogueTypeOK).
THEOREM CatalogueTypeCorrect == CatalogueSpec => []CatalogueTypeOK
<1>1. CatalogueIInv => CatalogueTypeOK
  BY DEF CatalogueIInv
<1> QED BY <1>1, CatalogueInductive, PTL

\* No artwork or photo loses its file, and no file is lost, whatever uploads,
\* replacements, deletions and failures race (FilesAccounted).
THEOREM FilesAreAccounted == CatalogueSpec => []FilesAccounted
<1>1. CatalogueIInv => FilesAccounted
  BY DEF CatalogueIInv, FilesInv
<1> QED BY <1>1, CatalogueInductive, PTL

\* A category keeps its feature product through selections that waited,
\* creations and moves (FeatureKept).
THEOREM FeaturesAreKept == CatalogueSpec => FeatureKept
<1>1. CatalogueTypeOK /\ [CatalogueNext]_catalogueVars => [KeepsFeature]_catalogueVars
  BY StepKeepsFeature
<1> QED BY <1>1, CatalogueTypeCorrect, PTL DEF CatalogueSpec, FeatureKept

-----------------------------------------------------------------------------
(* The order of a product's images.  Counting is replaced by what survives *)
(* each step: places are below the number of images and no two are equal.  *)

InPlace(S, order) ==
  \A f \in S : /\ order[f] \in 0..Cardinality(S) - 1
               /\ \A g \in S : order[g] = order[f] => g = f

ImagesPlaced == \A p \in Products :
  InPlace(ImagesOf(p), sortOrder) /\ Cardinality(ImagesOf(p)) <= MaxImages

\* As many different places below n as there are images are all places below n.
LEMMA PlacesFill ==
  ASSUME NEW S \in SUBSET Files, NEW order, InPlace(S, order)
  PROVE  {order[f] : f \in S} = 0..Cardinality(S) - 1
<1> DEFINE T == {order[f] : f \in S}
           n == Cardinality(S)
           place == [f \in S |-> order[f]]
<1>1. IsFiniteSet(S) /\ n \in Nat
  BY FS_Subset, FS_CardinalityType
<1>2. place \in Surjection(S, T) /\ place \in Injection(S, T)
  BY DEF Surjection, Injection, IsInjective, InPlace
<1>3. Cardinality(T) = n
  <2> HIDE DEF T, place
  <2> QED BY <1>1, <1>2, FS_Surjection
<1>4. T \subseteq 0..n - 1
  BY DEF InPlace
<1> HIDE DEF T, n
<1>5. IsFiniteSet(0..n - 1) /\ Cardinality(0..n - 1) = n
  <2>1. 0 \in Int /\ n - 1 \in Int /\ (0 > n - 1 => n = 0)
    BY <1>1
  <2> DEFINE m == n - 1
  <2>2. m \in Int /\ (0 > m => n = 0) /\ m - 0 + 1 = n
    BY <1>1, <2>1
  <2> HIDE DEF m
  <2>3. IsFiniteSet(0..m) /\ Cardinality(0..m) = n
    BY <2>2, FS_Interval
  <2> QED BY <2>3 DEF m
<1>6. T = 0..n - 1
  BY <1>3, <1>4, <1>5, FS_Subset, Zenon
<1> QED BY <1>6 DEF T, n

\* A new image takes the place after the last.
LEMMA PlaceAdded ==
  ASSUME NEW S \in SUBSET Files, NEW order, NEW after, NEW x \in Files \ S, InPlace(S, order),
         after[x] = Cardinality(S), \A f \in S : after[f] = order[f]
  PROVE  InPlace(S \union {x}, after) /\ Cardinality(S \union {x}) = Cardinality(S) + 1
<1>1. IsFiniteSet(S) /\ Cardinality(S) \in Nat
  BY FS_Subset, FS_CardinalityType
<1>2. Cardinality(S \union {x}) = Cardinality(S) + 1
  BY <1>1, FS_AddElement
<1> QED BY <1>1, <1>2 DEF InPlace

\* When an image goes, each other one is placed by how many are before it.
LEMMA PlacesClose ==
  ASSUME NEW S \in SUBSET Files, NEW order, NEW after, NEW x \in S, InPlace(S, order),
         \A f \in S \ {x} : after[f] = Cardinality({g \in S \ {x} : order[g] < order[f]})
  PROVE  InPlace(S \ {x}, after) /\ Cardinality(S \ {x}) <= Cardinality(S)
<1> DEFINE R == S \ {x}
           before(f) == {g \in R : order[g] < order[f]}
<1>1. IsFiniteSet(R) /\ Cardinality(R) \in Nat /\ Cardinality(R) <= Cardinality(S)
  <2>1. R \in SUBSET S /\ R \in SUBSET Files
    OBVIOUS
  <2>2. IsFiniteSet(S)
    BY FS_Subset
  <2> HIDE DEF R
  <2> QED BY <2>1, <2>2, FS_Subset, FS_CardinalityType
<1>2. \A f \in R : order[f] \in Int /\ \A g \in R : order[g] = order[f] => g = f
  BY DEF InPlace
<1>3. \A f \in R : after[f] = Cardinality(before(f))
  OBVIOUS
<1> HIDE DEF R
<1>4. ASSUME NEW f \in R PROVE after[f] \in 0..Cardinality(R) - 1
  <2>1. before(f) \in SUBSET R /\ before(f) # R
    BY <1>2
  <2> DEFINE B == before(f)
  <2> HIDE DEF before
  <2>2. Cardinality(B) \in Nat /\ Cardinality(B) <= Cardinality(R) /\ Cardinality(B) # Cardinality(R)
    BY <1>1, <2>1, FS_Subset, FS_CardinalityType
  <2> QED BY <1>1, <1>3, <2>2
<1>5. ASSUME NEW f \in R, NEW g \in R, order[f] < order[g] PROVE after[f] # after[g]
  <2> DEFINE B == before(f)
             C == before(g)
  <2>1. C \in SUBSET R /\ B \in SUBSET C /\ B # C
    BY <1>2, <1>5
  <2> HIDE DEF B, C
  <2>2. IsFiniteSet(C)
    BY <1>1, <2>1, FS_Subset
  <2>3. Cardinality(B) # Cardinality(C)
    BY <2>1, <2>2, FS_Subset
  <2> QED BY <1>3, <2>3 DEF B, C
<1>6. ASSUME NEW f \in R, NEW g \in R, after[g] = after[f] PROVE g = f
  BY <1>2, <1>5, <1>6
<1> QED BY <1>1, <1>4, <1>6 DEF InPlace, R

LEMMA SamePlaces ==
  ASSUME NEW S, NEW order, NEW after, InPlace(S, order), \A f \in S : after[f] = order[f]
  PROVE  InPlace(S, after)
BY DEF InPlace

\* A product whose images and their places a step leaves alone.
LEMMA OtherProducts ==
  ASSUME ImagesPlaced, NEW p \in Products, ImagesOf(p)' = ImagesOf(p),
         \A f \in ImagesOf(p) : sortOrder'[f] = sortOrder[f]
  PROVE  InPlace(ImagesOf(p)', sortOrder') /\ Cardinality(ImagesOf(p)') <= MaxImages
<1> DEFINE S == ImagesOf(p)
<1>1. InPlace(S, sortOrder) /\ Cardinality(S) <= MaxImages
  BY DEF ImagesPlaced
<1>2. \A f \in S : sortOrder'[f] = sortOrder[f]
  OBVIOUS
<1>3. InPlace(S, sortOrder')
  <2> HIDE DEF S
  <2> QED BY <1>1, <1>2, SamePlaces
<1> QED BY <1>1, <1>3

\* Every step keeps the images in order.  The file a handler is about to save is
\* named by no row (HeldAlone), so it is a new image of its product.
LEMMA StepKeepsPlaces ==
  CatalogueIInv /\ ImagesPlaced /\ [CatalogueNext]_catalogueVars => ImagesPlaced'
<1> SUFFICES ASSUME CatalogueTypeOK, Stages, HeldAlone, ImagesPlaced,
                    [CatalogueNext]_catalogueVars, NEW p \in Products
             PROVE  InPlace(ImagesOf(p)', sortOrder') /\ Cardinality(ImagesOf(p)') <= MaxImages
  BY DEF CatalogueIInv, FilesInv, ImagesPlaced
<1> DEFINE Goal == InPlace(ImagesOf(p)', sortOrder') /\ Cardinality(ImagesOf(p)') <= MaxImages
<1>1. InPlace(ImagesOf(p), sortOrder) /\ Cardinality(ImagesOf(p)) <= MaxImages
  BY DEF ImagesPlaced
<1>2. ImagesOf(p) \in SUBSET Files /\ Cardinality(ImagesOf(p)) \in Nat
  BY FS_Subset, FS_CardinalityType DEF ImagesOf
<1>3. ASSUME UNCHANGED imageVars PROVE Goal
  BY <1>3, OtherProducts DEF imageVars, ImagesOf
<1>4. ASSUME NEW h \in Handlers, SaveImage(h) PROVE Goal
  <2> DEFINE x == handler[h].file
             q == handler[h].on
  <2>1. x \in Files /\ q \in Products /\ imageOf[x] = None
    BY <1>4 DEF SaveImage, CatalogueTypeOK, Stages, HeldAlone, HoldsFile, Named
  <2>2. /\ Cardinality(ImagesOf(q)) < MaxImages
        /\ imageOf' = [imageOf EXCEPT ![x] = q]
        /\ sortOrder' = [sortOrder EXCEPT ![x] = Cardinality(ImagesOf(q))]
    BY <1>4 DEF SaveImage
  <2> HIDE DEF x, q
  <2>3. /\ \A f \in Files \ {x} : imageOf'[f] = imageOf[f] /\ sortOrder'[f] = sortOrder[f]
        /\ imageOf'[x] = q /\ sortOrder'[x] = Cardinality(ImagesOf(q))
    BY <2>1, <2>2 DEF CatalogueTypeOK
  <2>4. x \in Files \ ImagesOf(p)
    BY <2>1 DEF ImagesOf
  <2>5. CASE p = q
    <3>1. ImagesOf(p)' = ImagesOf(p) \union {x}
      BY <2>1, <2>3, <2>5 DEF ImagesOf
    <3>2. sortOrder'[x] = Cardinality(ImagesOf(p)) /\ \A f \in ImagesOf(p) : sortOrder'[f] = sortOrder[f]
      BY <2>3, <2>4, <2>5 DEF ImagesOf
    <3> DEFINE S == ImagesOf(p)
    <3>3. S \in SUBSET Files /\ x \in Files \ S /\ InPlace(S, sortOrder)
      BY <1>1, <1>2, <2>4
    <3>4. sortOrder'[x] = Cardinality(S) /\ \A f \in S : sortOrder'[f] = sortOrder[f]
      BY <3>2
    <3>5. InPlace(S \union {x}, sortOrder') /\ Cardinality(S \union {x}) = Cardinality(S) + 1
      <4> HIDE DEF S
      <4> QED BY <3>3, <3>4, PlaceAdded
    <3> QED BY <1>2, <2>2, <2>5, <3>1, <3>5
  <2>6. CASE p # q
    <3>1. ImagesOf(p)' = ImagesOf(p)
      BY <2>1, <2>3, <2>6 DEF ImagesOf
    <3>2. \A f \in ImagesOf(p) : sortOrder'[f] = sortOrder[f]
      BY <2>3, <2>4 DEF ImagesOf
    <3> QED BY <3>1, <3>2, OtherProducts
  <2> QED BY <2>5, <2>6
<1>5. ASSUME NEW h \in Handlers, RemoveImage(h) PROVE Goal
  <2> DEFINE x == handler[h].file
             q == handler[h].on
  <2>1. x \in Files /\ q \in Products
    BY <1>5 DEF RemoveImage, CatalogueTypeOK, Stages
  <2>2. \/ UNCHANGED imageVars
        \/ /\ imageOf[x] = q
           /\ imageOf' = [imageOf EXCEPT ![x] = None]
           /\ sortOrder' = [f \in Files |->
                IF f \in ImagesOf(q) \ {x}
                  THEN Cardinality({g \in ImagesOf(q) \ {x} : sortOrder[g] < sortOrder[f]})
                  ELSE sortOrder[f]]
    BY <1>5 DEF RemoveImage, Unlink
  <2> HIDE DEF x, q
  <2>3. CASE imageOf[x] = q /\ imageOf' = [imageOf EXCEPT ![x] = None] /\ p = q
    <3> DEFINE S == ImagesOf(p)
    <3>1. ImagesOf(p)' = S \ {x} /\ x \in S
      BY <2>1, <2>3 DEF ImagesOf, CatalogueTypeOK
    <3>2. S \in SUBSET Files /\ InPlace(S, sortOrder) /\ Cardinality(S) <= MaxImages /\ Cardinality(S) \in Nat
      BY <1>1, <1>2
    <3>3. CASE \A f \in S \ {x} : sortOrder'[f] = Cardinality({g \in S \ {x} : sortOrder[g] < sortOrder[f]})
      <4>1. InPlace(S \ {x}, sortOrder') /\ Cardinality(S \ {x}) <= Cardinality(S)
        <5> HIDE DEF S
        <5> QED BY <3>1, <3>2, <3>3, PlacesClose
      <4>2. Cardinality(S \ {x}) \in Nat
        BY <3>2, FS_Subset, FS_CardinalityType
      <4> QED BY <3>1, <3>2, <4>1, <4>2
    <3>4. \/ UNCHANGED imageVars
          \/ \A f \in S \ {x} : sortOrder'[f] = Cardinality({g \in S \ {x} : sortOrder[g] < sortOrder[f]})
      <4>1. S = ImagesOf(q) /\ S \in SUBSET Files
        BY <2>3, <3>2
      <4> HIDE DEF S
      <4> QED BY <2>2, <4>1
    <3> QED BY <1>3, <3>3, <3>4
  <2>4. CASE imageOf[x] = q /\ imageOf' = [imageOf EXCEPT ![x] = None] /\ p # q
    <3>1. ImagesOf(p)' = ImagesOf(p) /\ \A f \in ImagesOf(p) : f \in Files /\ f \notin ImagesOf(q)
      BY <2>1, <2>4 DEF ImagesOf, CatalogueTypeOK
    <3>2. \A f \in ImagesOf(p) : sortOrder'[f] = sortOrder[f]
      BY <2>2, <3>1 DEF imageVars
    <3> QED BY <3>1, <3>2, OtherProducts
  <2> QED BY <1>3, <2>2, <2>3, <2>4
<1>6. ASSUME NEW q \in Products, reorderImages(q) PROVE Goal
  <2>1. imageOf' = imageOf
    BY <1>6 DEF reorderImages
  <2>2. ImagesOf(p)' = ImagesOf(p)
    BY <2>1 DEF ImagesOf
  <2>3. PICK order \in [ImagesOf(q) -> 0..Cardinality(ImagesOf(q)) - 1] :
          /\ \A f, g \in ImagesOf(q) : order[f] = order[g] => f = g
          /\ sortOrder' = [f \in Files |-> IF imageOf[f] = q THEN order[f] ELSE sortOrder[f]]
    BY <1>6, Zenon DEF reorderImages
  <2>4. CASE p = q
    <3>1. \A f \in ImagesOf(p) : sortOrder'[f] = order[f]
      BY <2>3, <2>4 DEF ImagesOf
    <3> DEFINE S == ImagesOf(p)
    <3>2. order \in [S -> 0..Cardinality(S) - 1] /\ \A f, g \in S : order[f] = order[g] => f = g
      BY <2>3, <2>4
    <3>3. InPlace(S, sortOrder')
      <4>1. \A f \in S : sortOrder'[f] = order[f]
        BY <3>1
      <4> HIDE DEF S
      <4> QED BY <3>2, <4>1 DEF InPlace
    <3> QED BY <1>1, <2>2, <3>3
  <2>5. CASE p # q
    <3>1. \A f \in ImagesOf(p) : sortOrder'[f] = sortOrder[f]
      BY <2>3, <2>5 DEF ImagesOf
    <3> QED BY <2>2, <3>1, OtherProducts
  <2> QED BY <2>4, <2>5
<1>7. \/ UNCHANGED imageVars
      \/ \E h \in Handlers : SaveImage(h) \/ RemoveImage(h)
      \/ \E q \in Products : reorderImages(q)
  BY DEF CatalogueNext, FeatureNext, FileNext, catalogueVars, fileVars, imageVars,
     BeginSetFeature, setFeature, Upload, uploadImage, uploadEvidence, uploadArtwork, Compensate,
     Discard, BeginDeleteImage, DeleteImageFile, Replace, setArtwork, removeArtwork,
     BeginUsedOffer, createPhysicalUsedOffer, Die, createProduct, updateProduct
<1> HIDE DEF Goal
<1>8. Goal
  BY <1>3, <1>4, <1>5, <1>6, <1>7
<1> QED BY <1>8 DEF Goal

LEMMA PlacesInit == CatalogueInit => ImagesPlaced
<1> SUFFICES ASSUME CatalogueInit, NEW p \in Products
             PROVE  InPlace(ImagesOf(p), sortOrder) /\ Cardinality(ImagesOf(p)) <= MaxImages
  BY DEF ImagesPlaced
<1>1. ImagesOf(p) = {}
  BY DEF ImagesOf, CatalogueInit
<1>2. Cardinality(ImagesOf(p)) = 0
  BY <1>1, FS_EmptySet
<1> QED BY <1>1, <1>2 DEF InPlace

\* Whatever uploads, deletions and reorderings race, a product's images are
\* numbered from zero without a gap or a tie and never too many (ImagesInOrder).
THEOREM ImagesStayInOrder == CatalogueSpec => []ImagesInOrder
<1>1. ImagesPlaced => ImagesInOrder
  <2>1. ASSUME ImagesPlaced, NEW p \in Products
        PROVE  /\ {sortOrder[f] : f \in ImagesOf(p)} = 0..Cardinality(ImagesOf(p)) - 1
               /\ Cardinality(ImagesOf(p)) <= MaxImages
    <3>1. ImagesOf(p) \in SUBSET Files
      BY DEF ImagesOf
    <3> QED BY <2>1, <3>1, PlacesFill DEF ImagesPlaced
  <2> QED BY <2>1 DEF ImagesInOrder
<1> QED BY <1>1, PlacesInit, StepKeepsPlaces, CatalogueInductive, PTL DEF CatalogueSpec
=============================================================================
