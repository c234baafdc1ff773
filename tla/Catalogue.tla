------------------------------- MODULE Catalogue -------------------------------
(***************************************************************************)
(* How products are presented: the one feature product of each category,   *)
(* and the files of product images, artwork and condition photos.  The     *)
(* database rows name files that another service stores, and no            *)
(* transaction spans both: a handler uploads before its transaction and    *)
(* deletes after it, or before it for a product image, and may fail or die *)
(* in between.                                                             *)
(***************************************************************************)
EXTENDS Naturals, FiniteSets

CONSTANTS Products, Categories, Files,
          NoCategory,  \* the category of a product from before categories
          Absent,      \* the category of a product that does not exist yet
          None,
          Handlers,    \* handlers of staff requests
          MaxImages    \* MAX_IMAGES_PER_PRODUCT

ASSUME CatalogueAssumption ==
  /\ IsFiniteSet(Files) /\ None \notin Files \union Products
  /\ {NoCategory, Absent} \intersect Categories = {}
  /\ MaxImages \in Nat

\* Artwork columns: one of each product, two of each category.
Columns == {"opening", "thumbnail"}
Owners == Products \union (Categories \X Columns)

VARIABLES category,         \* LegoProduct.categoryId
          featured,         \* products with isFeatureProduct
          imageOf,          \* the product of each file that is a product image
          sortOrder,        \* of each product image
          artwork,          \* the file of each artwork column
          conditionPhotos,  \* files of photos of Used offers
          stored,           \* files the storage provider has
          handler,          \* what each handler has done so far
          leftBehind        \* files whose deletion failed, or whose handler died

featureVars == <<category, featured>>
imageVars == <<imageOf, sortOrder>>
fileVars == <<imageVars, artwork, conditionPhotos, stored, leftBehind>>
catalogueVars == <<featureVars, fileVars, handler>>

Idle == [step |-> "idle", on |-> None, file |-> None, seen |-> None]

CatalogueTypeOK ==
  /\ category \in [Products -> Categories \union {NoCategory, Absent}]
  /\ featured \subseteq Products
  /\ imageOf \in [Files -> Products \union {None}]
  /\ sortOrder \in [Files -> Nat]
  /\ artwork \in [Owners -> Files \union {None}]
  /\ conditionPhotos \subseteq Files /\ stored \subseteq Files /\ leftBehind \subseteq Files
  /\ handler \in [Handlers ->
       [step : {"idle", "selecting", "image", "artwork", "photo", "offering", "discarding",
                "deleting", "removing"},
        on : Owners \union {None}, file : Files \union {None},
        seen : Categories \union {NoCategory, None}]]

\* The two columns of a category may share a file that is older than the thumbnails.
CatalogueInit ==
  /\ category \in [Products -> {NoCategory, Absent}]
  /\ featured = {}
  /\ imageOf = [f \in Files |-> None] /\ sortOrder = [f \in Files |-> 0]
  /\ \E shared \in Files \union {None}, c \in Categories :
       /\ artwork = [o \in Owners |-> IF o \in {c} \X Columns THEN shared ELSE None]
       /\ stored = {shared} \ {None}
  /\ conditionPhotos = {} /\ leftBehind = {}
  /\ handler = [h \in Handlers |-> Idle]

-----------------------------------------------------------------------------
(* Feature selection.  The index allows one feature product per category.  *)

InCatalogue(p) == category[p] # Absent
hasCategoryFeatureProduct(c) == \E p \in featured : category[p] = c
OneFeaturePerCategory(flags, categories) ==
  \A p, q \in flags : categories[p] = categories[q] => p = q

Become(h, step, on, file, seen) ==
  handler' = [handler EXCEPT ![h] = [step |-> step, on |-> on, file |-> file, seen |-> seen]]
Finish(h) == handler' = [handler EXCEPT ![h] = Idle]

BeginSetFeature(h, p) ==
  /\ handler[h].step = "idle"
  /\ category[p] \in Categories
  /\ Become(h, "selecting", p, None, category[p])
  /\ UNCHANGED <<featureVars, fileVars>>

SelectIn(c, p) ==
  /\ featured' = {q \in featured : category[q] # c} \union {p}
  /\ OneFeaturePerCategory(featured', category)

\* Slip: the product is taken to be where it was.
SetWherever(h) ==
  /\ handler[h].step = "selecting"
  /\ SelectIn(handler[h].seen, handler[h].on)
  /\ Finish(h)
  /\ UNCHANGED <<category, fileVars>>

\* Under the category's advisory lock, which a move of the product does not take.
setFeature(h) ==
  /\ handler[h].step = "selecting"
  /\ \/ category[handler[h].on] = handler[h].seen /\ SelectIn(handler[h].seen, handler[h].on)
     \/ category[handler[h].on] # handler[h].seen /\ UNCHANGED featured
  /\ Finish(h)
  /\ UNCHANGED <<category, fileVars>>

createProduct(p, c) ==
  /\ ~InCatalogue(p)
  /\ category' = [category EXCEPT ![p] = c]
  /\ featured' = IF hasCategoryFeatureProduct(c) THEN featured ELSE featured \union {p}
  /\ UNCHANGED <<fileVars, handler>>

\* An edit of the product's category; the index refuses a second feature product.
updateProduct(p, c) ==
  /\ InCatalogue(p)
  /\ category' = [category EXCEPT ![p] = c]
  /\ OneFeaturePerCategory(featured, category')
  /\ UNCHANGED <<featured, fileVars, handler>>

-----------------------------------------------------------------------------
(* Files.                                                                  *)

HoldsFile(h) == handler[h].step \in {"image", "artwork", "photo", "offering", "discarding"}
Named(f) == imageOf[f] # None \/ f \in conditionPhotos \/ \E o \in Owners : artwork[o] = f

\* A publicId holds a fresh UUID: it is one that nobody knows.
Fresh(f) ==
  /\ f \notin stored /\ f \notin leftBehind /\ ~Named(f)
  /\ \A h \in Handlers : handler[h].file # f

Upload(h, step, on, f) ==
  /\ handler[h].step = "idle" /\ Fresh(f)
  /\ stored' = stored \union {f}
  /\ Become(h, step, on, f, None)
  /\ UNCHANGED <<featureVars, imageVars, artwork, conditionPhotos, leftBehind>>

uploadImage(h, p, f) == InCatalogue(p) /\ Upload(h, "image", p, f)
uploadArtwork(h, o, f) == (o \in Products => InCatalogue(o)) /\ Upload(h, "artwork", o, f)
uploadEvidence(h, p, f) == InCatalogue(p) /\ Upload(h, "photo", p, f)

\* The transaction after an upload fails, or refuses what was uploaded.
Compensate(h) ==
  /\ handler[h].step \in {"image", "artwork", "photo", "offering"}
  /\ Become(h, "discarding", None, handler[h].file, None)
  /\ UNCHANGED <<featureVars, fileVars>>

\* A deletion that fails is logged and forgotten.
Discard(h) ==
  /\ handler[h].step = "discarding"
  /\ \/ stored' = stored \ {handler[h].file} /\ UNCHANGED leftBehind
     \/ leftBehind' = leftBehind \union {handler[h].file} /\ UNCHANGED stored
  /\ Finish(h)
  /\ UNCHANGED <<featureVars, imageVars, artwork, conditionPhotos>>

ImagesOf(p) == {f \in Files : imageOf[f] = p}

SaveImage(h) ==
  /\ handler[h].step = "image"
  /\ Cardinality(ImagesOf(handler[h].on)) < MaxImages
  /\ imageOf' = [imageOf EXCEPT ![handler[h].file] = handler[h].on]
  /\ sortOrder' = [sortOrder EXCEPT ![handler[h].file] = Cardinality(ImagesOf(handler[h].on))]
  /\ Finish(h)
  /\ UNCHANGED <<featureVars, artwork, conditionPhotos, stored, leftBehind>>

reorderImages(p) ==
  /\ \E order \in [ImagesOf(p) -> 0..Cardinality(ImagesOf(p)) - 1] :
       /\ \A f, g \in ImagesOf(p) : order[f] = order[g] => f = g
       /\ sortOrder' = [f \in Files |-> IF imageOf[f] = p THEN order[f] ELSE sortOrder[f]]
  /\ UNCHANGED <<featureVars, imageOf, artwork, conditionPhotos, stored, leftBehind, handler>>

BeginDeleteImage(h, f) ==
  /\ handler[h].step = "idle" /\ imageOf[f] # None
  /\ Become(h, "deleting", imageOf[f], f, None)
  /\ UNCHANGED <<featureVars, fileVars>>

\* The file goes first; if it does not go, the request fails.
DeleteImageFile(h) ==
  /\ handler[h].step = "deleting"
  /\ \/ /\ stored' = stored \ {handler[h].file}
        /\ Become(h, "removing", handler[h].on, handler[h].file, None)
     \/ Finish(h) /\ UNCHANGED stored
  /\ UNCHANGED <<featureVars, imageVars, artwork, conditionPhotos, leftBehind>>

Unlink(f) == imageOf' = [imageOf EXCEPT ![f] = None]

\* Slip: the images that remain keep their places.
RemoveWithGap(h) ==
  /\ handler[h].step = "removing"
  /\ Unlink(handler[h].file)
  /\ Finish(h)
  /\ UNCHANGED <<featureVars, sortOrder, artwork, conditionPhotos, stored, leftBehind>>

\* The row goes, unless another request removed it, and the others close ranks.
RemoveImage(h) ==
  /\ handler[h].step = "removing"
  /\ \/ imageOf[handler[h].file] # handler[h].on /\ UNCHANGED imageVars
     \/ /\ imageOf[handler[h].file] = handler[h].on
        /\ Unlink(handler[h].file)
        /\ sortOrder' = [f \in Files |->
             IF f \in ImagesOf(handler[h].on) \ {handler[h].file}
               THEN Cardinality({g \in ImagesOf(handler[h].on) \ {handler[h].file} :
                                   sortOrder[g] < sortOrder[f]})
               ELSE sortOrder[f]]
  /\ Finish(h)
  /\ UNCHANGED <<featureVars, artwork, conditionPhotos, stored, leftBehind>>

\* Slip: the other column of the category is not asked.
UsedByNobody(o) == FALSE

stillUsedBySibling(o) ==
  \E c \in Categories, a, b \in Columns :
    o = <<c, a>> /\ a # b /\ artwork[<<c, a>>] = artwork[<<c, b>>]

\* Under the lock of the owner's row; the file it named is deleted after the commit.
Replace(h, o, file) ==
  /\ artwork' = [artwork EXCEPT ![o] = file]
  /\ IF artwork[o] = None \/ stillUsedBySibling(o)
       THEN Finish(h)
       ELSE Become(h, "discarding", None, artwork[o], None)
  /\ UNCHANGED <<featureVars, imageVars, conditionPhotos, stored, leftBehind>>

setArtwork(h) == handler[h].step = "artwork" /\ Replace(h, handler[h].on, handler[h].file)
removeArtwork(h, o) == handler[h].step = "idle" /\ artwork[o] # None /\ Replace(h, o, None)

\* The creation of a Used offer reads the category before it waits for its lock.
BeginUsedOffer(h) ==
  /\ handler[h].step = "photo"
  /\ Become(h, "offering", handler[h].on, handler[h].file, category[handler[h].on])
  /\ UNCHANGED <<featureVars, fileVars>>

createPhysicalUsedOffer(h) ==
  /\ handler[h].step = "offering"
  /\ featured' = IF handler[h].seen = NoCategory \/ hasCategoryFeatureProduct(handler[h].seen)
                   THEN featured ELSE featured \union {handler[h].on}
  /\ OneFeaturePerCategory(featured', category)
  /\ conditionPhotos' = conditionPhotos \union {handler[h].file}
  /\ Finish(h)
  /\ UNCHANGED <<category, imageVars, artwork, stored, leftBehind>>

\* The process dies with the request, or the transaction of a deletion fails.
Die(h) ==
  /\ handler[h].step # "idle"
  /\ leftBehind' = IF HoldsFile(h) THEN leftBehind \union {handler[h].file} ELSE leftBehind
  /\ Finish(h)
  /\ UNCHANGED <<featureVars, imageVars, artwork, conditionPhotos, stored>>

FeatureNext(h) ==
  \/ \E p \in Products : BeginSetFeature(h, p)
  \/ setFeature(h)

FileNext(h) ==
  \/ \E p \in Products, f \in Files : uploadImage(h, p, f) \/ uploadEvidence(h, p, f)
  \/ \E o \in Owners, f \in Files : uploadArtwork(h, o, f)
  \/ \E f \in Files : BeginDeleteImage(h, f)
  \/ SaveImage(h) \/ DeleteImageFile(h) \/ RemoveImage(h)
  \/ setArtwork(h)
  \/ \E o \in Owners : removeArtwork(h, o)
  \/ BeginUsedOffer(h) \/ createPhysicalUsedOffer(h)
  \/ Compensate(h) \/ Discard(h)

CatalogueNext ==
  \/ \E p \in Products, c \in Categories : createProduct(p, c) \/ updateProduct(p, c)
  \/ \E p \in Products : reorderImages(p)
  \/ \E h \in Handlers : FeatureNext(h) \/ FileNext(h) \/ Die(h)

CatalogueSpec == CatalogueInit /\ [][CatalogueNext]_catalogueVars

-----------------------------------------------------------------------------
(* Properties.                                                             *)

\* Whatever uploads, deletions and reorderings race, the images of a product are
\* numbered from zero without a gap or a tie, and never more than allowed.
ImagesInOrder ==
  \A p \in Products :
    /\ {sortOrder[f] : f \in ImagesOf(p)} = 0..Cardinality(ImagesOf(p)) - 1
    /\ Cardinality(ImagesOf(p)) <= MaxImages

\* No artwork or photo is shown whose file is gone, and no file is lost: each is
\* named by a row, held by a handler, or left behind by a failure.
FilesAccounted ==
  /\ conditionPhotos \subseteq stored
  /\ \A o \in Owners : artwork[o] \in stored \union {None}
  /\ \A f \in stored :
       Named(f) \/ f \in leftBehind \/ \E h \in Handlers : HoldsFile(h) /\ handler[h].file = f

\* A category keeps its feature product until another of its products is selected
\* or staff move it away: a selection that waited never clears another category.
KeepsFeature ==
  \A p \in featured :
    \/ category'[p] # category[p]
    \/ \E q \in featured' : category'[q] = category[p]
FeatureKept == [][KeepsFeature]_catalogueVars
=============================================================================
