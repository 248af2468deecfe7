--------------------------- MODULE Documents_proofs ---------------------------
(***************************************************************************)
(* What was saved loads back, for any names, tracks and number of items.   *)
(***************************************************************************)
EXTENDS Documents, WellFoundedInduction, TLAPS

LEMMA LeastNatural ==
    ASSUME NEW S \in SUBSET Nat, S # {}
    PROVE  \E n \in S : \A m \in S : n <= m
<1> DEFINE R == { ss \in Nat \X Nat : ss[1] < ss[2] }
<1>1. IsWellFoundedOn(R, Nat)
  BY NatLessThanWellFounded DEF OpToRel
<1>2. PICK n \in S : \A m \in S : <<m, n>> \notin R
  <2> HIDE DEF R
  <2> QED BY <1>1, WFMin
<1>3. \A m \in S : ~ (m < n)
  BY <1>2
<1> QED BY <1>3

LEMMA GreatestNatural ==
    ASSUME NEW S, NEW n \in Nat, S \subseteq 0 .. n, S # {}
    PROVE  \E k \in S : \A m \in S : m <= k
<1> DEFINE T == { n - k : k \in S }
<1>1. T \in SUBSET Nat /\ T # {}
  <2>1. \A k \in S : n - k \in Nat
    OBVIOUS
  <2>2. \E k \in S : n - k \in T
    OBVIOUS
  <2> QED BY <2>1, <2>2
<1>2. PICK d \in T : \A e \in T : d <= e
  <2> HIDE DEF T
  <2> QED BY <1>1, LeastNatural
<1>3. PICK k \in S : d = n - k
  BY <1>2
<1>4. \A m \in S : m \in 0 .. n /\ n - k <= n - m
  BY <1>2, <1>3
<1> QED BY <1>3, <1>4

-----------------------------------------------------------------------------
(* What is read. *)

ItemOf(class) ==
    CASE class = "Team"       -> [name : Names, strategies : Nat]
      [] class = "Stadium"    -> Tracks
      [] class = "RaceResult" -> Names

NameOf(class) == IF class = "Team" THEN Names ELSE {None}

Object(class) == [ class : {class}, name : NameOf(class), items : Seq(ItemOf(class)) ]

\* A document a caller may load.
Loadable(class) ==
    [ class : {class}, name : NameOf(class) \cup Malformed,
      items : Seq(ItemDocuments(class)) ]

\* An item that is not malformed is read as an item of the class.
LEMMA ItemLemma ==
    ASSUME NEW class \in Classes, NEW j \in ItemDocuments(class), j \notin Malformed
    PROVE  Item(class, j) \in ItemOf(class)
<1>1. CASE class = "Team"
  <2>1. j \in JSONTarakan
    BY <1>1 DEF ItemDocuments
  <2>2. j.name \in Names /\ j.strategies \in {<<>>, <<"RandomStrategy">>}
    BY <2>1 DEF JSONTarakan
  <2>3. Len(<<>>) \in Nat /\ Len(<<"RandomStrategy">>) \in Nat
    OBVIOUS
  <2>4. Len(j.strategies) \in Nat
    BY <2>2, <2>3
  <2>5. Item(class, j) = [name |-> j.name, strategies |-> Len(j.strategies)]
    BY <1>1 DEF Item
  <2> QED BY <1>1, <2>2, <2>4, <2>5 DEF ItemOf
<1>2. CASE class = "Stadium"
  BY <1>2 DEF ItemDocuments, ItemOf, Item, Malformed
<1>3. CASE class = "RaceResult"
  BY <1>3 DEF ItemDocuments, ItemOf, Item, Malformed
<1> QED BY <1>1, <1>2, <1>3 DEF Classes

\* The items that are read are the ones before the first that is malformed.
LEMMA ReadLemma ==
    ASSUME NEW class \in Classes, NEW doc \in Loadable(class)
    PROVE  \E n \in Readable(doc) :
                /\ \A m \in Readable(doc) : m <= n
                /\ ReadItems(doc) = [k \in 1 .. n |-> Item(class, doc.items[k])]
<1>1. doc.class = class /\ doc.items \in Seq(ItemDocuments(class))
  BY DEF Loadable
<1>2. Len(doc.items) \in Nat
  BY <1>1
<1>3. Readable(doc) \subseteq 0 .. Len(doc.items)
  BY DEF Readable
<1>4. 0 \in Readable(doc)
  BY <1>2 DEF Readable
<1>5. \E n \in Readable(doc) : \A m \in Readable(doc) : m <= n
  BY <1>2, <1>3, <1>4, GreatestNatural
<1> DEFINE n == CHOOSE n \in Readable(doc) : \A m \in Readable(doc) : m <= n
<1>6. n \in Readable(doc) /\ \A m \in Readable(doc) : m <= n
  BY <1>5
<1>7. ReadItems(doc) = [k \in 1 .. n |-> Item(class, doc.items[k])]
  BY <1>1 DEF ReadItems
<1> HIDE DEF n
<1> QED BY <1>6, <1>7

LEMMA ReadTypeLemma ==
    ASSUME NEW class \in Classes, NEW doc \in Loadable(class)
    PROVE  ReadItems(doc) \in Seq(ItemOf(class))
<1>1. PICK n \in Readable(doc) : ReadItems(doc) = [k \in 1 .. n |-> Item(class, doc.items[k])]
  BY ReadLemma
<1>2. doc.items \in Seq(ItemDocuments(class)) /\ Len(doc.items) \in Nat
  BY DEF Loadable
<1>3. n \in 0 .. Len(doc.items) /\ \A k \in 1 .. n : doc.items[k] \notin Malformed
  BY DEF Readable
<1>4. n \in Nat /\ \A k \in 1 .. n : doc.items[k] \in ItemDocuments(class)
  BY <1>2, <1>3
<1>5. \A k \in 1 .. n : Item(class, doc.items[k]) \in ItemOf(class)
  BY <1>3, <1>4, ItemLemma
<1> QED BY <1>1, <1>4, <1>5

\* Whatever is loaded, the object stays one of its class.
LEMMA LoadedLemma ==
    ASSUME NEW class \in Classes, NEW o \in Object(class), NEW doc \in Loadable(class)
    PROVE  Loaded(o, doc) \in Object(class)
<1>1. CASE doc.name \in Malformed
  BY <1>1 DEF Loaded
<1>2. CASE doc.name \notin Malformed
  <2>1. Loaded(o, doc) = [o EXCEPT !.name = doc.name, !.items = ReadItems(doc)]
    BY <1>2 DEF Loaded
  <2>2. doc.name \in NameOf(class)
    BY <1>2 DEF Loadable
  <2>3. ReadItems(doc) \in Seq(ItemOf(class))
    BY ReadTypeLemma
  <2> QED BY <2>1, <2>2, <2>3 DEF Object
<1> QED BY <1>1, <1>2

-----------------------------------------------------------------------------
(* What is saved. *)

\* The object is of one class, and the file is the document of the object saved, in
\* which no tarakan has a strategy.
DocumentsInv ==
    \E class \in Classes :
        /\ object \in Object(class)
        /\ file # None =>
            /\ saved \in Object(class)
            /\ ~HasStrategies(saved)
            /\ file = Document(saved)

\* What is read of an item of a document is what was written of it.
LEMMA WrittenItemLemma ==
    ASSUME NEW class \in Classes, NEW o \in Object(class), ~HasStrategies(o),
           NEW k \in DOMAIN o.items
    PROVE  /\ Document(o).items[k] \in ItemDocuments(class) \ Malformed
           /\ Item(class, Document(o).items[k]) = o.items[k]
<1>1. o.class = class /\ o.items[k] \in ItemOf(class)
  BY DEF Object
<1>2. Document(o).items[k] =
        IF class = "Team" THEN [name |-> o.items[k].name, strategies |-> <<>>] ELSE o.items[k]
  BY <1>1 DEF Document, Object
<1>3. CASE class = "Team"
  <2>1. o.items[k] \in [name : Names, strategies : Nat]
    BY <1>1, <1>3 DEF ItemOf
  <2>2. o.items[k].strategies = 0
    BY <1>1, <1>3, <2>1 DEF HasStrategies
  <2>3. Document(o).items[k] = [name |-> o.items[k].name, strategies |-> <<>>]
    BY <1>2, <1>3
  <2>4. Document(o).items[k] \in JSONTarakan
    BY <2>1, <2>3 DEF JSONTarakan
  <2>5. Item(class, Document(o).items[k]) = [name |-> o.items[k].name, strategies |-> 0]
    <3>1. Len(<<>>) = 0
      OBVIOUS
    <3> QED BY <1>3, <2>3, <3>1 DEF Item
  <2> QED BY <1>3, <2>1, <2>2, <2>4, <2>5, MalformedAssumption DEF ItemDocuments
<1>4. CASE class = "Stadium"
  BY <1>1, <1>2, <1>4, MalformedAssumption DEF ItemOf, ItemDocuments, Item
<1>5. CASE class = "RaceResult"
  BY <1>1, <1>2, <1>5, MalformedAssumption DEF ItemOf, ItemDocuments, Item
<1> QED BY <1>3, <1>4, <1>5 DEF Classes

\* The document of an object without strategies is one to load, and all of it is
\* read.
LEMMA WrittenLemma ==
    ASSUME NEW class \in Classes, NEW o \in Object(class), ~HasStrategies(o)
    PROVE  /\ Document(o) \in Loadable(class)
           /\ Document(o).name = o.name /\ o.name \notin Malformed
           /\ ReadItems(Document(o)) = o.items
           /\ Outcome(Document(o)) = "ok"
<1> DEFINE doc == Document(o)
           n == Len(o.items)
<1>1. /\ o.class = class /\ o.name \in NameOf(class)
      /\ o.items \in Seq(ItemOf(class)) /\ n \in Nat /\ DOMAIN o.items = 1 .. n
  BY DEF Object
<1>2. /\ doc = [class |-> class, name |-> o.name, items |-> doc.items]
      /\ doc.items = [k \in 1 .. n |-> doc.items[k]]
  BY <1>1 DEF Document, Object
<1>3. \A k \in 1 .. n : /\ doc.items[k] \in ItemDocuments(class) \ Malformed
                        /\ Item(class, doc.items[k]) = o.items[k]
  BY <1>1, WrittenItemLemma
<1> HIDE DEF doc
<1>4. doc.items \in Seq(ItemDocuments(class)) /\ Len(doc.items) = n
  <2>1. doc.items \in [1 .. n -> ItemDocuments(class)]
    BY <1>2, <1>3
  <2> QED BY <1>1, <2>1
<1>5. doc.name = o.name /\ o.name \notin Malformed /\ doc.class = class
  BY <1>1, <1>2, MalformedAssumption DEF NameOf
<1>6. doc \in Loadable(class)
  BY <1>1, <1>2, <1>4 DEF Loadable
<1>7. PICK r \in Readable(doc) :
            /\ \A m \in Readable(doc) : m <= r
            /\ ReadItems(doc) = [k \in 1 .. r |-> Item(class, doc.items[k])]
  BY <1>6, ReadLemma
<1>8. r = n
  <2>1. n \in Readable(doc) /\ r \in 0 .. n
    BY <1>1, <1>3, <1>4 DEF Readable
  <2> QED BY <1>1, <1>7, <2>1
<1>9. ReadItems(doc) = o.items
  <2>1. ReadItems(doc) = [k \in 1 .. n |-> o.items[k]]
    BY <1>3, <1>7, <1>8
  <2> QED BY <1>1, <2>1
<1>10. Append(doc.items, None)[Len(ReadItems(doc)) + 1] = None
  BY <1>4, <1>1, <1>9
<1>11. Outcome(doc) = "ok"
  BY <1>5, <1>10, MalformedAssumption DEF Outcome, Malformed
<1> QED BY <1>5, <1>6, <1>9, <1>11 DEF doc

LEMMA InitDocumentsInv == Init => DocumentsInv
<1> SUFFICES ASSUME Init PROVE DocumentsInv
  OBVIOUS
<1>1. PICK class \in Classes, name \in Names :
        object = [class |-> class, name |-> IF class = "Team" THEN name ELSE None, items |-> <<>>]
  BY DEF Init
<1>2. <<>> \in Seq(ItemOf(class))
  OBVIOUS
<1>3. object \in Object(class)
  BY <1>1, <1>2 DEF Object, NameOf
<1> QED BY <1>3 DEF Init, DocumentsInv

\* A document the caller loads has the shape of its class, the saved one too.
LEMMA LoadableLemma ==
    ASSUME NEW class \in Classes, object \in Object(class),
           file # None => saved \in Object(class) /\ ~HasStrategies(saved) /\ file = Document(saved),
           NEW doc \in DocumentsOf(object.class) \cup ({file} \ {None})
    PROVE  doc \in Loadable(class)
<1>1. object.class = class
  BY DEF Object
<1>2. CASE doc \in DocumentsOf(class)
  <2>1. PICK n \in 0 .. MaxItems : doc.items \in [1 .. n -> ItemDocuments(class)]
    BY <1>2 DEF DocumentsOf, UpTo
  <2>2. doc.items \in Seq(ItemDocuments(class))
    BY <2>1, MaxItemsAssumption
  <2>3. doc = [class |-> class, name |-> doc.name, items |-> doc.items]
        /\ doc.name \in NameOf(class) \cup Malformed
    BY <1>2 DEF DocumentsOf, NameOf
  <2> QED BY <2>2, <2>3 DEF Loadable
<1>3. CASE file # None /\ doc = file
  BY <1>3, WrittenLemma
<1> QED BY <1>1, <1>2, <1>3

LEMMA NextDocumentsInv == DocumentsInv /\ [Next]_vars => DocumentsInv'
<1> SUFFICES ASSUME DocumentsInv, [Next]_vars PROVE DocumentsInv'
  OBVIOUS
<1>1. PICK class \in Classes :
        /\ object \in Object(class)
        /\ file # None => saved \in Object(class) /\ ~HasStrategies(saved) /\ file = Document(saved)
  BY DEF DocumentsInv
<1>2. object.class = class
  BY <1>1 DEF Object
<1>3. ASSUME object' \in Object(class), UNCHANGED <<file, saved>>
      PROVE  DocumentsInv'
  BY <1>1, <1>3 DEF DocumentsInv
<1>4. CASE serialize
  <2>1. CASE ~HasStrategies(object) /\ file' = Document(object) /\ saved' = object
    BY <1>1, <1>4, <2>1 DEF serialize, DocumentsInv
  <2>2. CASE UNCHANGED <<file, saved>>
    BY <1>1, <1>3, <1>4, <2>2 DEF serialize
  <2> QED BY <1>4, <2>1, <2>2 DEF serialize
<1>5. ASSUME NEW doc \in DocumentsOf(object.class) \cup ({file} \ {None}), deserialize(doc)
      PROVE  DocumentsInv'
  <2>1. doc \in Loadable(class)
    BY <1>1, LoadableLemma
  <2>2. object' \in Object(class)
    BY <1>1, <1>5, <2>1, LoadedLemma DEF deserialize
  <2> QED BY <1>3, <1>5, <2>2 DEF deserialize
<1>6. ASSUME NEW doc \in DocumentsOf(object.class) \cup ({file} \ {None}), construct(doc)
      PROVE  DocumentsInv'
  <2>1. doc \in Loadable(class)
    BY <1>1, LoadableLemma
  <2>2. [object EXCEPT !.items = <<>>] \in Object(class)
    <3>1. <<>> \in Seq(ItemOf(class))
      OBVIOUS
    <3> QED BY <1>1, <3>1 DEF Object
  <2>3. Loaded([object EXCEPT !.items = <<>>], doc) \in Object(class)
    BY <2>1, <2>2, LoadedLemma
  <2>4. object' \in Object(class)
    BY <1>1, <1>6, <2>3 DEF construct
  <2> QED BY <1>3, <1>6, <2>4 DEF construct
<1>7. ASSUME NEW item \in ItemOf(class), Add(item)
      PROVE  DocumentsInv'
  <2>1. object.items \in Seq(ItemOf(class))
    BY <1>1 DEF Object
  <2>2. Append(object.items, item) \in Seq(ItemOf(class))
    BY <2>1
  <2>3. object' \in Object(class)
    BY <1>1, <1>7, <2>2 DEF Add, Object
  <2> QED BY <1>3, <1>7, <2>3 DEF Add
<1>8. CASE addTarakan
  <2>1. PICK name \in Names : Add([name |-> name, strategies |-> 0])
    BY <1>8 DEF addTarakan
  <2>2. class = "Team" /\ 0 \in Nat
    BY <1>2, <1>8 DEF addTarakan
  <2>3. [name |-> name, strategies |-> 0] \in ItemOf(class)
    BY <2>2 DEF ItemOf
  <2> QED BY <1>7, <2>1, <2>3
<1>9. CASE addTrack
  BY <1>2, <1>7, <1>9 DEF addTrack, ItemOf
<1>10. CASE UNCHANGED vars
  BY <1>1, <1>3, <1>10 DEF vars
<1> QED BY <1>4, <1>5, <1>6, <1>8, <1>9, <1>10 DEF Next, load

\* SavedLoadsBack: what the program has saved loads without an error and gives the
\* object it was saved from, into whatever object.
THEOREM SavedIsLoaded == Spec => []SavedLoadsBack
<1>1. DocumentsInv => SavedLoadsBack
  <2> SUFFICES ASSUME DocumentsInv, file # None
               PROVE  Outcome(file) = "ok" /\ Loaded(object, file) = saved
    BY DEF SavedLoadsBack
  <2>1. PICK class \in Classes :
        /\ object \in Object(class)
        /\ saved \in Object(class) /\ ~HasStrategies(saved) /\ file = Document(saved)
    BY DEF DocumentsInv
  <2>2. /\ file.name = saved.name /\ saved.name \notin Malformed
        /\ ReadItems(file) = saved.items /\ Outcome(file) = "ok"
    BY <2>1, WrittenLemma
  <2>3. Loaded(object, file) = [object EXCEPT !.name = saved.name, !.items = saved.items]
    BY <2>2 DEF Loaded
  <2>4. Loaded(object, file) = saved
    BY <2>1, <2>3 DEF Object
  <2> QED BY <2>2, <2>4
<1> QED BY <1>1, InitDocumentsInv, NextDocumentsInv, PTL DEF Spec


=============================================================================
