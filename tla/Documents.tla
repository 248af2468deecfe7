------------------------------ MODULE Documents ------------------------------
(***************************************************************************)
(* Objects and their JSON documents: serialize and deserialize of Team     *)
(* with its Tarakans, of Stadium with its Tracks and of RaceResult, all in *)
(* src/src/trk.                                                            *)
(*                                                                         *)
(* An object is one of the three; each is a header, which only a team has, *)
(* and a vector of items.  deserialize clears the vector and reads item by *)
(* item, so an item that cannot be read leaves what was read before it.    *)
(***************************************************************************)
EXTENDS Naturals, Sequences

CONSTANTS
    Names,          \* names of teams, of tarakans and in a result
    Tracks,         \* the values of a Track
    Wrong,          \* a part of a document that has a wrong type
    Absent,         \* a part that lacks a key deserialize asks for
    None,           \* no name, or no document
    MaxItems        \* bound: the items of an object or a document

ASSUME MaxItemsAssumption == MaxItems \in Nat

Malformed == {Wrong, Absent}
Classes == {"Team", "Stadium", "RaceResult"}

\* A tarakan is a name and how many strategies it has, all of one kind; in its
\* document they are an array.
JSONTarakan == [ name : Names, strategies : {<<>>, <<"RandomStrategy">>} ]

ASSUME MalformedAssumption ==
    Malformed \cap (Names \cup Tracks \cup JSONTarakan \cup {None}) = {}

\* A position is a string: it has no key to lack.
ItemDocuments(class) ==
    CASE class = "Team"       -> JSONTarakan \cup Malformed
      [] class = "Stadium"    -> Tracks \cup Malformed
      [] class = "RaceResult" -> Names \cup {Wrong}

UpTo(S) == UNION { [1 .. n -> S] : n \in 0 .. MaxItems }

DocumentsOf(class) ==
    [ class : {class},
      name  : IF class = "Team" THEN Names \cup Malformed ELSE {None},
      items : UpTo(ItemDocuments(class)) ]

VARIABLES
    object,     \* the object: class, name and items
    file,       \* the document the caller saved last
    saved,      \* the object it was saved from
    result      \* how the last call ended

vars == <<object, file, saved, result>>

Init ==
    /\ \E class \in Classes, name \in Names :
            object = [ class |-> class, name |-> IF class = "Team" THEN name ELSE None,
                       items |-> <<>> ]
    /\ file = None
    /\ saved = None
    /\ result = "ok"

-----------------------------------------------------------------------------

HasStrategies(o) ==
    o.class = "Team" /\ \E k \in DOMAIN o.items : o.items[k].strategies > 0

\* The array of strategies of a tarakan stays empty.
Document(o) ==
    [ o EXCEPT !.items = [k \in DOMAIN @ |-> IF o.class = "Team"
                                             THEN [name |-> @[k].name, strategies |-> <<>>]
                                             ELSE @[k]] ]

\* Tarakan pushes its strategies to the object j and not to the array in it:
\* push_back of an object throws.
serialize ==
    /\ \/ /\ ~HasStrategies(object)
          /\ file' = Document(object)
          /\ saved' = object
          /\ result' = "ok"
       \/ /\ HasStrategies(object)
          /\ result' = "threw"
          /\ UNCHANGED <<file, saved>>
    /\ UNCHANGED object

\* The items up to the first malformed one.
Readable(doc) ==
    { n \in 0 .. Len(doc.items) : \A k \in 1 .. n : doc.items[k] \notin Malformed }

Item(class, j) ==
    IF class = "Team" THEN [name |-> j.name, strategies |-> Len(j.strategies)] ELSE j

ReadItems(doc) ==
    [ k \in 1 .. CHOOSE n \in Readable(doc) : \A m \in Readable(doc) : m <= n |->
        Item(doc.class, doc.items[k]) ]

\* A type that is wrong throws; a key that is absent fails the assertion of
\* operator[] const.
Outcome(doc) ==
    LET first == Append(doc.items, None)[Len(ReadItems(doc)) + 1]
        part  == IF doc.name \in Malformed THEN doc.name ELSE first
    IN  CASE part = Wrong -> "threw" [] part = Absent -> "aborted" [] OTHER -> "ok"

\* Mutant: the vector is not cleared.
LoadedAppending(o, doc) ==
    IF doc.name \in Malformed THEN o
    ELSE [ o EXCEPT !.name = doc.name, !.items = @ \o ReadItems(doc) ]

\* The object o after deserialize of doc: a name that cannot be read leaves it as
\* it was.
Loaded(o, doc) ==
    IF doc.name \in Malformed THEN o
    ELSE [ o EXCEPT !.name = doc.name, !.items = ReadItems(doc) ]

deserialize(doc) ==
    /\ object' = Loaded(object, doc)
    /\ result' = Outcome(doc)
    /\ UNCHANGED <<file, saved>>

\* The constructor from a document: when it throws there is no new object.
construct(doc) ==
    /\ doc.class # "RaceResult"
    /\ result' = Outcome(doc)
    /\ object' = IF Outcome(doc) = "ok" THEN Loaded([object EXCEPT !.items = <<>>], doc)
                 ELSE object
    /\ UNCHANGED <<file, saved>>

Add(item) ==
    /\ Len(object.items) < MaxItems
    /\ object' = [object EXCEPT !.items = Append(@, item)]
    /\ result' = "ok"
    /\ UNCHANGED <<file, saved>>

addTarakan ==
    /\ object.class = "Team"
    /\ \E name \in Names : Add([name |-> name, strategies |-> 0])

addTrack ==
    /\ object.class = "Stadium"
    /\ \E track \in Tracks : Add(track)

\* A document the caller loads comes from a file of its own or from elsewhere.
load ==
    \E doc \in DocumentsOf(object.class) \cup ({file} \ {None}) :
        deserialize(doc) \/ construct(doc)

\* The failed assertion has ended the process.
Next == result # "aborted" /\ (serialize \/ load \/ addTarakan \/ addTrack)

Spec == Init /\ [][Next]_vars

-----------------------------------------------------------------------------

\* A document the program has saved loads without an error and gives the object
\* it was saved from, whatever the object that loads it went through: other
\* documents, loads that failed half way, items that were added.
SavedLoadsBack ==
    file # None => Outcome(file) = "ok" /\ Loaded(object, file) = saved

=============================================================================
