----------------------------- MODULE LinkedList -----------------------------
(***************************************************************************)
(* LinkedList.c: the doubly linked lists of Paho's C code, with the        *)
(* element that the last search found in `current'.  An element is named   *)
(* by its content; no content is in a list twice.  Beside the list the     *)
(* sequence it stands for, which is how PahoAsync describes commands,      *)
(* responses and messages.                                                 *)
(***************************************************************************)
EXTENDS Naturals, Sequences, SequencesExt

CONSTANTS
    ListContents,       \* what a list may hold
    NoElement           \* a null pointer

ASSUME NoElementAssumption == NoElement \notin ListContents

VARIABLES
    list,               \* the List: first, last, current, count
    element,            \* the elements that are linked: prev and next
    items               \* the sequence that the operations should make

listVars == <<list, element, items>>

ListZero == [first |-> NoElement, last |-> NoElement, current |-> NoElement, count |-> 0]

ListInit ==
    /\ list = ListZero
    /\ element = <<>>
    /\ items = <<>>

NextOf(e) == element[e].next
PrevOf(e) == element[e].prev

\* The elements with a new one between two others, and without one.
LinkedBetween(new, before, after) ==
    [e \in DOMAIN element \cup {new} |->
        CASE e = new -> [prev |-> before, next |-> after]
          [] e = before -> [element[e] EXCEPT !.next = new]
          [] e = after -> [element[e] EXCEPT !.prev = new]
          [] OTHER -> element[e]]

UnlinkedElement(gone) ==
    [e \in DOMAIN element \ {gone} |->
        CASE e = PrevOf(gone) -> [element[e] EXCEPT !.next = NextOf(gone)]
          [] e = NextOf(gone) -> [element[e] EXCEPT !.prev = PrevOf(gone)]
          [] OTHER -> element[e]]

ListAppend(content) ==
    /\ content \notin DOMAIN element
    /\ list' = [list EXCEPT !.first = IF @ = NoElement THEN content ELSE @,
                            !.last = content,
                            !.count = @ + 1]
    /\ element' = LinkedBetween(content, list.last, NoElement)
    /\ items' = Append(items, content)

\* Where a content is in the sequence.
PositionOf(content) == CHOOSE i \in DOMAIN items : items[i] = content

\* ListInsert before the element `index'.
ListInsert(content, index) ==
    /\ content \notin DOMAIN element
    /\ list' = [list EXCEPT !.first = IF PrevOf(index) = NoElement THEN content ELSE @,
                            !.count = @ + 1]
    /\ element' = LinkedBetween(content, PrevOf(index), index)
    /\ items' = InsertAt(items, PositionOf(index), content)

\* The elements that ListNextElement gives, one after the other, from the
\* front: those in every set that has the first and, with one, the next.
Reached ==
    {e \in DOMAIN element :
        \A S \in SUBSET DOMAIN element :
            {list.first} \cup {NextOf(s) : s \in S} \subseteq S \cup {NoElement} => e \in S}

\* ListFindItem tries `current' first, and else walks from the front.
Finds(content) ==
    IF list.current = content \/ content \in Reached THEN content ELSE NoElement

ListFindItem(content) ==
    /\ list' = [list EXCEPT !.current = IF Finds(content) = NoElement THEN @ ELSE content]
    /\ UNCHANGED <<element, items>>

\* ListUnlink: `current' is put back, or moves on when its element is gone.
ListUnlink(content) ==
    /\ Finds(content) # NoElement
    /\ list' = [first |-> IF PrevOf(content) = NoElement THEN NextOf(content) ELSE list.first,
                last |-> IF NextOf(content) = NoElement THEN PrevOf(content) ELSE list.last,
                current |-> IF list.current = content THEN NextOf(content) ELSE list.current,
                count |-> list.count - 1]
    /\ element' = UnlinkedElement(content)
    /\ items' = RemoveAt(items, PositionOf(content))

ListDetachHead ==
    /\ list.count > 0
    /\ list' = [first |-> NextOf(list.first),
                last |-> IF list.last = list.first THEN NoElement ELSE list.last,
                current |-> IF list.current = list.first THEN NextOf(list.first) ELSE list.current,
                count |-> list.count - 1]
    /\ element' = UnlinkedElement(list.first)
    /\ items' = Tail(items)

\* Mutant: `current' stays at the element that is freed.
ListPopTail_Current ==
    /\ list.count > 0
    /\ list' = [first |-> IF list.first = list.last THEN NoElement ELSE list.first,
                last |-> PrevOf(list.last),
                current |-> list.current,
                count |-> list.count - 1]
    /\ element' = UnlinkedElement(list.last)
    /\ items' = Front(items)

ListPopTail ==
    /\ list.count > 0
    /\ list' = [first |-> IF list.first = list.last THEN NoElement ELSE list.first,
                last |-> PrevOf(list.last),
                current |-> IF list.current = list.last THEN PrevOf(list.last) ELSE list.current,
                count |-> list.count - 1]
    /\ element' = UnlinkedElement(list.last)
    /\ items' = Front(items)

ListEmpty ==
    /\ list' = ListZero
    /\ element' = <<>>
    /\ items' = <<>>

ListNext ==
    \/ \E content \in ListContents : ListAppend(content) \/ ListFindItem(content) \/ ListUnlink(content)
    \/ \E content \in ListContents, index \in DOMAIN element : ListInsert(content, index)
    \/ ListDetachHead
    \/ ListPopTail
    \/ ListEmpty

-----------------------------------------------------------------------------

\* What is at a place of the sequence, if there is such a place.
At(i) == IF i \in DOMAIN items THEN items[i] ELSE NoElement

\* A list is the sequence it stands for, forwards and backwards, whatever was
\* searched for, removed or emptied before; `current', which the next search
\* follows without a check, is never an element that was freed; and a search
\* finds exactly what is in the list.
ListIsSequence ==
    /\ list.current \in DOMAIN element \cup {NoElement}
    /\ DOMAIN element = ToSet(items)
    /\ list.first = At(1)
    /\ list.last = At(Len(items))
    /\ \A i \in DOMAIN items : NextOf(items[i]) = At(i + 1) /\ PrevOf(items[i]) = At(i - 1)
    /\ list.count = Len(items)
    /\ \A content \in ListContents : Finds(content) = content <=> content \in ToSet(items)
=============================================================================
