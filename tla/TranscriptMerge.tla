--------------------------- MODULE TranscriptMerge ---------------------------
(***************************************************************************)
(* The pure rules by which a surface reconciles what it knows of a         *)
(* conversation: clipping, appending a streamed chunk at an offset,        *)
(* choosing between two copies of an entry, and placing new entries in the *)
(* order.                                                                  *)
(*                                                                         *)
(* A text is the sequence of its character positions, so that the true     *)
(* text of length n is <<1, ..., n>> and any other sequence is a corrupted *)
(* one.  Ellipsis, the mark a clipped preview ends with, is position 0.    *)
(***************************************************************************)
EXTENDS Integers, Sequences, SequencesExt

CONSTANT Cap        \* the length a snapshot clips an entry's text to

ASSUME CapAssumption == Cap \in Nat \ {0}

Ellipsis == 0
Body(n) == [i \in 1 .. n |-> i]

(* An entry's body: its text and whether its content_state is "full". *)
Whole(n) == [text |-> Body(n), full |-> TRUE]
Nothing == [text |-> <<>>, full |-> FALSE]

(* The copy of a long entry that a compacted snapshot carries. *)
Compacted(n) ==
    IF n <= Cap THEN Whole(n)
    ELSE [text |-> Append(Body(Cap - 1), Ellipsis), full |-> FALSE]

(* A streamed chunk: the positions off + 1 .. off + len. *)
Chunk(off, len) == [i \in 1 .. len |-> off + i]

(* What of a chunk is new to a holder of text: refused when there is a gap
   before it or the overlap differs, empty when it is all held already. *)
Refused(text, off, len) ==
    \/ Len(text) < off
    \/ \E i \in 1 .. len : off + i <= Len(text) /\ text[off + i] # off + i

NewPart(text, off, len) ==
    IF Len(text) >= off + len THEN <<>>
    ELSE SubSeq(Chunk(off, len), Len(text) - off + 1, len)

(* Two copies of one entry: a whole body is kept over a preview that is no
   longer than it; otherwise the longer text wins, and the newcomer a tie. *)
SelectText(old, new) ==
    IF \/ old.full /\ ~new.full /\ Len(old.text) >= Len(new.text)
       \/ Len(new.text) < Len(old.text)
    THEN old.text ELSE new.text

MergeEntry(old, new) ==
    [text |-> SelectText(old, new), full |-> old.full \/ new.full]

(* What a snapshot's copy becomes beside the copy on screen. *)
Preserve(visible, new) ==
    IF ~new.full /\ visible.full /\ Len(visible.text) >= Len(new.text)
    THEN [new EXCEPT !.text = visible.text] ELSE new

At(order, x) == CHOOSE k \in DOMAIN order : order[k] = x

(* A snapshot's tail is placed in the order: a new entry goes right after the
   entry before it in the tail, or else right before the first entry after it
   in the tail that is known, or else at the end. *)
PlaceOne(order, tail, i) ==
    LET later == {j \in i + 1 .. Len(tail) : Contains(order, tail[j])}
    IN  IF Contains(order, tail[i]) THEN order
        ELSE IF i > 1 THEN InsertAt(order, At(order, tail[i - 1]) + 1, tail[i])
        ELSE IF later # {} THEN InsertAt(order, At(order, tail[Min(later)]), tail[i])
        ELSE Append(order, tail[i])

PlaceTail(order, tail) ==
    FoldLeft(LAMBDA acc, i : PlaceOne(acc, tail, i), order, Body(Len(tail)))

(* A page's entries take their place in the order as one run: what stood before
   the first of them stays above it, everything else below. *)
PlacePage(order, page) ==
    LET first == SelectInSeq(order, LAMBDA x : Contains(page, x))
        Others(s) == SelectSeq(s, LAMBDA x : ~Contains(page, x))
    IN  Others(SubSeq(order, 1, first - 1)) \o page
            \o Others(SubSeq(order, first + 1, Len(order)))
==============================================================================
