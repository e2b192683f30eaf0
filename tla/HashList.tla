------------------------------ MODULE HashList ------------------------------
(***************************************************************************)
(* HashList (hash-list.h, hash-list-inl.h): a hash table whose elements    *)
(* form one linked list.  The elements of a bucket are consecutive; a      *)
(* bucket points to its last element and to the bucket before it, so the   *)
(* list of buckets runs against the list of elements.  Clear gives the     *)
(* elements to the caller, who still walks them while new ones are         *)
(* inserted, and returns them one by one with Delete.                      *)
(*                                                                         *)
(* A hash list is a record; elements and buckets are numbered from 1.      *)
(***************************************************************************)
EXTENDS Integers, Sequences, SequencesExt, FiniteSets

CONSTANT BlockSize      \* elements in a block of allocated memory

Null == 0               \* NULL, and the bucket -1
Empty == [prev |-> 1, last |-> Null]

New ==
  [head |-> Null, bucketTail |-> Null, size |-> 0, buckets |-> <<>>, freed |-> Null, elems |-> <<>>]

\* What is met from x along next up to Null: one more at each step.
Links(next, x) ==
  LET met[n \in 0 .. Cardinality(DOMAIN next)] ==
        IF n = 0 THEN <<>>
        ELSE LET path == met[n - 1]
                 y    == IF path = <<>> THEN x ELSE next[path[Len(path)]]
             IN  IF y = Null THEN path ELSE Append(path, y)
  IN  met[Cardinality(DOMAIN next)]

\* The elements from e to the end of its list.
Chain(h, e) == Links([x \in DOMAIN h.elems |-> h.elems[x].tail], e)

List(h) == Chain(h, h.head)

\* (mutant) the last bucket alone.
BucketTailOnly(h) == {h.bucketTail}

\* The buckets linked from bucketTail.
ActiveBuckets(h) ==
  LET path == Links([b \in DOMAIN h.buckets |-> h.buckets[b].prev], h.bucketTail)
  IN  {path[i] : i \in DOMAIN path}

\* Asserts that the table is empty; buckets are added, never removed.
MaySetSize(h) == h.head = Null /\ h.bucketTail = Null

SetSize(h, n) ==
  [h EXCEPT !.size = n,
            !.buckets = [b \in 1 .. (IF n > Len(@) THEN n ELSE Len(@)) |->
                           IF b \in DOMAIN @ THEN @[b] ELSE Empty]]

\* The caller owns what was List(h).
Clear(h) ==
  [h EXCEPT !.head = Null, !.bucketTail = Null,
            !.buckets = [b \in DOMAIN @ |->
                           IF b \in ActiveBuckets(h) THEN [@[b] EXCEPT !.last = Null] ELSE @[b]]]

\* (mutant) the element is not linked to the freed ones.
DeleteUnlinked(h, e) == [h EXCEPT !.freed = e]

Delete(h, e) == [h EXCEPT !.elems[e].tail = h.freed, !.freed = e]

Bucket(h, key) == (key % h.size) + 1

\* The element with the key in its bucket, from the end of the bucket before.
Find(h, key) ==
  LET bucket == h.buckets[Bucket(h, key)]
      first  == IF bucket.prev = Null THEN h.head ELSE h.elems[h.buckets[bucket.prev].last].tail
      tail   == h.elems[bucket.last].tail
      items  == Chain(h, first)
      i      == SelectInSeq(items, LAMBDA e : e = tail \/ h.elems[e].key = key)
  IN  IF bucket.last = Null \/ i = 0 \/ items[i] = tail THEN Null ELSE items[i]

\* A block is added when no freed element is left, its elements linked in order.
Reserve(h) ==
  LET n == Len(h.elems)
      block == [i \in 1 .. BlockSize |->
                  [key |-> 0, val |-> Null, tail |-> IF i = BlockSize THEN Null ELSE n + i + 1]]
  IN  IF h.freed # Null THEN h ELSE [h EXCEPT !.elems = @ \o block, !.freed = n + 1]

\* (mutant) the last element of the bucket stays.
KeptLast(bucket, e) == bucket

\* An element that joins a bucket is its last one.
Joined(bucket, e) == [bucket EXCEPT !.last = e]

Insert(h, key, val) ==
  LET r      == Reserve(h)
      e      == r.freed
      b      == Bucket(h, key)
      last   == h.buckets[b].last
      before == IF last # Null THEN last
                ELSE IF h.bucketTail # Null THEN h.buckets[h.bucketTail].last ELSE Null
      tail   == IF last # Null THEN r.elems[last].tail ELSE Null
      taken  == [r EXCEPT !.freed = r.elems[e].tail, !.elems[e] = [key |-> key, val |-> val, tail |-> tail]]
      linked == IF before = Null THEN [taken EXCEPT !.head = e] ELSE [taken EXCEPT !.elems[before].tail = e]
  IN  IF last # Null
        THEN [linked EXCEPT !.buckets[b] = Joined(@, e)]
        ELSE [linked EXCEPT !.buckets[b] = [prev |-> h.bucketTail, last |-> e], !.bucketTail = b]

SetVal(h, e, val) == [h EXCEPT !.elems[e].val = val]
=============================================================================
