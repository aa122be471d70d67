-------------------------- MODULE AllocatorLemmas --------------------------
(***************************************************************************)
(* What the operations of the allocator do to a heap, for every arena      *)
(* below 4 GiB, every set of requests and every number of bins.            *)
(*                                                                         *)
(* Every operation does the same thing to the chunks: it replaces those    *)
(* between two borders by at most three, of which only the middle one may  *)
(* be allocated (IsCut).  What that preserves is shown once; of each       *)
(* operation it is then enough to know where it cuts.                      *)
(***************************************************************************)
EXTENDS Allocator, BinLemmas

-----------------------------------------------------------------------------
(* What unregister_free_space and register_free_space do to the free lists *)
(* of a heap: the lists hold the same chunks as before but one, whatever   *)
(* the place of the chunk in its list, and the bit mask follows.           *)

IsHeap(h) ==
  h = [ base |-> h.base, space |-> h.space, mask |-> h.mask,
        first |-> h.first, chunks |-> h.chunks, links |-> h.links ]

bin_of(h, c) == size_to_bin_round_down(h.chunks[c].size)

\* The lists of h hold exactly the chunks of F, each in the list of its size, linked
\* in both directions, and the mask says which lists are not empty.
ListsTyped(h, F) ==
  /\ h.first \in [Bins -> F \cup {NULL}]
  /\ h.links \in [F -> [next_in_list : F \cup {NULL}, prev_in_list : F \cup {NULL}]]

HeadsLinked(h) ==
  \A bin \in Bins :
    h.first[bin] # NULL => /\ bin_of(h, h.first[bin]) = bin
                           /\ h.links[h.first[bin]].prev_in_list = NULL

ForwardLinked(h, F) ==
  \A c \in F :
    h.links[c].next_in_list # NULL =>
      /\ h.links[h.links[c].next_in_list].prev_in_list = c
      /\ bin_of(h, h.links[c].next_in_list) = bin_of(h, c)

BackwardLinked(h, F) ==
  \A c \in F :
    IF h.links[c].prev_in_list = NULL
      THEN h.first[bin_of(h, c)] = c
      ELSE h.links[h.links[c].prev_in_list].next_in_list = c

\* Going back from chunk to chunk comes to an end, so no chunks hang in a circle of
\* their own: of every set of chunks, one has its predecessor elsewhere.
Anchored(h, F) ==
  \A S \in SUBSET F : S # {} => \E c \in S : h.links[c].prev_in_list \notin S

Masked(h) ==
  /\ h.mask \in BitMasks
  /\ Summarised(h.mask)
  /\ Bits(h.mask) = { bin \in Bins : h.first[bin] # NULL }

Listed(h, F) ==
  /\ NULL \notin F
  /\ F \subseteq DOMAIN h.chunks
  /\ \A c \in F : bin_of(h, c) \in Bins
  /\ ListsTyped(h, F)
  /\ HeadsLinked(h)
  /\ ForwardLinked(h, F)
  /\ BackwardLinked(h, F)
  /\ Anchored(h, F)
  /\ Masked(h)

\* Listed speaks of the lists and of the sizes of the chunks in them only.
LEMMA ListedFrame ==
  ASSUME NEW h, NEW F, Listed(h, F), NEW g,
         g.first = h.first, g.links = h.links, g.mask = h.mask,
         F \subseteq DOMAIN g.chunks,
         \A c \in F : g.chunks[c].size = h.chunks[c].size
  PROVE  Listed(g, F)
<1>1. \A c \in F : bin_of(g, c) = bin_of(h, c)
  BY DEF bin_of
<1>2. \A bin \in Bins : h.first[bin] # NULL => h.first[bin] \in F
  BY DEF Listed, ListsTyped
<1>3. \A c \in F : h.links[c].next_in_list # NULL => h.links[c].next_in_list \in F
  BY DEF Listed, ListsTyped
<1>4. HeadsLinked(g)
  BY <1>1, <1>2 DEF Listed, HeadsLinked
<1>5. ForwardLinked(g, F)
  BY <1>1, <1>3 DEF Listed, ForwardLinked
<1>6. BackwardLinked(g, F)
  BY <1>1 DEF Listed, BackwardLinked
<1>7. Anchored(g, F)
  BY DEF Listed, Anchored
<1> QED BY <1>1, <1>4, <1>5, <1>6, <1>7 DEF Listed, ListsTyped, Masked

-----------------------------------------------------------------------------
(* Taking a chunk out of its list.                                         *)

\* Bypassing a chunk closes no circle.
LEMMA AnchoredWithout ==
  ASSUME NEW h, NEW F, Anchored(h, F), NEW chunk \in F, NEW next, NEW g,
         next \in F => h.links[next].prev_in_list = chunk,
         \A c \in F \ {chunk} :
           g.links[c].prev_in_list = IF c = next THEN h.links[chunk].prev_in_list
                                     ELSE h.links[c].prev_in_list
  PROVE  Anchored(g, F \ {chunk})
<1> SUFFICES ASSUME NEW S \in SUBSET (F \ {chunk}), S # {}
             PROVE  \E c \in S : g.links[c].prev_in_list \notin S
  BY DEF Anchored
<1>1. CASE next \notin S
  <2>1. PICK c \in S : h.links[c].prev_in_list \notin S
    BY DEF Anchored
  <2> QED BY <1>1, <2>1
<1>2. CASE next \in S
  <2> DEFINE T == S \cup {chunk}
  <2>1. T \in SUBSET F /\ T # {}
    OBVIOUS
  <2> HIDE DEF T
  <2>2. PICK c \in T : h.links[c].prev_in_list \notin T
    BY <2>1 DEF Anchored
  <2>3. CASE c = chunk
    BY <1>2, <2>2, <2>3 DEF T
  <2>4. CASE c # chunk
    <3>1. c \in S /\ c # next
      BY <1>2, <2>2, <2>4 DEF T
    <3> QED BY <2>2, <3>1 DEF T
  <2> QED BY <2>3, <2>4
<1> QED BY <1>1, <1>2

\* What unregister_free_space_first_chunk writes.
LEMMA UnregisterFirstFields ==
  ASSUME NEW h, IsHeap(h), NEW chunk, NEW bin
  PROVE  LET g    == unregister_free_space_first_chunk(h, chunk, bin)
             next == h.links[chunk].next_in_list
             rest == Without(h.links, chunk)
         IN  /\ IsHeap(g)
             /\ g.base = h.base /\ g.space = h.space /\ g.chunks = h.chunks
             /\ g.first = [h.first EXCEPT ![bin] = next]
             /\ g.mask = IF next = NULL THEN bitmask_unset(h.mask, bitmask_index(bin))
                         ELSE h.mask
             /\ g.links = IF next = NULL THEN rest
                          ELSE [rest EXCEPT ![next].prev_in_list = NULL]
<1> DEFINE next == h.links[chunk].next_in_list
           rest == Without(h.links, chunk)
           m    == IF next = NULL THEN bitmask_unset(h.mask, bitmask_index(bin)) ELSE h.mask
           l    == IF next = NULL THEN rest ELSE [rest EXCEPT ![next].prev_in_list = NULL]
           g    == unregister_free_space_first_chunk(h, chunk, bin)
<1>1. g = [h EXCEPT !.first[bin] = next, !.mask = m, !.links = l]
  BY DEF unregister_free_space_first_chunk
<1> HIDE DEF next, m, l, g
<1>2. /\ IsHeap(g)
      /\ g.base = h.base /\ g.space = h.space /\ g.chunks = h.chunks
      /\ g.first = [h.first EXCEPT ![bin] = next] /\ g.mask = m /\ g.links = l
  BY <1>1 DEF IsHeap
<1> QED BY <1>2 DEF next, m, l, g

\* Unlinking the head of a list leaves the lists of the other chunks.
LEMMA UnregisterFirst ==
  ASSUME NEW h, IsHeap(h), NEW F, Listed(h, F), NEW chunk \in F, NEW bin \in Bins,
         h.first[bin] = chunk
  PROVE  LET g == unregister_free_space_first_chunk(h, chunk, bin)
         IN  /\ IsHeap(g) /\ Listed(g, F \ {chunk})
             /\ g.base = h.base /\ g.space = h.space /\ g.chunks = h.chunks
<1> DEFINE g    == unregister_free_space_first_chunk(h, chunk, bin)
           next == h.links[chunk].next_in_list
           rest == Without(h.links, chunk)
           G    == F \ {chunk}
<1>1. /\ IsHeap(g)
      /\ g.base = h.base /\ g.space = h.space /\ g.chunks = h.chunks
      /\ g.first = [h.first EXCEPT ![bin] = next]
      /\ g.mask = IF next = NULL THEN bitmask_unset(h.mask, bitmask_index(bin)) ELSE h.mask
      /\ g.links = IF next = NULL THEN rest ELSE [rest EXCEPT ![next].prev_in_list = NULL]
  BY UnregisterFirstFields
<1> HIDE DEF g
<1>2. NULL \notin F /\ ListsTyped(h, F) /\ HeadsLinked(h) /\ ForwardLinked(h, F)
      /\ BackwardLinked(h, F) /\ Anchored(h, F) /\ Masked(h) /\ \A c \in F : bin_of(h, c) \in Bins
  BY DEF Listed
<1>3. /\ h.first \in [Bins -> F \cup {NULL}]
      /\ DOMAIN h.links = F
      /\ \A c \in F : /\ h.links[c] \in [next_in_list : F \cup {NULL}, prev_in_list : F \cup {NULL}]
                      /\ h.links[c].next_in_list \in F \cup {NULL}
                      /\ h.links[c].prev_in_list \in F \cup {NULL}
  BY <1>2 DEF ListsTyped
<1>4. bin_of(h, chunk) = bin /\ h.links[chunk].prev_in_list = NULL
  BY <1>2 DEF HeadsLinked
<1>5. next # chunk /\ next \in G \cup {NULL}
  BY <1>2, <1>3, <1>4 DEF ForwardLinked
<1>6. \A c \in G : h.links[c].next_in_list # chunk
  BY <1>2, <1>3, <1>4 DEF ForwardLinked
<1>7. \A c \in G : h.links[c].prev_in_list = chunk => c = next
  BY <1>2, <1>3 DEF BackwardLinked
<1>8. next # NULL => h.links[next].prev_in_list = chunk /\ bin_of(h, next) = bin
  BY <1>2, <1>4 DEF ForwardLinked
<1>9. \A b \in Bins : b # bin => h.first[b] # chunk
  BY <1>2, <1>4 DEF HeadsLinked
<1>10. /\ g.first[bin] = next
       /\ \A b \in Bins \ {bin} : g.first[b] = h.first[b]
  BY <1>1, <1>3
<1>11. /\ DOMAIN g.links = G
       /\ \A c \in G : /\ g.links[c].next_in_list = h.links[c].next_in_list
                       /\ g.links[c].prev_in_list
                            = IF c = next THEN NULL ELSE h.links[c].prev_in_list
                       /\ g.links[c] \in [next_in_list : G \cup {NULL}, prev_in_list : G \cup {NULL}]
  <2>1. DOMAIN rest = G /\ \A c \in G : rest[c] = h.links[c]
    BY <1>3 DEF Without
  <2>2. \A c \in G : h.links[c].next_in_list \in G \cup {NULL}
    BY <1>3, <1>6
  <2>3. \A c \in G : c # next => h.links[c].prev_in_list \in G \cup {NULL}
    BY <1>3, <1>7
  <2>4. CASE next = NULL
    BY <1>1, <1>2, <1>3, <2>1, <2>2, <2>3, <2>4
  <2>5. CASE next # NULL
    BY <1>1, <1>3, <1>5, <2>1, <2>2, <2>3, <2>5, SMTT(30)
  <2> QED BY <2>4, <2>5
<1>12. \A c \in F : bin_of(g, c) = bin_of(h, c)
  BY <1>1 DEF bin_of
<1>13. ListsTyped(g, G)
  <2>1. g.first \in [Bins -> G \cup {NULL}]
    BY <1>1, <1>3, <1>5, <1>9
  <2>2. g.links \in [G -> [next_in_list : G \cup {NULL}, prev_in_list : G \cup {NULL}]]
    <3>1. g.links = [c \in DOMAIN g.links |-> g.links[c]]
      BY <1>1, <1>11 DEF Without
    <3> QED BY <1>11, <3>1
  <2> QED BY <2>1, <2>2 DEF ListsTyped
<1>14. HeadsLinked(g)
  <2> SUFFICES ASSUME NEW b \in Bins, g.first[b] # NULL
               PROVE  bin_of(g, g.first[b]) = b /\ g.links[g.first[b]].prev_in_list = NULL
    BY DEF HeadsLinked
  <2>1. CASE b = bin
    BY <1>5, <1>8, <1>10, <1>11, <1>12, <2>1
  <2>2. CASE b # bin
    <3>1. g.first[b] = h.first[b] /\ h.first[b] \in G
      BY <1>3, <1>9, <1>10, <2>2
    <3> QED BY <1>2, <1>11, <1>12, <3>1 DEF HeadsLinked
  <2> QED BY <2>1, <2>2
<1>15. ForwardLinked(g, G)
  <2> SUFFICES ASSUME NEW c \in G, h.links[c].next_in_list # NULL
               PROVE  /\ g.links[h.links[c].next_in_list].prev_in_list = c
                      /\ bin_of(g, h.links[c].next_in_list) = bin_of(g, c)
    BY <1>11 DEF ForwardLinked
  <2>1. /\ h.links[c].next_in_list \in G
        /\ h.links[h.links[c].next_in_list].prev_in_list = c
        /\ bin_of(h, h.links[c].next_in_list) = bin_of(h, c)
    BY <1>2, <1>3, <1>6 DEF ForwardLinked
  <2>2. h.links[c].next_in_list # next
    BY <1>8, <2>1
  <2> QED BY <1>11, <1>12, <2>1, <2>2
<1>16. BackwardLinked(g, G)
  <2> SUFFICES ASSUME NEW c \in G
               PROVE  IF g.links[c].prev_in_list = NULL
                        THEN g.first[bin_of(g, c)] = c
                        ELSE g.links[g.links[c].prev_in_list].next_in_list = c
    BY DEF BackwardLinked
  <2>1. CASE c = next
    BY <1>2, <1>8, <1>10, <1>11, <1>12, <2>1
  <2>2. CASE c # next /\ h.links[c].prev_in_list = NULL
    <3>1. h.first[bin_of(h, c)] = c /\ bin_of(h, c) \in Bins
      BY <1>2, <2>2 DEF BackwardLinked
    <3>2. bin_of(h, c) # bin
      BY <3>1
    <3> QED BY <1>10, <1>11, <1>12, <2>2, <3>1, <3>2
  <2>3. CASE c # next /\ h.links[c].prev_in_list # NULL
    <3>1. h.links[h.links[c].prev_in_list].next_in_list = c /\ h.links[c].prev_in_list \in G
      BY <1>2, <1>3, <1>7, <2>3 DEF BackwardLinked
    <3> QED BY <1>11, <2>3, <3>1
  <2> QED BY <2>1, <2>2, <2>3
<1>17. Masked(g)
  <2>1. CASE next # NULL
    <3>1. \A b \in Bins : g.first[b] # NULL <=> h.first[b] # NULL
      BY <1>2, <1>10, <2>1
    <3> QED BY <1>1, <1>2, <2>1, <3>1 DEF Masked
  <2>2. CASE next = NULL
    <3>1. /\ g.mask \in BitMasks /\ Summarised(g.mask)
          /\ Bits(g.mask) = Bits(h.mask) \ {bin}
      BY <1>1, <1>2, <2>2, UnsetRemovesBit DEF Masked
    <3>2. { b \in Bins : g.first[b] # NULL } = { b \in Bins : h.first[b] # NULL } \ {bin}
      BY <1>10, <2>2
    <3> QED BY <1>2, <3>1, <3>2 DEF Masked
  <2> QED BY <2>1, <2>2
<1>18. Anchored(g, G)
  <2>1. \A c \in G : g.links[c].prev_in_list
                       = IF c = next THEN h.links[chunk].prev_in_list
                         ELSE h.links[c].prev_in_list
    BY <1>4, <1>11
  <2>2. next \in F => h.links[next].prev_in_list = chunk
    BY <1>2, <1>8
  <2> HIDE DEF next
  <2> QED BY <1>2, <2>1, <2>2, AnchoredWithout
<1>19. Listed(g, G)
  BY <1>1, <1>2, <1>12, <1>13, <1>14, <1>15, <1>16, <1>17, <1>18 DEF Listed
<1> QED BY <1>1, <1>19 DEF g

\* Unlinking a chunk from the middle or the end of its list.
LEMMA UnregisterInner ==
  ASSUME NEW h, IsHeap(h), NEW F, Listed(h, F), NEW chunk \in F, NEW bin \in Bins,
         bin = bin_of(h, chunk), h.first[bin] # chunk
  PROVE  LET g == unregister_free_space(h, chunk, bin)
         IN  /\ IsHeap(g) /\ Listed(g, F \ {chunk})
             /\ g.base = h.base /\ g.space = h.space /\ g.chunks = h.chunks
<1> DEFINE g      == unregister_free_space(h, chunk, bin)
           next   == h.links[chunk].next_in_list
           prev   == h.links[chunk].prev_in_list
           rest   == Without(h.links, chunk)
           joined == [rest EXCEPT ![prev].next_in_list = next]
           l      == IF next = NULL THEN joined ELSE [joined EXCEPT ![next].prev_in_list = prev]
           G      == F \ {chunk}
<1>1. g = [h EXCEPT !.links = l]
  BY DEF unregister_free_space
<1> HIDE DEF g, l
<1>2. /\ IsHeap(g)
      /\ g.base = h.base /\ g.space = h.space /\ g.chunks = h.chunks
      /\ g.first = h.first /\ g.mask = h.mask /\ g.links = l
  BY <1>1 DEF IsHeap
<1>3. NULL \notin F /\ ListsTyped(h, F) /\ HeadsLinked(h) /\ ForwardLinked(h, F)
      /\ BackwardLinked(h, F) /\ Anchored(h, F) /\ Masked(h) /\ \A c \in F : bin_of(h, c) \in Bins
  BY DEF Listed
<1>4. /\ h.first \in [Bins -> F \cup {NULL}]
      /\ DOMAIN h.links = F
      /\ \A c \in F : /\ h.links[c] \in [next_in_list : F \cup {NULL}, prev_in_list : F \cup {NULL}]
                      /\ h.links[c].next_in_list \in F \cup {NULL}
                      /\ h.links[c].prev_in_list \in F \cup {NULL}
  BY <1>3 DEF ListsTyped
<1>5. \A b \in Bins : h.first[b] # chunk
  BY <1>3 DEF HeadsLinked
<1>6. prev \in F /\ h.links[prev].next_in_list = chunk
  BY <1>3, <1>4 DEF BackwardLinked
<1>7. next # NULL => /\ next \in F /\ h.links[next].prev_in_list = chunk
                     /\ bin_of(h, next) = bin
  BY <1>3, <1>4 DEF ForwardLinked
<1>8. bin_of(h, prev) = bin
  BY <1>3, <1>6 DEF ForwardLinked
<1>9. \A c \in F : h.links[c].next_in_list = chunk => c = prev
  BY <1>3, <1>4 DEF ForwardLinked
<1>10. \A c \in F : h.links[c].prev_in_list = chunk => c = next
  BY <1>3, <1>4 DEF BackwardLinked
<1>11. next = chunk <=> prev = chunk
  BY <1>3, <1>6, <1>7
<1>12. /\ DOMAIN l = G
       /\ \A c \in G : /\ l[c].next_in_list = IF c = prev THEN next ELSE h.links[c].next_in_list
                       /\ l[c].prev_in_list = IF c = next THEN prev ELSE h.links[c].prev_in_list
                       /\ l[c] \in [next_in_list : G \cup {NULL}, prev_in_list : G \cup {NULL}]
       /\ l = [c \in DOMAIN l |-> l[c]]
  <2>1. DOMAIN rest = G /\ \A c \in G : rest[c] = h.links[c]
    BY <1>4 DEF Without
  <2>2. /\ DOMAIN joined = G
        /\ \A c \in G : joined[c] = IF c = prev THEN [h.links[c] EXCEPT !.next_in_list = next]
                                    ELSE h.links[c]
    BY <2>1
  <2>3. /\ DOMAIN l = G
        /\ \A c \in G : l[c] = IF c = next THEN [joined[c] EXCEPT !.prev_in_list = prev]
                               ELSE joined[c]
        /\ l = [c \in DOMAIN l |-> l[c]]
    BY <1>3, <2>2, ZenonT(30) DEF l
  <2> HIDE DEF joined
  <2>4. ASSUME NEW c \in G
        PROVE  /\ h.links[c] \in [next_in_list : F \cup {NULL}, prev_in_list : F \cup {NULL}]
               /\ h.links[c].next_in_list = chunk => c = prev
               /\ h.links[c].prev_in_list = chunk => c = next
               /\ c = prev => next \in G \cup {NULL}
               /\ c = next => prev \in G \cup {NULL}
    BY <1>4, <1>6, <1>7, <1>9, <1>10, <1>11
  <2>5. ASSUME NEW c \in G
        PROVE  /\ l[c].next_in_list = IF c = prev THEN next ELSE h.links[c].next_in_list
               /\ l[c].prev_in_list = IF c = next THEN prev ELSE h.links[c].prev_in_list
               /\ l[c] \in [next_in_list : G \cup {NULL}, prev_in_list : G \cup {NULL}]
    <3> HIDE DEF next, prev
    <3>1. joined[c] = IF c = prev THEN [h.links[c] EXCEPT !.next_in_list = next] ELSE h.links[c]
      BY <2>2
    <3>2. l[c] = IF c = next THEN [joined[c] EXCEPT !.prev_in_list = prev] ELSE joined[c]
      BY <2>3
    <3> QED BY <2>4, <3>1, <3>2
  <2> QED BY <2>3, <2>5
<1>13. \A c \in F : bin_of(g, c) = bin_of(h, c)
  BY <1>2 DEF bin_of
<1>14. ListsTyped(g, G)
  <2>1. g.first \in [Bins -> G \cup {NULL}]
    BY <1>2, <1>4, <1>5
  <2>2. g.links \in [G -> [next_in_list : G \cup {NULL}, prev_in_list : G \cup {NULL}]]
    BY <1>2, <1>12
  <2> QED BY <2>1, <2>2 DEF ListsTyped
<1>15. HeadsLinked(g)
  <2> SUFFICES ASSUME NEW b \in Bins, h.first[b] # NULL
               PROVE  /\ bin_of(g, h.first[b]) = b
                      /\ l[h.first[b]].prev_in_list = NULL
    BY <1>2 DEF HeadsLinked
  <2>1. /\ h.first[b] \in G /\ bin_of(h, h.first[b]) = b
        /\ h.links[h.first[b]].prev_in_list = NULL
    BY <1>3, <1>4, <1>5 DEF HeadsLinked
  <2>2. h.first[b] # next
    BY <1>3, <1>7, <2>1
  <2> QED BY <1>12, <1>13, <2>1, <2>2
<1>16. ForwardLinked(g, G)
  <2> SUFFICES ASSUME NEW c \in G, l[c].next_in_list # NULL
               PROVE  /\ l[l[c].next_in_list].prev_in_list = c
                      /\ bin_of(g, l[c].next_in_list) = bin_of(g, c)
    BY <1>2 DEF ForwardLinked
  <2>1. CASE c = prev
    <3>1. l[c].next_in_list = next /\ next \in G
      BY <1>7, <1>11, <1>12, <2>1
    <3> QED BY <1>7, <1>8, <1>12, <1>13, <2>1, <3>1
  <2>2. CASE c # prev
    <3>1. /\ l[c].next_in_list = h.links[c].next_in_list
          /\ h.links[c].next_in_list \in G
          /\ h.links[h.links[c].next_in_list].prev_in_list = c
          /\ bin_of(h, h.links[c].next_in_list) = bin_of(h, c)
      BY <1>3, <1>4, <1>9, <1>12, <2>2 DEF ForwardLinked
    <3>2. h.links[c].next_in_list # next
      BY <1>3, <1>7, <3>1
    <3> QED BY <1>12, <1>13, <3>1, <3>2
  <2> QED BY <2>1, <2>2
<1>17. BackwardLinked(g, G)
  <2> SUFFICES ASSUME NEW c \in G
               PROVE  IF l[c].prev_in_list = NULL
                        THEN h.first[bin_of(g, c)] = c
                        ELSE l[l[c].prev_in_list].next_in_list = c
    BY <1>2 DEF BackwardLinked
  <2>1. CASE c = next
    <3>1. l[c].prev_in_list = prev /\ prev \in G /\ prev # NULL
      BY <1>3, <1>6, <1>11, <1>12, <2>1
    <3> QED BY <1>12, <2>1, <3>1
  <2>2. CASE c # next /\ h.links[c].prev_in_list = NULL
    BY <1>3, <1>12, <1>13, <2>2 DEF BackwardLinked
  <2>3. CASE c # next /\ h.links[c].prev_in_list # NULL
    <3>1. /\ h.links[h.links[c].prev_in_list].next_in_list = c
          /\ h.links[c].prev_in_list \in G
      BY <1>3, <1>4, <1>10, <2>3 DEF BackwardLinked
    <3>2. h.links[c].prev_in_list # prev
      BY <1>6, <3>1
    <3> QED BY <1>12, <2>3, <3>1, <3>2
  <2> QED BY <2>1, <2>2, <2>3
<1>18. Masked(g)
  BY <1>2, <1>3 DEF Masked
<1>19. Anchored(g, G)
  <2>1. \A c \in G : g.links[c].prev_in_list
                       = IF c = next THEN h.links[chunk].prev_in_list
                         ELSE h.links[c].prev_in_list
    BY <1>2, <1>12
  <2>2. next \in F => h.links[next].prev_in_list = chunk
    BY <1>3, <1>7
  <2> HIDE DEF next
  <2> QED BY <1>3, <2>1, <2>2, AnchoredWithout
<1>20. Listed(g, G)
  BY <1>2, <1>3, <1>13, <1>14, <1>15, <1>16, <1>17, <1>18, <1>19 DEF Listed
<1> QED BY <1>2, <1>20 DEF g

\* Taking a free neighbour out of its list, whatever its place in it: unregister finds
\* the right list, because the chunk hangs in the list of its size.
LEMMA Unregister ==
  ASSUME NEW h, IsHeap(h), NEW F, Listed(h, F), NEW chunk \in F
  PROVE  LET g == unregister(h, chunk)
         IN  /\ IsHeap(g) /\ Listed(g, F \ {chunk})
             /\ g.base = h.base /\ g.space = h.space /\ g.chunks = h.chunks
<1> DEFINE bin == bin_of(h, chunk)
<1>1. unregister(h, chunk) = unregister_free_space(h, chunk, bin)
  BY DEF unregister, bin_of
<1>2. bin \in Bins
  BY DEF Listed
<1> HIDE DEF bin
<1>3. CASE h.first[bin] = chunk
  <2>1. unregister_free_space(h, chunk, bin) = unregister_free_space_first_chunk(h, chunk, bin)
    BY <1>3 DEF unregister_free_space
  <2> QED BY <1>1, <1>2, <1>3, <2>1, UnregisterFirst
<1>4. CASE h.first[bin] # chunk
  BY <1>1, <1>2, <1>4, UnregisterInner DEF bin
<1> QED BY <1>3, <1>4

-----------------------------------------------------------------------------
(* Putting a chunk into the list of its size.                              *)

\* register_free_space adds the chunk at the head of its list, and to no other.
Registered(g, h, F, chunk, prev_chunk_size, size) ==
  /\ IsHeap(g) /\ Listed(g, F \cup {chunk})
  /\ g.base = h.base /\ g.space = h.space
  /\ g.chunks = Put(h.chunks, chunk, Chunk(prev_chunk_size, size, FALSE))

LEMMA Register ==
  ASSUME NEW h, IsHeap(h), NEW F, Listed(h, F), NEW chunk, chunk \notin F, chunk # NULL,
         NEW prev_chunk_size, NEW size, size # 0, size_to_bin_round_down(size) \in Bins
  PROVE  Registered(register_free_space(h, chunk, prev_chunk_size, size),
                    h, F, chunk, prev_chunk_size, size)
<1> DEFINE g    == register_free_space(h, chunk, prev_chunk_size, size)
           bin  == size_to_bin_round_down(size)
           next == h.first[bin]
           rest == IF next = NULL THEN h.links
                   ELSE [h.links EXCEPT ![next].prev_in_list = chunk]
           l    == Put(rest, chunk, Link(next, NULL))
           n    == Put(h.chunks, chunk, Chunk(prev_chunk_size, size, FALSE))
           m    == bitmask_set(h.mask, bitmask_index(bin))
           G    == F \cup {chunk}
<1>1. g = [h EXCEPT !.first[bin] = chunk, !.chunks = n, !.links = l, !.mask = m]
  BY DEF register_free_space
<1>2. bin \in Bins
  OBVIOUS
<1>3. /\ n[chunk].size = size /\ DOMAIN n = DOMAIN h.chunks \cup {chunk}
      /\ \A c \in DOMAIN h.chunks : c # chunk => n[c] = h.chunks[c]
  BY DEF Put, Chunk
<1>4. size_to_bin_round_down(n[chunk].size) = bin
  BY <1>3
<1> HIDE DEF g, bin, next, l, n, m
<1>5. /\ IsHeap(g)
      /\ g.base = h.base /\ g.space = h.space /\ g.chunks = n
      /\ g.first = [h.first EXCEPT ![bin] = chunk] /\ g.mask = m /\ g.links = l
  BY <1>1 DEF IsHeap
<1>6. NULL \notin F /\ ListsTyped(h, F) /\ HeadsLinked(h) /\ ForwardLinked(h, F)
      /\ BackwardLinked(h, F) /\ Anchored(h, F) /\ Masked(h) /\ F \subseteq DOMAIN h.chunks
      /\ \A c \in F : bin_of(h, c) \in Bins
  BY DEF Listed
<1>7. /\ h.first \in [Bins -> F \cup {NULL}]
      /\ DOMAIN h.links = F
      /\ \A c \in F : /\ h.links[c] \in [next_in_list : F \cup {NULL}, prev_in_list : F \cup {NULL}]
                      /\ h.links[c].next_in_list \in F \cup {NULL}
                      /\ h.links[c].prev_in_list \in F \cup {NULL}
  BY <1>6 DEF ListsTyped
<1>8. bin_of(g, chunk) = bin
  BY <1>4, <1>5 DEF bin_of
<1>9. \A c \in F : bin_of(g, c) = bin_of(h, c)
  BY <1>3, <1>5, <1>6 DEF bin_of
<1>10. /\ next \in F \cup {NULL}
       /\ next # NULL => bin_of(h, next) = bin /\ h.links[next].prev_in_list = NULL
  BY <1>2, <1>6, <1>7 DEF next, HeadsLinked
<1>11. /\ g.first[bin] = chunk
       /\ \A b \in Bins \ {bin} : g.first[b] = h.first[b]
       /\ g.first \in [Bins -> G \cup {NULL}]
  BY <1>2, <1>5, <1>7
<1>12. /\ DOMAIN l = G
       /\ l[chunk] = Link(next, NULL)
       /\ \A c \in F : l[c] = IF c = next THEN [h.links[c] EXCEPT !.prev_in_list = chunk]
                              ELSE h.links[c]
  BY <1>6, <1>7, <1>10 DEF l, Put
<1>13. l = [c \in DOMAIN l |-> l[c]]
  BY DEF l, Put
<1>14. l[chunk].next_in_list = next /\ l[chunk].prev_in_list = NULL
  BY <1>12 DEF Link
<1>15. \A c \in F : /\ l[c].next_in_list = h.links[c].next_in_list
                    /\ l[c].prev_in_list = IF c = next THEN chunk ELSE h.links[c].prev_in_list
                    /\ l[c] \in [next_in_list : G \cup {NULL}, prev_in_list : G \cup {NULL}]
  BY <1>7, <1>12
<1>16. ListsTyped(g, G)
  <2>1. l[chunk] \in [next_in_list : G \cup {NULL}, prev_in_list : G \cup {NULL}]
    BY <1>10, <1>12 DEF Link
  <2>2. g.links \in [G -> [next_in_list : G \cup {NULL}, prev_in_list : G \cup {NULL}]]
    BY <1>5, <1>12, <1>13, <1>15, <2>1
  <2> QED BY <1>11, <2>2 DEF ListsTyped
<1>17. HeadsLinked(g)
  <2> SUFFICES ASSUME NEW b \in Bins, g.first[b] # NULL
               PROVE  bin_of(g, g.first[b]) = b /\ l[g.first[b]].prev_in_list = NULL
    BY <1>5 DEF HeadsLinked
  <2>1. CASE b = bin
    BY <1>8, <1>11, <1>14, <2>1
  <2>2. CASE b # bin
    <3>1. /\ g.first[b] = h.first[b] /\ h.first[b] \in F
          /\ bin_of(h, h.first[b]) = b /\ h.links[h.first[b]].prev_in_list = NULL
      BY <1>6, <1>7, <1>11, <2>2 DEF HeadsLinked
    <3>2. h.first[b] # next
      BY <1>6, <1>10, <2>2, <3>1
    <3> QED BY <1>9, <1>15, <3>1, <3>2
  <2> QED BY <2>1, <2>2
<1>18. ForwardLinked(g, G)
  <2> SUFFICES ASSUME NEW c \in G, l[c].next_in_list # NULL
               PROVE  /\ l[l[c].next_in_list].prev_in_list = c
                      /\ bin_of(g, l[c].next_in_list) = bin_of(g, c)
    BY <1>5 DEF ForwardLinked
  <2>1. CASE c = chunk
    BY <1>8, <1>9, <1>10, <1>14, <1>15, <2>1
  <2>2. CASE c # chunk
    <3>1. /\ c \in F /\ l[c].next_in_list = h.links[c].next_in_list
          /\ h.links[c].next_in_list \in F
          /\ h.links[h.links[c].next_in_list].prev_in_list = c
          /\ bin_of(h, h.links[c].next_in_list) = bin_of(h, c)
      BY <1>6, <1>7, <1>15, <2>2 DEF ForwardLinked
    <3>2. h.links[c].next_in_list # next
      BY <1>6, <1>10, <3>1
    <3> QED BY <1>9, <1>15, <3>1, <3>2
  <2> QED BY <2>1, <2>2
<1>19. BackwardLinked(g, G)
  <2> SUFFICES ASSUME NEW c \in G
               PROVE  IF l[c].prev_in_list = NULL
                        THEN g.first[bin_of(g, c)] = c
                        ELSE l[l[c].prev_in_list].next_in_list = c
    BY <1>5 DEF BackwardLinked
  <2>1. CASE c = chunk
    BY <1>8, <1>11, <1>14, <2>1
  <2>2. CASE c \in F /\ c = next
    BY <1>14, <1>15, <2>2
  <2>3. CASE c \in F /\ c # next /\ h.links[c].prev_in_list = NULL
    <3>1. h.first[bin_of(h, c)] = c /\ bin_of(h, c) \in Bins
      BY <1>6, <2>3 DEF BackwardLinked
    <3>2. bin_of(h, c) # bin
      BY <2>3, <3>1 DEF next
    <3> QED BY <1>9, <1>11, <1>15, <2>3, <3>1, <3>2
  <2>4. CASE c \in F /\ c # next /\ h.links[c].prev_in_list # NULL
    <3>1. /\ h.links[h.links[c].prev_in_list].next_in_list = c
          /\ h.links[c].prev_in_list \in F
      BY <1>6, <1>7, <2>4 DEF BackwardLinked
    <3> QED BY <1>15, <2>4, <3>1
  <2> QED BY <2>1, <2>2, <2>3, <2>4
<1>20. Masked(g)
  <2>1. g.mask \in BitMasks /\ Summarised(g.mask) /\ Bits(g.mask) = Bits(h.mask) \cup {bin}
    BY <1>2, <1>5, <1>6, SetAddsBit DEF m, Masked
  <2>2. { b \in Bins : g.first[b] # NULL } = { b \in Bins : h.first[b] # NULL } \cup {bin}
    BY <1>2, <1>11
  <2> QED BY <1>6, <2>1, <2>2 DEF Masked
<1>21. G \subseteq DOMAIN g.chunks /\ \A c \in G : bin_of(g, c) \in Bins
  BY <1>2, <1>3, <1>5, <1>6, <1>8, <1>9
<1>22. Anchored(g, G)
  <2> SUFFICES ASSUME NEW S \in SUBSET G, S # {}
               PROVE  \E c \in S : l[c].prev_in_list \notin S
    BY <1>5 DEF Anchored
  <2>1. CASE chunk \in S
    BY <1>6, <1>14, <2>1
  <2>2. CASE chunk \notin S
    <3>1. PICK c \in S : h.links[c].prev_in_list \notin S
      BY <1>6, <2>2 DEF Anchored
    <3> QED BY <1>15, <2>2, <3>1
  <2> QED BY <2>1, <2>2
<1>23. Listed(g, G)
  BY <1>6, <1>16, <1>17, <1>18, <1>19, <1>20, <1>21, <1>22 DEF Listed
<1> QED BY <1>5, <1>23 DEF g, n, Registered

\* The same for any size: nothing is registered when there is no space.
RegisteredIfAny(g, h, F, chunk, prev_chunk_size, size) ==
  /\ IsHeap(g) /\ Listed(g, F \cup { c \in {chunk} : size # 0 })
  /\ g.base = h.base /\ g.space = h.space
  /\ DOMAIN g.chunks = DOMAIN h.chunks \cup { c \in {chunk} : size # 0 }
  /\ \A c \in DOMAIN h.chunks : c # chunk \/ size = 0 => g.chunks[c] = h.chunks[c]
  /\ size # 0 => g.chunks[chunk] = Chunk(prev_chunk_size, size, FALSE)

LEMMA RegisterIfAny ==
  ASSUME NEW h, IsHeap(h), NEW F, Listed(h, F), NEW chunk, chunk # NULL,
         NEW prev_chunk_size, NEW size,
         size # 0 => chunk \notin F /\ size_to_bin_round_down(size) \in Bins
  PROVE  RegisteredIfAny(register_free_space(h, chunk, prev_chunk_size, size),
                         h, F, chunk, prev_chunk_size, size)
<1> DEFINE g == register_free_space(h, chunk, prev_chunk_size, size)
<1>1. CASE size = 0
  <2>1. g = h /\ F \cup { c \in {chunk} : size # 0 } = F
    BY <1>1 DEF register_free_space
  <2>2. DOMAIN h.chunks = DOMAIN h.chunks \cup { c \in {chunk} : size # 0 }
    BY <1>1
  <2> HIDE DEF g
  <2> QED BY <1>1, <2>1, <2>2 DEF RegisteredIfAny, g
<1>2. CASE size # 0
  <2>1. Registered(g, h, F, chunk, prev_chunk_size, size)
    BY <1>2, Register
  <2> HIDE DEF g
  <2>2. F \cup { c \in {chunk} : size # 0 } = F \cup {chunk}
    BY <1>2
  <2>3. /\ DOMAIN g.chunks = DOMAIN h.chunks \cup { c \in {chunk} : size # 0 }
        /\ \A c \in DOMAIN h.chunks : c # chunk => g.chunks[c] = h.chunks[c]
        /\ g.chunks[chunk] = Chunk(prev_chunk_size, size, FALSE)
    BY <1>2, <2>1 DEF Registered, Put
  <2> QED BY <1>2, <2>1, <2>2, <2>3 DEF Registered, RegisteredIfAny, g
<1> QED BY <1>1, <1>2

-----------------------------------------------------------------------------
(* What the operations do to the chunks.                                   *)

ChunkHeaders ==
  [prev_chunk_size : 0 .. TOTAL_SPACE, size : 1 .. TOTAL_SPACE, allocated : BOOLEAN]

FreeOf(ch)      == { c \in DOMAIN ch : ~ch[c].allocated }
AllocatedOf(ch) == { c \in DOMAIN ch : ch[c].allocated }

ChunksTyped(ch) ==
  /\ DOMAIN ch \subseteq Offsets
  /\ \A c \in DOMAIN ch : ch[c] \in ChunkHeaders

Ends(ch) ==
  \A c \in DOMAIN ch : c + ch[c].size \in DOMAIN ch \cup {TOTAL_SPACE}

Apart(ch) ==
  \A c, d \in DOMAIN ch : c < d => c + ch[c].size <= d

BackLinked(ch) ==
  \A c \in DOMAIN ch :
    IF c = 0 THEN ch[c].prev_chunk_size = 0
    ELSE /\ c - ch[c].prev_chunk_size \in DOMAIN ch
         /\ ch[c - ch[c].prev_chunk_size].size = ch[c].prev_chunk_size

\* The chunks cover the arena from end to end, with correct back pointers.
Tiled(ch) ==
  ChunksTyped(ch) /\ 0 \in DOMAIN ch /\ Ends(ch) /\ Apart(ch) /\ BackLinked(ch)

\* n is ch with the chunks from offset a on replaced by three of sizes x, y and z, of
\* which the first and the last may be missing; the middle one is allocated if `used`.
IsCut(n, ch, a, x, y, z, used) ==
  LET e == a + x + y + z
  IN  /\ DOMAIN n = { c \in DOMAIN ch : c < a \/ c >= e } \cup {a + x}
                      \cup { c \in {a} : x # 0 } \cup { c \in {a + x + y} : z # 0 }
      /\ \A c \in DOMAIN ch : c < a \/ c > e => n[c] = ch[c]
      /\ n[a + x] = Chunk(IF x = 0 THEN ch[a].prev_chunk_size ELSE x, y, used)
      /\ x # 0 => n[a] = Chunk(ch[a].prev_chunk_size, x, FALSE)
      /\ z # 0 => n[a + x + y] = Chunk(y, z, FALSE)
      /\ e \in DOMAIN ch =>
           n[e] = [ch[e] EXCEPT !.prev_chunk_size = IF z = 0 THEN y ELSE z]

\* A cut begins where a chunk begins and ends where one begins or the arena ends.
CutFits(ch, a, x, y, z) ==
  /\ a \in DOMAIN ch
  /\ x \in Nat /\ y \in Nat \ {0} /\ z \in Nat
  /\ a + x + y + z \in DOMAIN ch \cup {TOTAL_SPACE}

LEMMA SpaceIsNat == TOTAL_SPACE \in Nat /\ TOTAL_SPACE # 0
  BY SizeClassConstants, AllocatorConstants

\* What is known of one chunk of a tiled arena.
LEMMA TiledChunk ==
  ASSUME NEW ch, Tiled(ch), NEW c \in DOMAIN ch
  PROVE  /\ c \in Nat /\ c < TOTAL_SPACE /\ c \in Offsets
         /\ ch[c].size \in Nat /\ ch[c].size # 0 /\ ch[c].size <= TOTAL_SPACE
         /\ ch[c].prev_chunk_size \in Nat /\ ch[c].prev_chunk_size <= TOTAL_SPACE
         /\ ch[c].allocated \in BOOLEAN
         /\ ch[c] \in ChunkHeaders
         /\ c + ch[c].size \in DOMAIN ch \cup {TOTAL_SPACE}
         /\ c + ch[c].size <= TOTAL_SPACE
<1>1. c \in Offsets /\ ch[c] \in ChunkHeaders
  BY DEF Tiled, ChunksTyped
<1>2. /\ ch[c].size \in 1 .. TOTAL_SPACE /\ ch[c].prev_chunk_size \in 0 .. TOTAL_SPACE
      /\ ch[c].allocated \in BOOLEAN
  BY <1>1 DEF ChunkHeaders
<1>3. c + ch[c].size \in DOMAIN ch \cup {TOTAL_SPACE}
  BY DEF Tiled, Ends
<1>4. \A d \in DOMAIN ch : d \in Offsets
  BY DEF Tiled, ChunksTyped
<1> QED BY <1>1, <1>2, <1>3, <1>4, SpaceIsNat DEF Offsets

\* The fields of the chunks after a cut, and the ways to be one of these chunks.
CutFacts(n, ch, a, x, y, z, used) ==
  LET e == a + x + y + z
  IN  /\ a + x \in DOMAIN n /\ n[a + x].size = y /\ n[a + x].allocated = used
      /\ n[a + x].prev_chunk_size = IF x = 0 THEN ch[a].prev_chunk_size ELSE x
      /\ x # 0 => /\ a \in DOMAIN n
                  /\ n[a].size = x /\ n[a].prev_chunk_size = ch[a].prev_chunk_size
                  /\ n[a].allocated = FALSE
      /\ z # 0 => /\ a + x + y \in DOMAIN n
                  /\ n[a + x + y].size = z /\ n[a + x + y].prev_chunk_size = y
                  /\ n[a + x + y].allocated = FALSE
      /\ e \in DOMAIN ch =>
           /\ e \in DOMAIN n
           /\ n[e].size = ch[e].size /\ n[e].allocated = ch[e].allocated
           /\ n[e].prev_chunk_size = IF z = 0 THEN y ELSE z
      /\ \A c \in DOMAIN ch : c < a \/ c > e => c \in DOMAIN n /\ n[c] = ch[c]
      /\ \A c \in DOMAIN n : \/ c \in DOMAIN ch /\ c < a
                             \/ c \in DOMAIN ch /\ c > e
                             \/ c \in DOMAIN ch /\ c = e
                             \/ c = a + x
                             \/ c = a /\ x # 0
                             \/ c = a + x + y /\ z # 0
      /\ \A c \in DOMAIN n :
           n[c] = Chunk(n[c].prev_chunk_size, n[c].size, n[c].allocated)
      /\ a \in Nat /\ e \in Nat /\ a < e /\ e <= TOTAL_SPACE

LEMMA CutFields ==
  ASSUME NEW ch, Tiled(ch), NEW a, NEW x, NEW y, NEW z, CutFits(ch, a, x, y, z),
         NEW n, NEW used \in BOOLEAN, IsCut(n, ch, a, x, y, z, used)
  PROVE  CutFacts(n, ch, a, x, y, z, used)
<1> DEFINE e == a + x + y + z
<1>1. a \in DOMAIN ch /\ x \in Nat /\ y \in Nat \ {0} /\ z \in Nat
      /\ e \in DOMAIN ch \cup {TOTAL_SPACE}
  BY DEF CutFits
<1>2. a \in Nat /\ e \in Nat /\ a < e /\ e <= TOTAL_SPACE
  BY <1>1, TiledChunk, SpaceIsNat
<1>3. \A c \in DOMAIN ch : c \in Nat
  BY TiledChunk
<1>4. /\ DOMAIN n = { c \in DOMAIN ch : c < a \/ c >= e } \cup {a + x}
                      \cup { c \in {a} : x # 0 } \cup { c \in {a + x + y} : z # 0 }
      /\ \A c \in DOMAIN ch : c < a \/ c > e => n[c] = ch[c]
      /\ n[a + x] = Chunk(IF x = 0 THEN ch[a].prev_chunk_size ELSE x, y, used)
      /\ x # 0 => n[a] = Chunk(ch[a].prev_chunk_size, x, FALSE)
      /\ z # 0 => n[a + x + y] = Chunk(y, z, FALSE)
      /\ e \in DOMAIN ch =>
           n[e] = [ch[e] EXCEPT !.prev_chunk_size = IF z = 0 THEN y ELSE z]
  BY DEF IsCut
<1>5. e \in DOMAIN ch => ch[e] \in ChunkHeaders
  BY TiledChunk
<1>6. e \in DOMAIN ch => /\ n[e].size = ch[e].size /\ n[e].allocated = ch[e].allocated
                         /\ n[e].prev_chunk_size = IF z = 0 THEN y ELSE z
  BY <1>4, <1>5 DEF ChunkHeaders
<1>7. /\ n[a + x].size = y /\ n[a + x].allocated = used
      /\ n[a + x].prev_chunk_size = IF x = 0 THEN ch[a].prev_chunk_size ELSE x
  BY <1>4 DEF Chunk
<1>8. x # 0 => /\ n[a].size = x /\ n[a].prev_chunk_size = ch[a].prev_chunk_size
               /\ n[a].allocated = FALSE
  BY <1>4 DEF Chunk
<1>9. z # 0 => /\ n[a + x + y].size = z /\ n[a + x + y].prev_chunk_size = y
               /\ n[a + x + y].allocated = FALSE
  BY <1>4 DEF Chunk
<1>10. \A c \in DOMAIN ch : c < a \/ c > e => c \in DOMAIN n /\ n[c] = ch[c]
  BY <1>2, <1>3, <1>4
<1>11. \A c \in DOMAIN n : \/ c \in DOMAIN ch /\ c < a
                           \/ c \in DOMAIN ch /\ c > e
                           \/ c \in DOMAIN ch /\ c = e
                           \/ c = a + x
                           \/ c = a /\ x # 0
                           \/ c = a + x + y /\ z # 0
  BY <1>2, <1>3, <1>4
<1>12. /\ a + x \in DOMAIN n /\ (x # 0 => a \in DOMAIN n) /\ (z # 0 => a + x + y \in DOMAIN n)
       /\ e \in DOMAIN ch => e \in DOMAIN n
  BY <1>2, <1>4
<1>13. ASSUME NEW c \in DOMAIN n
       PROVE  n[c] = Chunk(n[c].prev_chunk_size, n[c].size, n[c].allocated)
  <2>1. CASE c \in DOMAIN ch /\ (c < a \/ c >= e)
    <3>1. ch[c] \in ChunkHeaders
      BY <2>1, TiledChunk
    <3>2. n[c] = ch[c] \/ (c = e /\ n[c] = [ch[c] EXCEPT !.prev_chunk_size = IF z = 0 THEN y ELSE z])
      BY <1>2, <1>3, <1>4, <2>1
    <3> QED BY <3>1, <3>2 DEF ChunkHeaders, Chunk
  <2>2. CASE c = a + x
    BY <1>4, <2>2 DEF Chunk
  <2>3. CASE c = a /\ x # 0
    BY <1>4, <2>3 DEF Chunk
  <2>4. CASE c = a + x + y /\ z # 0
    BY <1>4, <2>4 DEF Chunk
  <2> QED BY <1>2, <1>3, <1>11, <2>1, <2>2, <2>3, <2>4
<1> QED BY <1>2, <1>6, <1>7, <1>8, <1>9, <1>10, <1>11, <1>12, <1>13 DEF CutFacts

\* A cut of a tiled arena leaves a tiled arena.
LEMMA TiledCut ==
  ASSUME NEW ch, Tiled(ch), NEW a, NEW x, NEW y, NEW z, CutFits(ch, a, x, y, z),
         NEW n, NEW used \in BOOLEAN, IsCut(n, ch, a, x, y, z, used)
  PROVE  Tiled(n)
<1> DEFINE e == a + x + y + z
<1>0. CutFacts(n, ch, a, x, y, z, used)
  BY CutFields
<1>1. /\ a \in DOMAIN ch /\ x \in Nat /\ y \in Nat \ {0} /\ z \in Nat
      /\ e \in DOMAIN ch \cup {TOTAL_SPACE}
      /\ a \in Nat /\ e \in Nat /\ a < e /\ e <= TOTAL_SPACE
  BY <1>0 DEF CutFits, CutFacts
<1>2. /\ a + x \in DOMAIN n /\ n[a + x].size = y /\ n[a + x].allocated = used
      /\ n[a + x].prev_chunk_size = IF x = 0 THEN ch[a].prev_chunk_size ELSE x
      /\ x # 0 => /\ a \in DOMAIN n
                  /\ n[a].size = x /\ n[a].prev_chunk_size = ch[a].prev_chunk_size
                  /\ n[a].allocated = FALSE
      /\ z # 0 => /\ a + x + y \in DOMAIN n
                  /\ n[a + x + y].size = z /\ n[a + x + y].prev_chunk_size = y
                  /\ n[a + x + y].allocated = FALSE
      /\ e \in DOMAIN ch =>
           /\ e \in DOMAIN n
           /\ n[e].size = ch[e].size /\ n[e].allocated = ch[e].allocated
           /\ n[e].prev_chunk_size = IF z = 0 THEN y ELSE z
      /\ \A c \in DOMAIN ch : c < a \/ c > e => c \in DOMAIN n /\ n[c] = ch[c]
  BY <1>0 DEF CutFacts
<1>3. ASSUME NEW c \in DOMAIN n
      PROVE  \/ c \in DOMAIN ch /\ c < a
             \/ c \in DOMAIN ch /\ c > e
             \/ c \in DOMAIN ch /\ c = e
             \/ c = a + x
             \/ c = a /\ x # 0
             \/ c = a + x + y /\ z # 0
  BY <1>0 DEF CutFacts
<1>4. ASSUME NEW c \in DOMAIN ch
      PROVE  /\ c \in Nat /\ c < TOTAL_SPACE
             /\ ch[c].size \in Nat /\ ch[c].size # 0 /\ ch[c].size <= TOTAL_SPACE
             /\ ch[c].prev_chunk_size \in Nat /\ ch[c].prev_chunk_size <= TOTAL_SPACE
             /\ ch[c].allocated \in BOOLEAN
             /\ c + ch[c].size \in DOMAIN ch \cup {TOTAL_SPACE}
             /\ c + ch[c].size <= TOTAL_SPACE
  BY TiledChunk
<1>5. \A c, d \in DOMAIN ch : c < d => c + ch[c].size <= d
  BY DEF Tiled, Apart
<1>6. \A c \in DOMAIN ch : c # 0 => /\ c - ch[c].prev_chunk_size \in DOMAIN ch
                                    /\ ch[c - ch[c].prev_chunk_size].size = ch[c].prev_chunk_size
  BY DEF Tiled, BackLinked
<1>7. 0 \in DOMAIN ch /\ ch[0].prev_chunk_size = 0
  BY DEF Tiled, BackLinked
<1> HIDE DEF e
<1>e. e = a + x + y + z
  BY DEF e
<1>8. ChunksTyped(n)
  <2> SUFFICES ASSUME NEW c \in DOMAIN n PROVE c \in Offsets /\ n[c] \in ChunkHeaders
    BY DEF ChunksTyped
  <2>1. /\ c \in Nat /\ c < TOTAL_SPACE
        /\ n[c].size \in 1 .. TOTAL_SPACE /\ n[c].prev_chunk_size \in 0 .. TOTAL_SPACE
        /\ n[c].allocated \in BOOLEAN
    <3>1. CASE c \in DOMAIN ch /\ (c < a \/ c > e)
      BY <1>2, <1>4, <3>1, SpaceIsNat
    <3>2. CASE c \in DOMAIN ch /\ c = e
      BY <1>1, <1>2, <1>4, <1>e, <3>2, SpaceIsNat
    <3>3. CASE c = a /\ x # 0
      <4>1. n[c].allocated = FALSE /\ n[c].size = x
        BY <1>2, <3>3
      <4>2. n[c].prev_chunk_size = ch[a].prev_chunk_size
        BY <1>2, <3>3
      <4>3. ch[a].prev_chunk_size \in 0 .. TOTAL_SPACE
        BY <1>1, <1>4, SpaceIsNat
      <4>4. n[c].allocated \in BOOLEAN
        BY <4>1
      <4>5. n[c].size \in 1 .. TOTAL_SPACE /\ c \in Nat /\ c < TOTAL_SPACE
        BY <1>1, <1>e, <3>3, <4>1, SpaceIsNat
      <4> QED BY <4>2, <4>3, <4>4, <4>5
    <3>4. CASE c = a + x
      <4>1. n[c].allocated = used /\ n[c].size = y
        BY <1>2, <3>4
      <4> QED BY <1>1, <1>2, <1>4, <1>e, <3>4, <4>1, SpaceIsNat
    <3>5. CASE c = a + x + y /\ z # 0
      <4>1. n[c].allocated = FALSE /\ n[c].size = z /\ n[c].prev_chunk_size = y
        BY <1>2, <3>5
      <4>2. n[c].allocated \in BOOLEAN
        BY <4>1
      <4>3. /\ n[c].size \in 1 .. TOTAL_SPACE /\ n[c].prev_chunk_size \in 0 .. TOTAL_SPACE
            /\ c \in Nat /\ c < TOTAL_SPACE
        BY <1>1, <1>e, <3>5, <4>1, SpaceIsNat
      <4> QED BY <4>2, <4>3
    <3> QED BY <1>3, <3>1, <3>2, <3>3, <3>4, <3>5
  <2>2. n[c] = Chunk(n[c].prev_chunk_size, n[c].size, n[c].allocated)
    BY <1>0 DEF CutFacts
  <2>3. n[c] \in ChunkHeaders
    BY <2>1, <2>2 DEF Chunk, ChunkHeaders
  <2> QED BY <2>1, <2>3, SpaceIsNat DEF Offsets
<1>9. 0 \in DOMAIN n
  BY <1>1, <1>2, <1>7
<1>10. Ends(n)
  <2> SUFFICES ASSUME NEW c \in DOMAIN n
               PROVE  c + n[c].size \in DOMAIN n \cup {TOTAL_SPACE}
    BY DEF Ends
  <2>1. CASE c \in DOMAIN ch /\ c < a
    <3>1. c + ch[c].size <= a
      BY <1>1, <1>5, <2>1
    <3>2. c + ch[c].size \in DOMAIN ch
      BY <1>1, <1>4, <2>1, <3>1
    <3>3. CASE c + ch[c].size = a
      BY <1>1, <1>2, <2>1, <3>3
    <3>4. CASE c + ch[c].size < a
      BY <1>2, <2>1, <3>2, <3>4
    <3> QED BY <1>1, <1>4, <2>1, <3>1, <3>3, <3>4
  <2>2. CASE c \in DOMAIN ch /\ c >= e
    <3>1. n[c].size = ch[c].size
      BY <1>1, <1>2, <1>4, <2>2
    <3>2. c + ch[c].size > e
      BY <1>1, <1>4, <2>2
    <3> QED BY <1>1, <1>2, <1>4, <2>2, <3>1, <3>2
  <2>3. CASE c = a /\ x # 0
    BY <1>1, <1>2, <2>3
  <2>4. CASE c = a + x
    <3>1. CASE z # 0
      BY <1>1, <1>2, <2>4, <3>1
    <3>2. CASE z = 0
      BY <1>1, <1>2, <1>e, <2>4, <3>2
    <3> QED BY <3>1, <3>2
  <2>5. CASE c = a + x + y /\ z # 0
    BY <1>1, <1>2, <1>e, <2>5
  <2>6. c \in DOMAIN ch /\ (c = e \/ c > e) => c >= e
    <3>1. c \in DOMAIN ch => c \in Nat
      BY <1>4
    <3> QED BY <1>1, <3>1
  <2> QED BY <1>3, <2>1, <2>2, <2>3, <2>4, <2>5, <2>6
<1>11. Apart(n)
  <2> SUFFICES ASSUME NEW c \in DOMAIN n, NEW d \in DOMAIN n, c < d
               PROVE  c + n[c].size <= d
    BY DEF Apart
  <2>1. CASE c \in DOMAIN ch /\ c < a
    <3>1. c + n[c].size <= a /\ n[c].size = ch[c].size
      BY <1>1, <1>2, <1>5, <2>1
    <3>2. CASE d < a
      BY <1>1, <1>3, <1>5, <2>1, <3>1, <3>2
    <3>3. CASE d >= a
      BY <1>1, <1>4, <2>1, <3>1, <3>3, <1>8 DEF ChunksTyped, Offsets
    <3> QED BY <1>1, <3>2, <3>3, <1>8 DEF ChunksTyped, Offsets
  <2>2. CASE c \in DOMAIN ch /\ c >= e
    <3>1. n[c].size = ch[c].size
      BY <1>1, <1>2, <1>4, <2>2
    <3>2. d \in DOMAIN ch
      BY <1>1, <1>3, <1>4, <1>e, <2>2, <1>8 DEF ChunksTyped, Offsets
    <3> QED BY <1>5, <2>2, <3>1, <3>2
  <2>3. CASE c \in {a, a + x, a + x + y} /\ ~(c \in DOMAIN ch /\ c >= e) /\ ~(c \in DOMAIN ch /\ c < a)
    BY <1>1, <1>2, <1>3, <1>4, <1>e, <2>3
  <2> QED BY <1>1, <1>3, <1>4, <2>1, <2>2, <2>3
<1>12. BackLinked(n)
  <2> SUFFICES ASSUME NEW c \in DOMAIN n
               PROVE  IF c = 0 THEN n[c].prev_chunk_size = 0
                      ELSE /\ c - n[c].prev_chunk_size \in DOMAIN n
                           /\ n[c - n[c].prev_chunk_size].size = n[c].prev_chunk_size
    BY DEF BackLinked
  <2>1. CASE c \in DOMAIN ch /\ c <= a /\ n[c].prev_chunk_size = ch[c].prev_chunk_size
    <3>1. CASE c = 0
      BY <1>7, <2>1, <3>1
    <3>2. CASE c # 0
      <4> DEFINE p == c - ch[c].prev_chunk_size
      <4>1. p \in DOMAIN ch /\ ch[p].size = ch[c].prev_chunk_size
        BY <1>6, <2>1, <3>2
      <4>2. p < a
        <5>1. /\ c \in Nat /\ c <= a
              /\ ch[c].prev_chunk_size \in Nat /\ ch[c].prev_chunk_size # 0
          BY <1>4, <2>1, <4>1
        <5> QED BY <1>1, <5>1
      <4>3. p \in DOMAIN n /\ n[p] = ch[p]
        BY <1>2, <4>1, <4>2
      <4> QED BY <2>1, <3>2, <4>1, <4>3
    <3> QED BY <3>1, <3>2
  <2>2. CASE c \in DOMAIN ch /\ c > e
    <3> DEFINE p == c - ch[c].prev_chunk_size
    <3>1. p \in DOMAIN ch /\ ch[p].size = ch[c].prev_chunk_size /\ c # 0 /\ n[c] = ch[c]
      BY <1>1, <1>2, <1>6, <2>2
    <3>2. e \in DOMAIN ch
      BY <1>1, <1>4, <2>2
    <3>3. p >= e
      <4> SUFFICES ASSUME p < e PROVE FALSE
        BY <1>1, <1>4, <3>1
      <4>1. p + ch[p].size <= e
        BY <1>5, <3>1, <3>2
      <4> QED BY <1>1, <1>4, <2>2, <3>1, <4>1
    <3>4. p \in DOMAIN n /\ n[p].size = ch[p].size
      BY <1>1, <1>2, <1>4, <3>1, <3>3
    <3> QED BY <3>1, <3>4
  <2>3. CASE c \in DOMAIN ch /\ c = e
    BY <1>1, <1>2, <1>e, <2>3
  <2>4. CASE c = a + x /\ x # 0
    BY <1>1, <1>2, <2>4
  <2>5. CASE c = a + x + y /\ z # 0
    BY <1>1, <1>2, <2>5
  <2>6. ASSUME c = a
        PROVE  c \in DOMAIN ch /\ c <= a /\ n[c].prev_chunk_size = ch[c].prev_chunk_size
    BY <1>1, <1>2, <2>6
  <2>7. ASSUME c \in DOMAIN ch, c < a
        PROVE  c <= a /\ n[c].prev_chunk_size = ch[c].prev_chunk_size
    BY <1>1, <1>2, <1>4, <2>7
  <2>8. c = a + x /\ x = 0 => c = a
    BY <1>1
  <2> QED BY <1>3, <2>1, <2>2, <2>3, <2>4, <2>5, <2>6, <2>7, <2>8
<1> QED BY <1>8, <1>9, <1>10, <1>11, <1>12 DEF Tiled

\* Which chunks are free and which are allocated after a cut.
CutSetsFacts(n, ch, a, x, y, z, used) ==
  LET e == a + x + y + z
  IN  /\ FreeOf(n) = { c \in FreeOf(ch) : c < a \/ c >= e }
                       \cup { c \in {a} : x # 0 } \cup { c \in {a + x} : ~used }
                       \cup { c \in {a + x + y} : z # 0 }
      /\ AllocatedOf(n) = { c \in AllocatedOf(ch) : c < a \/ c >= e }
                            \cup { c \in {a + x} : used }
      /\ \A c \in DOMAIN ch : c < a \/ c >= e =>
           c \in DOMAIN n /\ n[c].size = ch[c].size
      /\ n[a + x].size = y

LEMMA CutSets ==
  ASSUME NEW ch, Tiled(ch), NEW a, NEW x, NEW y, NEW z, CutFits(ch, a, x, y, z),
         NEW n, NEW used \in BOOLEAN, IsCut(n, ch, a, x, y, z, used)
  PROVE  CutSetsFacts(n, ch, a, x, y, z, used)
<1> DEFINE e == a + x + y + z
<1>0. CutFacts(n, ch, a, x, y, z, used)
  BY CutFields
<1>1. /\ a \in DOMAIN ch /\ x \in Nat /\ y \in Nat \ {0} /\ z \in Nat
      /\ a \in Nat /\ e \in Nat /\ a < e /\ e <= TOTAL_SPACE
  BY <1>0 DEF CutFits, CutFacts
<1>2. \A c \in DOMAIN ch : c \in Nat
  BY TiledChunk
<1> HIDE DEF e
<1>e. e = a + x + y + z
  BY DEF e
<1>3. \A c \in DOMAIN ch : c < a \/ c >= e =>
        c \in DOMAIN n /\ n[c].size = ch[c].size /\ n[c].allocated = ch[c].allocated
  BY <1>0, <1>1, <1>2 DEF CutFacts, e
<1>4. \A c \in DOMAIN n : \/ c \in DOMAIN ch /\ (c < a \/ c >= e)
                          \/ c = a + x
                          \/ c = a /\ x # 0
                          \/ c = a + x + y /\ z # 0
  BY <1>0, <1>1, <1>2 DEF CutFacts, e
<1>5. /\ a + x \in DOMAIN n /\ n[a + x].size = y /\ n[a + x].allocated = used
      /\ x # 0 => a \in DOMAIN n /\ n[a].allocated = FALSE
      /\ z # 0 => a + x + y \in DOMAIN n /\ n[a + x + y].allocated = FALSE
  BY <1>0 DEF CutFacts
<1>6. FreeOf(n) = { c \in FreeOf(ch) : c < a \/ c >= e }
                    \cup { c \in {a} : x # 0 } \cup { c \in {a + x} : ~used }
                    \cup { c \in {a + x + y} : z # 0 }
  BY <1>3, <1>4, <1>5 DEF FreeOf
<1>7. AllocatedOf(n) = { c \in AllocatedOf(ch) : c < a \/ c >= e }
                         \cup { c \in {a + x} : used }
  BY <1>3, <1>4, <1>5 DEF AllocatedOf
<1> QED BY <1>3, <1>5, <1>6, <1>7 DEF e, CutSetsFacts

\* Free neighbours have been merged.
Merged(ch) == \A c \in FreeOf(ch) : c + ch[c].size \notin FreeOf(ch)

\* Free neighbours stay merged when the outer chunks of a cut that are free have no
\* free neighbour outside the cut.
LEMMA MergedCut ==
  ASSUME NEW ch, Tiled(ch), Merged(ch),
         NEW a, NEW x, NEW y, NEW z, CutFits(ch, a, x, y, z),
         NEW n, NEW used \in BOOLEAN, IsCut(n, ch, a, x, y, z, used),
         ~used => x = 0 /\ z = 0,
         x # 0 \/ ~used => \A c \in FreeOf(ch) : c + ch[c].size # a,
         z # 0 \/ ~used => a + x + y + z \notin FreeOf(ch)
  PROVE  Merged(n)
<1> DEFINE e == a + x + y + z
           out == { c \in FreeOf(ch) : c < a \/ c >= e }
<1>0. CutFacts(n, ch, a, x, y, z, used)
  BY CutFields
<1>1. /\ a \in DOMAIN ch /\ x \in Nat /\ y \in Nat \ {0} /\ z \in Nat
      /\ a \in Nat /\ e \in Nat /\ a < e /\ e <= TOTAL_SPACE
  BY <1>0 DEF CutFits, CutFacts
<1>2. /\ FreeOf(n) = out \cup { c \in {a} : x # 0 } \cup { c \in {a + x} : ~used }
                         \cup { c \in {a + x + y} : z # 0 }
      /\ \A c \in DOMAIN ch : c < a \/ c >= e => n[c].size = ch[c].size
  BY CutSets DEF CutSetsFacts
<1>3. /\ n[a + x].size = y
      /\ x # 0 => n[a].size = x
      /\ z # 0 => n[a + x + y].size = z
  BY <1>0 DEF CutFacts
<1>4. e \in DOMAIN ch \cup {TOTAL_SPACE}
  BY DEF CutFits
<1> HIDE DEF e
<1>e. e = a + x + y + z
  BY DEF e
<1>5. \A c \in DOMAIN ch : c \in Nat /\ ch[c].size \in Nat /\ ch[c].size # 0
  BY TiledChunk
<1>6. \A c \in DOMAIN ch : c < a => c + ch[c].size <= a
  BY <1>1 DEF Tiled, Apart
<1>7. \A c \in FreeOf(ch) : c \in DOMAIN ch /\ c + ch[c].size \notin FreeOf(ch)
  BY DEF Merged, FreeOf
<1> SUFFICES ASSUME NEW c \in FreeOf(n), c + n[c].size \in FreeOf(n) PROVE FALSE
  BY DEF Merged
<1>8. CASE c \in out /\ c < a
  <2>1. /\ c \in Nat /\ c \in DOMAIN ch /\ n[c].size = ch[c].size /\ ch[c].size \in Nat
        /\ c + ch[c].size <= a /\ c + ch[c].size \notin FreeOf(ch)
    BY <1>2, <1>5, <1>6, <1>7, <1>8
  <2>2. c + ch[c].size = a
    BY <1>1, <1>2, <2>1
  <2>3. x # 0 \/ ~used
    BY <1>1, <1>2, <1>e, <2>1, <2>2
  <2> QED BY <1>8, <2>2, <2>3
<1>9. CASE c \in out /\ c >= e
  <2>1. /\ c \in Nat /\ c \in DOMAIN ch /\ n[c].size = ch[c].size /\ ch[c].size \in Nat
        /\ ch[c].size # 0 /\ c + ch[c].size \notin FreeOf(ch)
    BY <1>2, <1>5, <1>7, <1>9
  <2> QED BY <1>1, <1>2, <1>9, <1>e, <2>1
<1>10. CASE c = a /\ x # 0
  <2>1. c + n[c].size = a + x /\ used
    BY <1>3, <1>10
  <2>2. a + x \notin FreeOf(ch) \/ ~(a + x < a \/ a + x >= e)
    BY <1>1, <1>e
  <2>3. a + x # a /\ a + x # a + x + y
    BY <1>1, <1>10
  <2> QED BY <1>2, <2>1, <2>2, <2>3
<1>11. CASE c = a + x /\ ~used
  <2>1. c + n[c].size = e /\ e \notin FreeOf(ch)
    BY <1>1, <1>3, <1>11, <1>e
  <2> QED BY <1>1, <1>2, <1>11, <1>e, <2>1
<1>12. CASE c = a + x + y /\ z # 0
  <2>1. c + n[c].size = e /\ e \notin FreeOf(ch)
    BY <1>1, <1>3, <1>12, <1>e
  <2> QED BY <1>1, <1>2, <1>12, <1>e, <2>1
<1> QED BY <1>2, <1>8, <1>9, <1>10, <1>11, <1>12

-----------------------------------------------------------------------------
(* The steps an operation is made of.                                      *)

\* set_prev_chunk_size writes one back pointer, and none at the end of the arena.
PrevSet(g, h, e, v) ==
  /\ DOMAIN g.chunks = DOMAIN h.chunks
  /\ \A c \in DOMAIN h.chunks :
       ~(c = e /\ e < TOTAL_SPACE) => g.chunks[c] = h.chunks[c]
  /\ e < TOTAL_SPACE => g.chunks[e] = [h.chunks[e] EXCEPT !.prev_chunk_size = v]

LEMMA SetPrev ==
  ASSUME NEW h, IsHeap(h), NEW F, Listed(h, F), NEW e, NEW v,
         e < TOTAL_SPACE => e \in DOMAIN h.chunks /\ h.chunks[e] \in ChunkHeaders
  PROVE  LET g == set_prev_chunk_size(h, e, v)
         IN  /\ IsHeap(g) /\ Listed(g, F) /\ g.base = h.base /\ g.space = h.space
             /\ PrevSet(g, h, e, v)
<1> DEFINE g == set_prev_chunk_size(h, e, v)
           n == [h.chunks EXCEPT ![e].prev_chunk_size = v]
<1>1. CASE e < TOTAL_SPACE
  <2>1. g = [h EXCEPT !.chunks = n]
    BY <1>1 DEF set_prev_chunk_size
  <2>2. /\ DOMAIN n = DOMAIN h.chunks
        /\ \A c \in DOMAIN h.chunks : c # e => n[c] = h.chunks[c]
        /\ n[e] = [h.chunks[e] EXCEPT !.prev_chunk_size = v]
    BY <1>1
  <2> HIDE DEF g, n
  <2>3. /\ IsHeap(g) /\ g.base = h.base /\ g.space = h.space /\ g.chunks = n
        /\ g.first = h.first /\ g.links = h.links /\ g.mask = h.mask
    BY <2>1 DEF IsHeap
  <2>4. n[e].size = h.chunks[e].size
    BY <1>1, <2>2 DEF ChunkHeaders
  <2>5. F \subseteq DOMAIN g.chunks /\ \A c \in F : g.chunks[c].size = h.chunks[c].size
    BY <2>2, <2>3, <2>4 DEF Listed
  <2>6. Listed(g, F)
    BY <2>3, <2>5, ListedFrame
  <2> QED BY <1>1, <2>2, <2>3, <2>6 DEF g, PrevSet
<1>2. CASE ~(e < TOTAL_SPACE)
  BY <1>2 DEF set_prev_chunk_size, PrevSet
<1> QED BY <1>1, <1>2

\* A chunk that is in no list can be forgotten.
LEMMA Forget ==
  ASSUME NEW h, IsHeap(h), NEW F, Listed(h, F), NEW chunk, chunk \notin F
  PROVE  LET g == forget(h, chunk)
         IN  /\ IsHeap(g) /\ Listed(g, F) /\ g.base = h.base /\ g.space = h.space
             /\ g.chunks = Without(h.chunks, chunk)
<1> DEFINE g == forget(h, chunk)
           n == Without(h.chunks, chunk)
<1>1. g = [h EXCEPT !.chunks = n]
  BY DEF forget
<1>2. DOMAIN n = DOMAIN h.chunks \ {chunk} /\ \A c \in DOMAIN n : n[c] = h.chunks[c]
  BY DEF Without
<1> HIDE DEF g, n
<1>3. /\ IsHeap(g) /\ g.base = h.base /\ g.space = h.space /\ g.chunks = n
      /\ g.first = h.first /\ g.links = h.links /\ g.mask = h.mask
  BY <1>1 DEF IsHeap
<1>4. F \subseteq DOMAIN g.chunks /\ \A c \in F : g.chunks[c].size = h.chunks[c].size
  BY <1>2, <1>3 DEF Listed
<1> QED BY <1>3, <1>4, ListedFrame DEF g, n

\* The header of an allocation is written over no listed chunk.
AllocationRegistered(g, h, F, chunk, v, size) ==
  /\ IsHeap(g) /\ Listed(g, F) /\ g.base = h.base /\ g.space = h.space
  /\ g.chunks = Put(h.chunks, chunk, Chunk(v, size, TRUE))

LEMMA RegisterAllocation ==
  ASSUME NEW h, IsHeap(h), NEW F, Listed(h, F), NEW chunk, chunk \notin F, NEW v, NEW size
  PROVE  AllocationRegistered(register_allocation(h, chunk, v, size), h, F, chunk, v, size)
<1> DEFINE g == register_allocation(h, chunk, v, size)
           n == Put(h.chunks, chunk, Chunk(v, size, TRUE))
<1>1. g = [h EXCEPT !.chunks = n]
  BY DEF register_allocation
<1>2. /\ DOMAIN n = DOMAIN h.chunks \cup {chunk}
      /\ \A c \in DOMAIN h.chunks : c # chunk => n[c] = h.chunks[c]
  BY DEF Put
<1> HIDE DEF g, n
<1>3. /\ IsHeap(g) /\ g.base = h.base /\ g.space = h.space /\ g.chunks = n
      /\ g.first = h.first /\ g.links = h.links /\ g.mask = h.mask
  BY <1>1 DEF IsHeap
<1>4. F \subseteq DOMAIN g.chunks /\ \A c \in F : g.chunks[c].size = h.chunks[c].size
  BY <1>2, <1>3 DEF Listed
<1>5. Listed(g, F)
  BY <1>3, <1>4, ListedFrame
<1> QED BY <1>3, <1>5 DEF g, n, AllocationRegistered

\* Committing memory changes nothing but how much is committed.
LEMMA Commit ==
  ASSUME NEW h, IsHeap(h), NEW F, Listed(h, F), NEW e
  PROVE  LET g == committed(h, e)
         IN  /\ IsHeap(g) /\ Listed(g, F) /\ g.base = h.base /\ g.chunks = h.chunks
             /\ g.first = h.first
             /\ g.space = IF h.space < e THEN e ELSE h.space
<1> DEFINE g == committed(h, e)
           s == IF h.space < e THEN e ELSE h.space
<1>1. g = [h EXCEPT !.space = s]
  BY DEF committed, IsHeap
<1> HIDE DEF g, s
<1>2. /\ IsHeap(g) /\ g.base = h.base /\ g.space = s /\ g.chunks = h.chunks
      /\ g.first = h.first /\ g.links = h.links /\ g.mask = h.mask
  BY <1>1 DEF IsHeap
<1>3. F \subseteq DOMAIN g.chunks /\ \A c \in F : g.chunks[c].size = h.chunks[c].size
  BY <1>2 DEF Listed
<1> QED BY <1>2, <1>3, ListedFrame DEF g, s

\* Every size has a bin: the larger ones share the last.
LEMMA BinOfSize ==
  ASSUME NEW size \in Nat, size # 0
  PROVE  size_to_bin_round_down(size) \in Bins /\ size_to_bin_round_up(size) \in Bins
<1>1. MAX_ALLOCATION_SIZE \in Nat /\ MAX_ALLOCATION_SIZE >= 1
  BY SizeClassConstants
<1> DEFINE s == clamped(size)
<1>2. s \in 1 .. MAX_ALLOCATION_SIZE /\ clamped(s) = s
  BY <1>1 DEF clamped
<1>3. size_to_bin_round_down(s) \in Bins /\ size_to_bin_round_up(s) \in Bins
  BY <1>2, BinsExist
<1> HIDE DEF s
<1> QED BY <1>2, <1>3 DEF s, size_to_bin_round_down, size_to_bin_round_up

-----------------------------------------------------------------------------
(* The operations.                                                         *)

Committed(h) ==
  \A c \in DOMAIN h.chunks :
    c + (IF h.chunks[c].allocated THEN h.chunks[c].size ELSE FREE_CHUNK_HEADER_SIZE)
      <= h.space

\* A heap between two calls, once the arena is initialised.
Sound(h) ==
  /\ IsHeap(h) /\ h.base \in Nat /\ h.base # 0 /\ h.space \in 0 .. TOTAL_SPACE
  /\ Tiled(h.chunks) /\ Merged(h.chunks)
  /\ Listed(h, FreeOf(h.chunks))
  /\ Committed(h)

\* Two chunks that end at the same offset are the same.
LEMMA SameEnd ==
  ASSUME NEW ch, Tiled(ch), NEW c \in DOMAIN ch, NEW d \in DOMAIN ch,
         c + ch[c].size = d + ch[d].size
  PROVE  c = d
<1>1. c < d => c + ch[c].size <= d
  BY DEF Tiled, Apart
<1>2. d < c => d + ch[d].size <= c
  BY DEF Tiled, Apart
<1>3. /\ c \in Nat /\ ch[c].size \in Nat /\ ch[c].size # 0
      /\ d \in Nat /\ ch[d].size \in Nat /\ ch[d].size # 0
  BY TiledChunk
<1> QED BY <1>1, <1>2, <1>3

\* A cut of a sound heap is a sound heap again, if its lists are in order, what it
\* cuts out is committed, and free neighbours were merged.
LEMMA SoundCut ==
  ASSUME NEW h, Sound(h), NEW a, NEW x, NEW y, NEW z, CutFits(h.chunks, a, x, y, z),
         NEW g, NEW used \in BOOLEAN, IsCut(g.chunks, h.chunks, a, x, y, z, used),
         IsHeap(g), g.base = h.base, Listed(g, FreeOf(g.chunks)),
         g.space \in 0 .. TOTAL_SPACE, h.space <= g.space,
         used => a + x + y <= g.space,
         z # 0 => a + x + y + 1 <= g.space,
         ~used => x = 0 /\ z = 0,
         x # 0 \/ ~used => \A c \in FreeOf(h.chunks) : c + h.chunks[c].size # a,
         z # 0 \/ ~used => a + x + y + z \notin FreeOf(h.chunks)
  PROVE  Sound(g)
<1> DEFINE ch == h.chunks
           n  == g.chunks
           e  == a + x + y + z
<1>1. Tiled(ch) /\ Merged(ch) /\ h.space \in 0 .. TOTAL_SPACE /\ h.base \in Nat /\ h.base # 0
  BY DEF Sound
<1>2. \A c \in DOMAIN ch :
        c + (IF ch[c].allocated THEN ch[c].size ELSE 1) <= h.space
  BY DEF Sound, Committed, FREE_CHUNK_HEADER_SIZE
<1> HIDE DEF ch, n
<1>3. CutFits(ch, a, x, y, z) /\ IsCut(n, ch, a, x, y, z, used)
  BY DEF ch, n
<1>4. Tiled(n)
  BY <1>1, <1>3, TiledCut
<1>5. Merged(n)
  <2>1. /\ ~used => x = 0 /\ z = 0
        /\ x # 0 \/ ~used => \A c \in FreeOf(ch) : c + ch[c].size # a
        /\ z # 0 \/ ~used => a + x + y + z \notin FreeOf(ch)
    BY DEF ch
  <2> QED BY <1>1, <1>3, <2>1, MergedCut
<1>6. CutFacts(n, ch, a, x, y, z, used)
  BY <1>1, <1>3, CutFields
<1>7. /\ a \in DOMAIN ch /\ x \in Nat /\ y \in Nat \ {0} /\ z \in Nat
      /\ a \in Nat /\ e \in Nat /\ a < e /\ e <= TOTAL_SPACE
  BY <1>3, <1>6 DEF CutFits, CutFacts
<1>8. h.space \in Nat /\ g.space \in Nat
  BY <1>1, SpaceIsNat
<1>9. ASSUME NEW c \in DOMAIN ch
      PROVE  /\ c \in Nat /\ ch[c].size \in Nat /\ ch[c].size # 0
             /\ c + 1 <= g.space
             /\ ch[c].allocated => c + ch[c].size <= g.space
  <2>1. c \in Nat /\ ch[c].size \in Nat /\ ch[c].size # 0
    BY <1>1, TiledChunk
  <2>2. c + (IF ch[c].allocated THEN ch[c].size ELSE 1) <= h.space
    BY <1>2
  <2> QED BY <1>8, <2>1, <2>2
<1>10. \A c \in DOMAIN n : c + (IF n[c].allocated THEN n[c].size ELSE 1) <= g.space
  <2> SUFFICES ASSUME NEW c \in DOMAIN n
               PROVE  c + (IF n[c].allocated THEN n[c].size ELSE 1) <= g.space
    OBVIOUS
  <2>1. CASE c \in DOMAIN ch /\ (c < a \/ c >= e)
    <3>1. n[c].size = ch[c].size /\ n[c].allocated = ch[c].allocated
      BY <1>6, <1>7, <1>9, <2>1 DEF CutFacts
    <3>2. c + 1 <= g.space /\ (ch[c].allocated => c + ch[c].size <= g.space)
      BY <1>9, <2>1
    <3> QED BY <3>1, <3>2
  <2>2. CASE c = a + x
    <3>1. n[c].size = y /\ n[c].allocated = used
      BY <1>6, <2>2 DEF CutFacts
    <3>2. ~used => c + 1 <= g.space
      BY <1>7, <1>9, <2>2
    <3> QED BY <2>2, <3>1, <3>2
  <2>3. CASE c = a /\ x # 0
    <3>1. n[c].allocated = FALSE
      BY <1>6, <2>3 DEF CutFacts
    <3> QED BY <1>7, <1>9, <2>3, <3>1
  <2>4. CASE c = a + x + y /\ z # 0
    <3>1. n[c].allocated = FALSE
      BY <1>6, <2>4 DEF CutFacts
    <3> QED BY <2>4, <3>1
  <2>5. \/ c \in DOMAIN ch /\ (c < a \/ c >= e)
        \/ c = a + x
        \/ c = a /\ x # 0
        \/ c = a + x + y /\ z # 0
    <3>1. \A d \in DOMAIN ch : d \in Nat
      BY <1>9
    <3> QED BY <1>6, <1>7, <3>1 DEF CutFacts
  <2> QED BY <2>1, <2>2, <2>3, <2>4, <2>5
<1> QED BY <1>1, <1>4, <1>5, <1>10 DEF Sound, Committed, FREE_CHUNK_HEADER_SIZE, n

\* What free does for its caller: the chunk is no longer allocated, all others are as
\* they were, and no memory is given back.
Freed(g, h, chunk) ==
  /\ Sound(g) /\ g.base = h.base /\ h.space <= g.space
  /\ AllocatedOf(g.chunks) = AllocatedOf(h.chunks) \ {chunk}
  /\ \A c \in AllocatedOf(g.chunks) : g.chunks[c].size = h.chunks[c].size

LEMMA FreeOp ==
  ASSUME NEW h, Sound(h), NEW chunk \in AllocatedOf(h.chunks), NEW pointer,
         chunk_of(h, pointer) = chunk
  PROVE  Freed(free(h, pointer), h, chunk)
<1> DEFINE ch    == h.chunks
           F     == FreeOf(ch)
           prev  == chunk - ch[chunk].prev_chunk_size
           next  == chunk + ch[chunk].size
           p1    == chunk # 0 /\ is_free(h, prev)
           p2    == is_free(h, next)
           h1    == IF p1 THEN forget(unregister(h, prev), chunk) ELSE h
           start == IF p1 THEN prev ELSE chunk
           h2    == IF p2 THEN forget(unregister(h1, next), next) ELSE h1
           end   == IF p2 THEN next + ch[next].size ELSE next
           y     == end - start
           h3    == register_free_space(h2, start, ch[start].prev_chunk_size, y)
           g     == set_prev_chunk_size(h3, end, y)
           F1    == IF p1 THEN F \ {prev} ELSE F
           F2    == IF p2 THEN F1 \ {next} ELSE F1
<1>1. free(h, pointer) = g
  BY DEF free
<1> HIDE DEF prev, next, p1, p2, h1, start, h2, end, y, h3, g, ch
<1>2. /\ IsHeap(h) /\ h.base \in Nat /\ h.space \in 0 .. TOTAL_SPACE
      /\ Tiled(ch) /\ Merged(ch) /\ Listed(h, F)
  BY DEF Sound, ch
<1>3. ASSUME NEW c \in DOMAIN ch
      PROVE  /\ c \in Nat /\ c < TOTAL_SPACE /\ ch[c].size \in Nat /\ ch[c].size # 0
             /\ ch[c].prev_chunk_size \in Nat /\ ch[c] \in ChunkHeaders
             /\ c + ch[c].size \in DOMAIN ch \cup {TOTAL_SPACE}
  BY <1>2, TiledChunk
<1>4. chunk \in DOMAIN ch /\ chunk \notin F /\ F \subseteq DOMAIN ch
  BY DEF AllocatedOf, FreeOf, ch
<1>5. next \in DOMAIN ch \cup {TOTAL_SPACE} /\ next \in Nat /\ chunk < next
  BY <1>3, <1>4, SpaceIsNat DEF next
<1>6. chunk # 0 => /\ prev \in DOMAIN ch /\ prev + ch[prev].size = chunk
                   /\ prev \in Nat /\ prev < chunk /\ prev < TOTAL_SPACE
  <2>1. chunk # 0 => prev \in DOMAIN ch /\ ch[prev].size = ch[chunk].prev_chunk_size
    BY <1>2, <1>4 DEF Tiled, BackLinked, prev
  <2> QED BY <1>3, <1>4, <2>1 DEF prev
<1>7. p1 <=> chunk # 0 /\ prev \in F
  BY <1>6 DEF p1, is_free, FreeOf, ch
<1>8. p2 <=> next \in F
  <2>1. next \in DOMAIN ch <=> next < TOTAL_SPACE
    BY <1>3, <1>5, SpaceIsNat
  <2> QED BY <2>1 DEF p2, is_free, FreeOf, ch
<1>9. start \in DOMAIN ch /\ start \in Nat /\ start <= chunk /\ start < next
  BY <1>3, <1>4, <1>5, <1>6, <1>7 DEF start
<1>10. end \in DOMAIN ch \cup {TOTAL_SPACE} /\ end \in Nat /\ next <= end
       /\ end <= TOTAL_SPACE
  <2>1. CASE p2
    BY <1>3, <1>4, <1>5, <1>8, <2>1, SpaceIsNat DEF end
  <2>2. CASE ~p2
    BY <1>3, <1>5, <2>2, SpaceIsNat DEF end
  <2> QED BY <2>1, <2>2
<1>11. y \in Nat /\ y # 0 /\ start + y = end
  BY <1>5, <1>9, <1>10 DEF y
<1>12. ASSUME NEW c \in DOMAIN ch, c >= start, c < end
       PROVE  \/ c = chunk
              \/ p1 /\ c = prev
              \/ p2 /\ c = next
  <2>1. \A d, f \in DOMAIN ch : d < f => d + ch[d].size <= f
    BY <1>2 DEF Tiled, Apart
  <2>2. c < chunk => p1 /\ c = prev
    <3> SUFFICES ASSUME c < chunk PROVE p1 /\ c = prev
      OBVIOUS
    <3>1. p1 /\ start = prev /\ prev \in DOMAIN ch
      BY <1>3, <1>4, <1>6, <1>7, <1>12 DEF start
    <3>2. prev < c => prev + ch[prev].size <= c
      BY <2>1, <3>1
    <3> QED BY <1>3, <1>4, <1>6, <1>7, <1>12, <3>1, <3>2
  <2>3. c > chunk => c >= next
    <3>1. c > chunk => chunk + ch[chunk].size <= c
      BY <1>3, <1>4, <2>1
    <3> QED BY <1>3, <1>5, <3>1 DEF next
  <2>4. c > chunk => p2 /\ c = next
    <3> SUFFICES ASSUME c > chunk PROVE p2 /\ c = next
      OBVIOUS
    <3>1. p2 /\ end = next + ch[next].size /\ next \in DOMAIN ch
      BY <1>3, <1>4, <1>5, <1>8, <1>12, <2>3 DEF end
    <3>2. next < c => next + ch[next].size <= c
      BY <2>1, <3>1
    <3> QED BY <1>3, <1>5, <1>10, <1>12, <2>3, <3>1, <3>2
  <2> QED BY <1>3, <1>4, <2>2, <2>4
<1>13. /\ IsHeap(h1) /\ Listed(h1, F1) /\ h1.base = h.base /\ h1.space = h.space
       /\ h1.chunks = IF p1 THEN Without(ch, chunk) ELSE ch
  <2>1. CASE p1
    <3> DEFINE u == unregister(h, prev)
    <3>1. /\ IsHeap(u) /\ Listed(u, F \ {prev})
          /\ u.base = h.base /\ u.space = h.space /\ u.chunks = ch
      BY <1>2, <1>7, <2>1, Unregister DEF ch
    <3> HIDE DEF u
    <3>2. chunk \notin F \ {prev}
      BY <1>4
    <3>3. /\ IsHeap(forget(u, chunk)) /\ Listed(forget(u, chunk), F \ {prev})
          /\ forget(u, chunk).base = u.base /\ forget(u, chunk).space = u.space
          /\ forget(u, chunk).chunks = Without(u.chunks, chunk)
      BY <3>1, <3>2, Forget
    <3> QED BY <2>1, <3>1, <3>3 DEF h1, u
  <2>2. CASE ~p1
    BY <1>2, <2>2 DEF h1, ch
  <2> QED BY <2>1, <2>2
<1>14. /\ IsHeap(h2) /\ Listed(h2, F2) /\ h2.base = h.base /\ h2.space = h.space
       /\ h2.chunks = IF p2 THEN Without(h1.chunks, next) ELSE h1.chunks
  <2>1. CASE p2
    <3> DEFINE u == unregister(h1, next)
    <3>1. next \in F1
      <4>1. p1 => next # prev
        BY <1>3, <1>4, <1>5, <1>6, <1>7
      <4> QED BY <1>8, <2>1, <4>1
    <3>2. /\ IsHeap(u) /\ Listed(u, F1 \ {next})
          /\ u.base = h1.base /\ u.space = h1.space /\ u.chunks = h1.chunks
      BY <1>13, <3>1, Unregister
    <3> HIDE DEF u
    <3>3. next \notin F1 \ {next}
      OBVIOUS
    <3>4. /\ IsHeap(forget(u, next)) /\ Listed(forget(u, next), F1 \ {next})
          /\ forget(u, next).base = u.base /\ forget(u, next).space = u.space
          /\ forget(u, next).chunks = Without(u.chunks, next)
      BY <3>2, <3>3, Forget
    <3> QED BY <1>13, <2>1, <3>2, <3>4 DEF h2, u
  <2>2. CASE ~p2
    BY <1>13, <2>2 DEF h2
  <2> QED BY <2>1, <2>2
<1>15. start \notin F2 /\ start # NULL
  BY <1>4, <1>7, <1>9 DEF start, NULL
<1>16. /\ IsHeap(h3) /\ Listed(h3, F2 \cup {start}) /\ h3.base = h.base /\ h3.space = h.space
       /\ h3.chunks = Put(h2.chunks, start, Chunk(ch[start].prev_chunk_size, y, FALSE))
  <2>1. size_to_bin_round_down(y) \in Bins
    BY <1>11, BinOfSize
  <2>2. /\ IsHeap(h3) /\ Listed(h3, F2 \cup {start})
        /\ h3.base = h2.base /\ h3.space = h2.space
        /\ h3.chunks = Put(h2.chunks, start, Chunk(ch[start].prev_chunk_size, y, FALSE))
    <3> HIDE DEF F2
    <3>1. IsHeap(h2) /\ Listed(h2, F2) /\ start \notin F2 /\ start # NULL /\ y # 0
      BY <1>11, <1>14, <1>15
    <3>2. Registered(h3, h2, F2, start, ch[start].prev_chunk_size, y)
      BY <2>1, <3>1, Register DEF h3
    <3> QED BY <3>2 DEF Registered
  <2> QED BY <1>14, <2>2
<1>17. /\ DOMAIN h2.chunks = DOMAIN ch \ ({ c \in {chunk} : p1 } \cup { c \in {next} : p2 })
       /\ \A c \in DOMAIN h2.chunks : h2.chunks[c] = ch[c]
  BY <1>13, <1>14 DEF Without
<1>18. /\ DOMAIN h3.chunks = { c \in DOMAIN ch : c < start \/ c >= end } \cup {start}
       /\ h3.chunks[start] = Chunk(ch[start].prev_chunk_size, y, FALSE)
       /\ \A c \in DOMAIN ch : c < start \/ c >= end => h3.chunks[c] = ch[c]
  <2>1. /\ DOMAIN h3.chunks = DOMAIN h2.chunks \cup {start}
        /\ h3.chunks[start] = Chunk(ch[start].prev_chunk_size, y, FALSE)
        /\ \A c \in DOMAIN h2.chunks : c # start => h3.chunks[c] = h2.chunks[c]
    BY <1>16 DEF Put
  <2>2. ASSUME NEW c \in DOMAIN ch, c < start \/ c >= end
        PROVE  c \in DOMAIN h2.chunks /\ c # start
    <3>1. c # chunk /\ c # start
      BY <1>3, <1>4, <1>5, <1>9, <1>10, <2>2
    <3>2. p2 => c # next
      BY <1>3, <1>5, <1>8, <1>9, <2>2 DEF end, F, FreeOf
    <3> QED BY <1>17, <3>1, <3>2
  <2>3. ASSUME NEW c \in DOMAIN h2.chunks, c # start
        PROVE  c < start \/ c >= end
    <3> SUFFICES ASSUME c >= start, c < end PROVE FALSE
      BY <1>3, <1>9, <1>10, <1>17
    <3>1. c = chunk \/ (p1 /\ c = prev) \/ (p2 /\ c = next)
      BY <1>12, <1>17
    <3> QED BY <1>17, <2>3, <3>1 DEF start
  <2> QED BY <1>9, <1>17, <2>1, <2>2, <2>3
<1>19. end < TOTAL_SPACE => end \in DOMAIN h3.chunks /\ h3.chunks[end] = ch[end]
                            /\ end \in DOMAIN ch
  BY <1>10, <1>18
<1>20. /\ IsHeap(g) /\ Listed(g, F2 \cup {start}) /\ g.base = h.base /\ g.space = h.space
       /\ DOMAIN g.chunks = DOMAIN h3.chunks
       /\ \A c \in DOMAIN h3.chunks :
            ~(c = end /\ end < TOTAL_SPACE) => g.chunks[c] = h3.chunks[c]
       /\ end < TOTAL_SPACE => g.chunks[end] = [h3.chunks[end] EXCEPT !.prev_chunk_size = y]
  <2>1. end < TOTAL_SPACE => end \in DOMAIN h3.chunks /\ h3.chunks[end] \in ChunkHeaders
    BY <1>3, <1>19
  <2> DEFINE G == F2 \cup {start}
  <2> HIDE DEF G
  <2>2. Listed(h3, G)
    BY <1>16 DEF G
  <2>3. LET r == set_prev_chunk_size(h3, end, y)
        IN  /\ IsHeap(r) /\ Listed(r, G) /\ r.base = h3.base /\ r.space = h3.space
            /\ PrevSet(r, h3, end, y)
    BY <1>16, <2>1, <2>2, SetPrev
  <2> QED BY <1>16, <2>3 DEF g, G, PrevSet
<1>21. CutFits(ch, start, 0, y, 0)
  BY <1>9, <1>10, <1>11 DEF CutFits
<1>22. IsCut(g.chunks, ch, start, 0, y, 0, FALSE)
  <2>1. start + 0 = start /\ start + 0 + y = end /\ start + 0 + y + 0 = end /\ start # end
    BY <1>9, <1>10, <1>11
  <2>2. DOMAIN g.chunks = { c \in DOMAIN ch : c < start \/ c >= end } \cup {start}
    BY <1>18, <1>20
  <2>3. \A c \in DOMAIN ch : c < start \/ c > end => g.chunks[c] = ch[c]
    <3> SUFFICES ASSUME NEW c \in DOMAIN ch, c < start \/ c > end PROVE g.chunks[c] = ch[c]
      OBVIOUS
    <3>1. c \in Nat /\ c # end /\ (c < start \/ c >= end)
      BY <1>3, <1>5, <1>9, <1>10
    <3>2. c \in DOMAIN h3.chunks /\ h3.chunks[c] = ch[c]
      BY <1>18, <3>1
    <3> QED BY <1>20, <3>1, <3>2
  <2>4. g.chunks[start] = Chunk(ch[start].prev_chunk_size, y, FALSE)
    BY <1>18, <1>20, <2>1
  <2>5. end \in DOMAIN ch => g.chunks[end] = [ch[end] EXCEPT !.prev_chunk_size = y]
    BY <1>3, <1>19, <1>20
  <2> QED BY <2>1, <2>2, <2>3, <2>4, <2>5 DEF IsCut
<1>23. /\ FreeOf(g.chunks) = { c \in F : c < start \/ c >= end } \cup {start}
       /\ AllocatedOf(g.chunks) = { c \in AllocatedOf(ch) : c < start \/ c >= end }
       /\ \A c \in DOMAIN ch : c < start \/ c >= end => g.chunks[c].size = ch[c].size
  <2> DEFINE n == g.chunks
             e == start + 0 + y + 0
  <2> HIDE DEF n
  <2>1. /\ FreeOf(n) = { c \in FreeOf(ch) : c < start \/ c >= e }
                         \cup { c \in {start} : 0 # 0 } \cup { c \in {start + 0} : ~FALSE }
                         \cup { c \in {start + 0 + y} : 0 # 0 }
        /\ AllocatedOf(n) = { c \in AllocatedOf(ch) : c < start \/ c >= e }
                              \cup { c \in {start + 0} : FALSE }
        /\ \A c \in DOMAIN ch : c < start \/ c >= e => c \in DOMAIN n /\ n[c].size = ch[c].size
    <3>1. IsCut(n, ch, start, 0, y, 0, FALSE)
      BY <1>22 DEF n
    <3>2. CutSetsFacts(n, ch, start, 0, y, 0, FALSE)
      BY <1>2, <1>21, <3>1, CutSets
    <3> QED BY <3>2 DEF CutSetsFacts
  <2>2. start + 0 = start /\ e = end
    BY <1>9, <1>10, <1>11
  <2> QED BY <2>1, <2>2 DEF n
<1>24. { c \in F : c < start \/ c >= end } = F2
  <2>1. ASSUME NEW c \in F2 PROVE c \in F /\ (c < start \/ c >= end)
    BY <1>3, <1>4, <1>9, <1>10, <1>12, <2>1
  <2>2. ASSUME NEW c \in F, c < start \/ c >= end PROVE c \in F2
    <3>1. p1 => c # prev
      BY <1>3, <1>4, <1>5, <1>9, <1>10, <2>2 DEF start
    <3>2. p2 => c # next
      BY <1>3, <1>4, <1>5, <1>9, <2>2 DEF end
    <3> QED BY <3>1, <3>2
  <2> QED BY <2>1, <2>2
<1>25. Listed(g, FreeOf(g.chunks))
  BY <1>20, <1>23, <1>24
<1>26. \A c \in F : c + ch[c].size # start
  <2> SUFFICES ASSUME NEW c \in F, c + ch[c].size = start PROVE FALSE
    OBVIOUS
  <2>1. CASE p1
    BY <1>2, <1>7, <2>1 DEF Merged, start
  <2>2. CASE ~p1
    <3>1. start = chunk /\ chunk # 0
      BY <1>3, <1>4, <2>2 DEF start
    <3>2. c = prev
      BY <1>2, <1>4, <1>6, <3>1, SameEnd
    <3> QED BY <1>7, <2>2, <3>1, <3>2
  <2> QED BY <2>1, <2>2
<1>27. end \notin F
  <2>1. CASE p2
    BY <1>2, <1>8, <2>1 DEF Merged, end
  <2>2. CASE ~p2
    BY <1>8, <2>2 DEF end
  <2> QED BY <2>1, <2>2
<1>28. Sound(g)
  <2>1. /\ CutFits(h.chunks, start, 0, y, 0)
        /\ IsCut(g.chunks, h.chunks, start, 0, y, 0, FALSE)
        /\ \A c \in FreeOf(h.chunks) : c + h.chunks[c].size # start
    BY <1>21, <1>22, <1>26 DEF ch
  <2>2. start + 0 + y + 0 \notin FreeOf(h.chunks)
    <3>1. start + 0 + y + 0 = end
      BY <1>9, <1>10, <1>11
    <3> QED BY <1>27, <3>1 DEF ch
  <2>3. g.space \in 0 .. TOTAL_SPACE /\ h.space <= g.space
    BY <1>2, <1>20, SpaceIsNat
  <2> QED BY <1>20, <1>25, <2>1, <2>2, <2>3, SoundCut
<1>29. { c \in AllocatedOf(ch) : c < start \/ c >= end } = AllocatedOf(ch) \ {chunk}
  <2>1. ~(chunk < start \/ chunk >= end)
    BY <1>3, <1>4, <1>5, <1>9, <1>10
  <2>2. ASSUME NEW c \in AllocatedOf(ch), c # chunk PROVE c < start \/ c >= end
    <3> SUFFICES ASSUME c >= start, c < end PROVE FALSE
      BY <1>3, <1>9, <1>10 DEF AllocatedOf
    <3>1. (p1 /\ c = prev) \/ (p2 /\ c = next)
      BY <1>12, <2>2 DEF AllocatedOf
    <3> QED BY <1>7, <1>8, <2>2, <3>1 DEF AllocatedOf, FreeOf
  <2> QED BY <2>1, <2>2
<1>30. h.space <= g.space
  BY <1>2, <1>20, SpaceIsNat
<1> QED BY <1>1, <1>20, <1>23, <1>28, <1>29, <1>30 DEF Freed, ch, AllocatedOf

\* What an allocation or a change of size does for its caller: the chunk is allocated
\* with this size, all others are as they were, and no memory is given back.
Placed(g, h, chunk, size) ==
  /\ Sound(g) /\ g.base = h.base /\ h.space <= g.space
  /\ AllocatedOf(g.chunks) = AllocatedOf(h.chunks) \cup {chunk}
  /\ g.chunks[chunk].size = size
  /\ \A c \in AllocatedOf(h.chunks) : c # chunk => g.chunks[c].size = h.chunks[c].size

\* The header of a chunk has a new size and is otherwise the same.
Resized(g, h, chunk, size) == g.chunks[chunk] = [h.chunks[chunk] EXCEPT !.size = size]

LEMMA ResizedHeader ==
  ASSUME NEW header \in ChunkHeaders, header.allocated = TRUE, NEW size
  PROVE  [header EXCEPT !.size = size] = Chunk(header.prev_chunk_size, size, TRUE)
<1>1. PICK p, s, a : header = Chunk(p, s, a) /\ p = header.prev_chunk_size /\ a = header.allocated
  BY DEF ChunkHeaders, Chunk
<1>2. [Chunk(p, s, a) EXCEPT !.size = size] = Chunk(p, size, a)
  BY DEF Chunk
<1>3. [header EXCEPT !.size = size] = Chunk(p, size, a)
  BY <1>1, <1>2, Zenon
<1> QED BY <1>1, <1>3, Zenon

\* An allocated chunk has been given a new size, and the free chunk behind it, if there
\* was one, has been taken out of its list.
Unfastened(k, h, chunk, new_size, end) ==
  LET next == chunk + h.chunks[chunk].size
  IN  /\ IsHeap(k) /\ k.base = h.base
      /\ k.space \in 0 .. TOTAL_SPACE /\ h.space <= k.space
      /\ k.chunks[chunk] = Chunk(h.chunks[chunk].prev_chunk_size, new_size, TRUE)
      /\ \A c \in DOMAIN k.chunks : c # chunk => k.chunks[c] = h.chunks[c]
      /\ \/ /\ next \in FreeOf(h.chunks)
            /\ end = next + h.chunks[next].size
            /\ DOMAIN k.chunks = DOMAIN h.chunks \ {next}
            /\ Listed(k, FreeOf(h.chunks) \ {next})
         \/ /\ next \notin FreeOf(h.chunks)
            /\ end = next
            /\ DOMAIN k.chunks = DOMAIN h.chunks
            /\ Listed(k, FreeOf(h.chunks))

\* shrink_inplace and grow_inplace end alike: what is left behind the allocation
\* becomes a free chunk.
LEMMA ResizeOp ==
  ASSUME NEW h, Sound(h), NEW chunk \in AllocatedOf(h.chunks),
         NEW k, NEW new_size \in Nat \ {0}, NEW end,
         Unfastened(k, h, chunk, new_size, end),
         NEW rest, rest = chunk + new_size, NEW z \in Nat, rest + z = end,
         rest <= k.space, z # 0 => rest + 1 <= k.space,
         NEW v, v = IF z = 0 THEN new_size ELSE z
  PROVE  LET g == set_prev_chunk_size(register_free_space(k, rest, new_size, z), end, v)
         IN  Placed(g, h, chunk, new_size) /\ Resized(g, h, chunk, new_size)
<1> DEFINE ch   == h.chunks
           F    == FreeOf(ch)
           next == chunk + ch[chunk].size
           F2   == F \ {next}
           h3   == register_free_space(k, rest, new_size, z)
           g    == set_prev_chunk_size(h3, end, v)
<1> HIDE DEF ch, next, h3, g
<1>2. /\ IsHeap(h) /\ h.base \in Nat /\ h.space \in 0 .. TOTAL_SPACE
      /\ Tiled(ch) /\ Merged(ch) /\ Listed(h, F)
  BY DEF Sound, ch
<1>3. ASSUME NEW c \in DOMAIN ch
      PROVE  /\ c \in Nat /\ c < TOTAL_SPACE /\ ch[c].size \in Nat /\ ch[c].size # 0
             /\ ch[c].prev_chunk_size \in Nat /\ ch[c] \in ChunkHeaders
             /\ c + ch[c].size \in DOMAIN ch \cup {TOTAL_SPACE}
             /\ c + ch[c].size <= TOTAL_SPACE
  BY <1>2, TiledChunk
<1>4. chunk \in DOMAIN ch /\ chunk \notin F /\ F \subseteq DOMAIN ch
  BY DEF AllocatedOf, FreeOf, ch
<1>5. next \in DOMAIN ch \cup {TOTAL_SPACE} /\ next \in Nat /\ chunk < next
      /\ next <= TOTAL_SPACE
  BY <1>3, <1>4, SpaceIsNat DEF next
<1>6. /\ IsHeap(k) /\ k.base = h.base /\ k.space \in 0 .. TOTAL_SPACE /\ h.space <= k.space
      /\ k.chunks[chunk] = Chunk(ch[chunk].prev_chunk_size, new_size, TRUE)
      /\ \A c \in DOMAIN k.chunks : c # chunk => k.chunks[c] = ch[c]
      /\ \/ /\ next \in F /\ end = next + ch[next].size
            /\ DOMAIN k.chunks = DOMAIN ch \ {next} /\ Listed(k, F2)
         \/ /\ next \notin F /\ end = next
            /\ DOMAIN k.chunks = DOMAIN ch /\ Listed(k, F)
  BY DEF Unfastened, ch, next
<1>7. /\ Listed(k, F2)
      /\ DOMAIN k.chunks = DOMAIN ch \ { c \in {next} : next \in F }
      /\ next \in F => end = next + ch[next].size
      /\ next \notin F => end = next
  <2>1. next \notin F => F2 = F
    OBVIOUS
  <2> QED BY <1>6, <2>1
<1>8. end \in DOMAIN ch \cup {TOTAL_SPACE} /\ end \in Nat /\ next <= end /\ end <= TOTAL_SPACE
  <2>1. CASE next \in F
    BY <1>3, <1>4, <1>5, <1>7, <2>1, SpaceIsNat
  <2>2. CASE next \notin F
    BY <1>5, <1>7, <2>2
  <2> QED BY <2>1, <2>2
<1>9. rest \in Nat /\ chunk < rest /\ rest <= end /\ chunk \in Nat
  <2>1. chunk \in Nat
    BY <1>3, <1>4
  <2>2. rest \in Nat
    BY <2>1
  <2> QED BY <1>8, <2>1, <2>2
<1>10. ASSUME NEW c \in DOMAIN ch, c >= chunk, c < end
       PROVE  c = chunk \/ (next \in F /\ c = next)
  <2>1. \A d, f \in DOMAIN ch : d < f => d + ch[d].size <= f
    BY <1>2 DEF Tiled, Apart
  <2>2. c > chunk => next <= c
    BY <1>3, <1>4, <1>10, <2>1 DEF next
  <2>3. c > next => ~(next \in F)
    <3> SUFFICES ASSUME c > next, next \in F PROVE FALSE
      OBVIOUS
    <3>1. next + ch[next].size <= c
      BY <1>3, <1>4, <1>5, <2>1
    <3>2. end <= c
      BY <1>7, <3>1
    <3>3. c \in Nat /\ end \in Nat /\ c < end
      BY <1>3, <1>8, <1>10
    <3> QED BY <3>2, <3>3
  <2>4. c \in Nat /\ next \in Nat /\ chunk \in Nat /\ c >= chunk /\ c < end
    BY <1>3, <1>5, <1>9, <1>10
  <2>5. CASE c = chunk
    BY <2>5
  <2>6. CASE c # chunk
    <3>1. next <= c
      BY <2>2, <2>4, <2>6
    <3>2. next \in F
      <4> SUFFICES ASSUME next \notin F PROVE FALSE
        OBVIOUS
      <4>1. end = next
        BY <1>7
      <4> QED BY <2>4, <3>1, <4>1
    <3>3. c = next
      BY <2>3, <2>4, <3>1, <3>2
    <3> QED BY <3>2, <3>3
  <2> QED BY <2>5, <2>6
<1>11. z # 0 => rest \notin F2 /\ rest \notin DOMAIN k.chunks /\ rest < end
  <2> SUFFICES ASSUME z # 0 PROVE rest \notin F2 /\ rest \notin DOMAIN k.chunks /\ rest < end
    OBVIOUS
  <2>1. rest < end
    BY <1>8, <1>9
  <2>2. rest \in DOMAIN ch => next \in F /\ rest = next
    BY <1>3, <1>9, <1>10, <2>1
  <2> QED BY <1>4, <1>7, <2>1, <2>2
<1>12. RegisteredIfAny(h3, k, F2, rest, new_size, z)
  <2>1. rest # NULL
    BY <1>9 DEF NULL
  <2>2. z # 0 => rest \notin F2 /\ size_to_bin_round_down(z) \in Bins
    BY <1>11, BinOfSize
  <2> HIDE DEF F2
  <2>3. IsHeap(k) /\ Listed(k, F2)
    BY <1>6, <1>7
  <2> QED BY <2>1, <2>2, <2>3, RegisterIfAny DEF h3
<1> DEFINE R == { c \in {rest} : z # 0 }
           G == F2 \cup R
<1>13. /\ IsHeap(h3) /\ Listed(h3, G) /\ h3.base = h.base /\ h3.space = k.space
       /\ DOMAIN h3.chunks = DOMAIN k.chunks \cup R
       /\ \A c \in DOMAIN k.chunks : h3.chunks[c] = k.chunks[c]
       /\ z # 0 => h3.chunks[rest] = Chunk(new_size, z, FALSE)
  BY <1>6, <1>11, <1>12 DEF RegisteredIfAny
<1>14. /\ DOMAIN h3.chunks = { c \in DOMAIN ch : c < chunk \/ c >= end } \cup {chunk} \cup R
       /\ h3.chunks[chunk] = Chunk(ch[chunk].prev_chunk_size, new_size, TRUE)
       /\ \A c \in DOMAIN ch : c < chunk \/ c >= end => h3.chunks[c] = ch[c]
  <2>1. ASSUME NEW c \in DOMAIN ch, c < chunk \/ c >= end
        PROVE  c \in DOMAIN k.chunks /\ c # chunk
    <3>1. c # chunk
      BY <1>3, <1>5, <1>8, <1>9, <2>1
    <3>2. next \in F => c # next
      BY <1>3, <1>4, <1>5, <1>7, <1>9, <2>1
    <3> QED BY <1>7, <3>1, <3>2
  <2>2. ASSUME NEW c \in DOMAIN k.chunks, c # chunk
        PROVE  c \in DOMAIN ch /\ (c < chunk \/ c >= end)
    <3>1. c \in DOMAIN ch /\ ~(next \in F /\ c = next)
      BY <1>7
    <3> QED BY <1>3, <1>8, <1>9, <1>10, <2>2, <3>1
  <2>3. chunk \in DOMAIN k.chunks
    BY <1>4, <1>5, <1>7, <1>9
  <2> QED BY <1>6, <1>13, <2>1, <2>2, <2>3
<1>15. end < TOTAL_SPACE => end \in DOMAIN h3.chunks /\ h3.chunks[end] = ch[end]
                            /\ end \in DOMAIN ch
  BY <1>8, <1>14
<1>16. /\ IsHeap(g) /\ Listed(g, G) /\ g.base = h.base /\ g.space = k.space
       /\ DOMAIN g.chunks = DOMAIN h3.chunks
       /\ \A c \in DOMAIN h3.chunks :
            ~(c = end /\ end < TOTAL_SPACE) => g.chunks[c] = h3.chunks[c]
       /\ end < TOTAL_SPACE => g.chunks[end] = [h3.chunks[end] EXCEPT !.prev_chunk_size = v]
  <2>1. end < TOTAL_SPACE => end \in DOMAIN h3.chunks /\ h3.chunks[end] \in ChunkHeaders
    BY <1>3, <1>15
  <2> HIDE DEF G
  <2>3. LET r == set_prev_chunk_size(h3, end, v)
        IN  /\ IsHeap(r) /\ Listed(r, G) /\ r.base = h3.base /\ r.space = h3.space
            /\ PrevSet(r, h3, end, v)
    BY <1>13, <2>1, SetPrev
  <2> QED BY <1>13, <2>3 DEF g, PrevSet
<1>17. CutFits(ch, chunk, 0, new_size, z)
  BY <1>4, <1>8, <1>9 DEF CutFits
<1>s. /\ chunk + 0 = chunk /\ chunk + 0 + new_size = rest /\ chunk + 0 + new_size + z = end
      /\ chunk # end /\ (z # 0 => rest # end) /\ chunk # rest
  BY <1>8, <1>9
<1>18. IsCut(g.chunks, ch, chunk, 0, new_size, z, TRUE)
  <2>2. DOMAIN g.chunks = { c \in DOMAIN ch : c < chunk \/ c >= end } \cup {chunk} \cup R
    BY <1>14, <1>16
  <2>3. \A c \in DOMAIN ch : c < chunk \/ c > end => g.chunks[c] = ch[c]
    <3> SUFFICES ASSUME NEW c \in DOMAIN ch, c < chunk \/ c > end PROVE g.chunks[c] = ch[c]
      OBVIOUS
    <3>1. c \in Nat /\ c # end /\ (c < chunk \/ c >= end)
      BY <1>3, <1>8, <1>9
    <3>2. c \in DOMAIN h3.chunks /\ h3.chunks[c] = ch[c]
      BY <1>14, <3>1
    <3> QED BY <1>16, <3>1, <3>2
  <2>4. g.chunks[chunk] = Chunk(ch[chunk].prev_chunk_size, new_size, TRUE)
    BY <1>14, <1>16, <1>s
  <2>5. end \in DOMAIN ch => g.chunks[end] = [ch[end] EXCEPT !.prev_chunk_size = v]
    BY <1>3, <1>15, <1>16
  <2>6. z # 0 => g.chunks[rest] = Chunk(new_size, z, FALSE)
    BY <1>13, <1>16, <1>s
  <2> QED BY <1>s, <2>2, <2>3, <2>4, <2>5, <2>6 DEF IsCut
<1>19. /\ FreeOf(g.chunks) = { c \in F : c < chunk \/ c >= end } \cup R
       /\ AllocatedOf(g.chunks) = { c \in AllocatedOf(ch) : c < chunk \/ c >= end } \cup {chunk}
       /\ \A c \in DOMAIN ch : c < chunk \/ c >= end => g.chunks[c].size = ch[c].size
       /\ g.chunks[chunk].size = new_size
  <2> DEFINE n == g.chunks
  <2> HIDE DEF n
  <2>1. IsCut(n, ch, chunk, 0, new_size, z, TRUE)
    BY <1>18 DEF n
  <2>2. CutSetsFacts(n, ch, chunk, 0, new_size, z, TRUE)
    BY <1>2, <1>17, <2>1, CutSets
  <2> QED BY <1>s, <2>2 DEF CutSetsFacts, n
<1>20. { c \in F : c < chunk \/ c >= end } = F2
  <2>1. ASSUME NEW c \in F2 PROVE c \in F /\ (c < chunk \/ c >= end)
    BY <1>3, <1>4, <1>8, <1>9, <1>10, <2>1
  <2>2. ASSUME NEW c \in F, c < chunk \/ c >= end PROVE c \in F2
    BY <1>3, <1>4, <1>5, <1>7, <1>9, <2>2
  <2> QED BY <2>1, <2>2
<1>21. Listed(g, FreeOf(g.chunks))
  BY <1>16, <1>19, <1>20
<1>22. end \notin F
  <2>1. CASE next \in F
    BY <1>2, <1>7, <2>1 DEF Merged
  <2>2. CASE next \notin F
    BY <1>7, <2>2
  <2> QED BY <2>1, <2>2
<1>23. Sound(g)
  <2>1. /\ CutFits(h.chunks, chunk, 0, new_size, z)
        /\ IsCut(g.chunks, h.chunks, chunk, 0, new_size, z, TRUE)
        /\ chunk + 0 + new_size + z \notin FreeOf(h.chunks)
    BY <1>17, <1>18, <1>22, <1>s DEF ch
  <2>2. g.space \in 0 .. TOTAL_SPACE /\ h.space <= g.space
    BY <1>6, <1>16
  <2>3. /\ chunk + 0 + new_size <= g.space
        /\ z # 0 => chunk + 0 + new_size + 1 <= g.space
    BY <1>16, <1>s
  <2> QED BY <1>16, <1>21, <2>1, <2>2, <2>3, SoundCut
<1>24. { c \in AllocatedOf(ch) : c < chunk \/ c >= end } = AllocatedOf(ch) \ {chunk}
  <2>1. ~(chunk < chunk \/ chunk >= end)
    BY <1>8, <1>9
  <2>2. ASSUME NEW c \in AllocatedOf(ch), c # chunk PROVE c < chunk \/ c >= end
    <3> SUFFICES ASSUME c >= chunk, c < end PROVE FALSE
      BY <1>3, <1>8, <1>9 DEF AllocatedOf
    <3>1. next \in F /\ c = next
      BY <1>10, <2>2 DEF AllocatedOf
    <3> QED BY <2>2, <3>1 DEF AllocatedOf, FreeOf
  <2> QED BY <2>1, <2>2
<1>25. AllocatedOf(g.chunks) = AllocatedOf(ch) \cup {chunk}
  BY <1>19, <1>24
<1>26. \A c \in AllocatedOf(ch) : c # chunk => g.chunks[c].size = ch[c].size
  BY <1>19, <1>24 DEF AllocatedOf
<1>27. Placed(g, h, chunk, new_size)
  BY <1>6, <1>16, <1>19, <1>23, <1>25, <1>26 DEF Placed, ch
<1>28. Resized(g, h, chunk, new_size)
  <2>1. g.chunks[chunk] = Chunk(ch[chunk].prev_chunk_size, new_size, TRUE)
    BY <1>18, <1>s DEF IsCut
  <2>2. ch[chunk] \in ChunkHeaders /\ ch[chunk].allocated
    BY <1>3, <1>4 DEF AllocatedOf, ch
  <2>3. ch[chunk].allocated = TRUE
    BY <2>2 DEF ChunkHeaders
  <2>4. [ch[chunk] EXCEPT !.size = new_size] = Chunk(ch[chunk].prev_chunk_size, new_size, TRUE)
    BY <2>2, <2>3, ResizedHeader
  <2> QED BY <2>1, <2>4 DEF Resized, ch
<1> QED BY <1>27, <1>28 DEF g, h3

\* Writing the size word of an allocated chunk leaves the lists alone.
SizeWritten(g, h, F, chunk, s) ==
  /\ IsHeap(g) /\ Listed(g, F) /\ g.base = h.base /\ g.space = h.space
  /\ DOMAIN g.chunks = DOMAIN h.chunks
  /\ g.chunks[chunk] = Chunk(h.chunks[chunk].prev_chunk_size, s, TRUE)
  /\ \A c \in DOMAIN h.chunks : c # chunk => g.chunks[c] = h.chunks[c]

LEMMA WriteSize ==
  ASSUME NEW h, IsHeap(h), NEW F, Listed(h, F), NEW chunk, chunk \notin F,
         chunk \in DOMAIN h.chunks, h.chunks[chunk] \in ChunkHeaders,
         h.chunks[chunk].allocated, NEW s
  PROVE  SizeWritten([h EXCEPT !.chunks[chunk].size = s], h, F, chunk, s)
<1> DEFINE n == [h.chunks EXCEPT ![chunk].size = s]
           g == [h EXCEPT !.chunks[chunk].size = s]
<1>1. g = [h EXCEPT !.chunks = n]
  OBVIOUS
<1>2. /\ DOMAIN n = DOMAIN h.chunks
      /\ n[chunk] = [h.chunks[chunk] EXCEPT !.size = s]
      /\ \A c \in DOMAIN h.chunks : c # chunk => n[c] = h.chunks[c]
  OBVIOUS
<1> HIDE DEF g, n
<1>3. n[chunk] = Chunk(h.chunks[chunk].prev_chunk_size, s, TRUE)
  <2>1. h.chunks[chunk].allocated = TRUE
    BY DEF ChunkHeaders
  <2> QED BY <1>2, <2>1 DEF ChunkHeaders, Chunk
<1>4. /\ IsHeap(g) /\ g.base = h.base /\ g.space = h.space /\ g.chunks = n
      /\ g.first = h.first /\ g.links = h.links /\ g.mask = h.mask
  BY <1>1 DEF IsHeap
<1>5. F \subseteq DOMAIN g.chunks /\ \A c \in F : g.chunks[c].size = h.chunks[c].size
  BY <1>2, <1>4 DEF Listed
<1>6. Listed(g, F)
  BY <1>4, <1>5, ListedFrame
<1> QED BY <1>2, <1>3, <1>4, <1>6 DEF g, SizeWritten

\* shrink_inplace, for a size that its addition does not wrap.
LEMMA ShrinkOp ==
  ASSUME NEW h, Sound(h), NEW chunk \in AllocatedOf(h.chunks), NEW pointer,
         chunk_of(h, pointer) = chunk, NEW size \in 1 .. SIZE_MAX - 1
  PROVE  IF size + 1 >= h.chunks[chunk].size
           THEN shrink_inplace(h, pointer, size) = h
           ELSE /\ Placed(shrink_inplace(h, pointer, size), h, chunk, size + 1)
                /\ Resized(shrink_inplace(h, pointer, size), h, chunk, size + 1)
<1> DEFINE ch   == h.chunks
           F    == FreeOf(ch)
           new  == (size + HEADER_SIZE) % (SIZE_MAX + 1)
           next == chunk + ch[chunk].size
           h1   == [h EXCEPT !.chunks[chunk].size = new]
           p2   == is_free(h1, next)
           h2   == IF p2 THEN forget(unregister(h1, next), next) ELSE h1
           end  == IF p2 THEN next + ch[next].size ELSE next
           rest == chunk + new
           z    == end - rest
           g    == set_prev_chunk_size(register_free_space(h2, rest, new, z), end, z)
<1>1. shrink_inplace(h, pointer, size) = IF new >= ch[chunk].size THEN h ELSE g
  BY SizeClassConstants DEF shrink_inplace, shrunk_chunk_size
<1>2. new = size + 1 /\ size \in Nat /\ size # 0 /\ new \in Nat \ {0}
  <2>1. SIZE_MAX \in Nat /\ size + 1 \in 0 .. SIZE_MAX
    BY SizeClassConstants
  <2> QED BY <2>1 DEF HEADER_SIZE
<1> HIDE DEF ch, new, next, h1, p2, h2, end, rest, z, g
<1>3. CASE new >= ch[chunk].size
  BY <1>1, <1>2, <1>3 DEF ch
<1>4. CASE ~(new >= ch[chunk].size)
  <2>1. /\ IsHeap(h) /\ h.base \in Nat /\ h.space \in 0 .. TOTAL_SPACE
        /\ Tiled(ch) /\ Merged(ch) /\ Listed(h, F)
    BY DEF Sound, ch
  <2>2. ASSUME NEW c \in DOMAIN ch
        PROVE  /\ c \in Nat /\ c < TOTAL_SPACE /\ ch[c].size \in Nat /\ ch[c].size # 0
               /\ ch[c] \in ChunkHeaders
               /\ c + ch[c].size \in DOMAIN ch \cup {TOTAL_SPACE}
    BY <2>1, TiledChunk
  <2>3. chunk \in DOMAIN ch /\ chunk \notin F /\ F \subseteq DOMAIN ch /\ ch[chunk].allocated
    BY DEF AllocatedOf, FreeOf, ch
  <2>4. next \in DOMAIN ch \cup {TOTAL_SPACE} /\ next \in Nat /\ chunk < next /\ chunk \in Nat
    BY <2>2, <2>3, SpaceIsNat DEF next
  <2>5. /\ IsHeap(h1) /\ Listed(h1, F) /\ h1.base = h.base /\ h1.space = h.space
        /\ DOMAIN h1.chunks = DOMAIN ch
        /\ h1.chunks[chunk] = Chunk(ch[chunk].prev_chunk_size, new, TRUE)
        /\ \A c \in DOMAIN ch : c # chunk => h1.chunks[c] = ch[c]
    <3>1. chunk \in DOMAIN h.chunks /\ h.chunks[chunk] \in ChunkHeaders /\ h.chunks[chunk].allocated
      BY <2>2, <2>3 DEF ch
    <3>2. SizeWritten(h1, h, F, chunk, new)
      BY <2>1, <2>3, <3>1, WriteSize DEF h1
    <3> QED BY <3>2 DEF SizeWritten, ch
  <2>6. p2 <=> next \in F
    <3>1. next \in DOMAIN ch <=> next < TOTAL_SPACE
      BY <2>2, <2>4, SpaceIsNat
    <3>2. next \in DOMAIN ch => h1.chunks[next] = ch[next]
      BY <2>4, <2>5
    <3> QED BY <3>1, <3>2 DEF p2, is_free, FreeOf
  <2>7. rest \in Nat /\ rest < next /\ rest = chunk + new
    BY <1>2, <1>4, <2>2, <2>3, <2>4 DEF rest, next
  <2>8. end \in Nat /\ next <= end
    <3>1. CASE p2
      BY <2>2, <2>3, <2>4, <2>6, <3>1 DEF end
    <3>2. CASE ~p2
      BY <2>4, <3>2 DEF end
    <3> QED BY <3>1, <3>2
  <2>9. z \in Nat /\ z # 0 /\ rest + z = end
    BY <2>4, <2>7, <2>8 DEF z
  <2>10. Unfastened(h2, h, chunk, new, end)
    <3>1. CASE p2
      <4> DEFINE u == unregister(h1, next)
      <4>1. /\ IsHeap(u) /\ Listed(u, F \ {next})
            /\ u.base = h1.base /\ u.space = h1.space /\ u.chunks = h1.chunks
        BY <2>5, <2>6, <3>1, Unregister
      <4> HIDE DEF u
      <4>2. next \notin F \ {next}
        OBVIOUS
      <4>3. /\ IsHeap(forget(u, next)) /\ Listed(forget(u, next), F \ {next})
            /\ forget(u, next).base = u.base /\ forget(u, next).space = u.space
            /\ forget(u, next).chunks = Without(u.chunks, next)
        BY <4>1, <4>2, Forget
      <4>4. /\ IsHeap(h2) /\ Listed(h2, F \ {next}) /\ h2.base = h.base /\ h2.space = h.space
            /\ h2.chunks = Without(h1.chunks, next)
        BY <2>5, <3>1, <4>1, <4>3 DEF h2, u
      <4>5. /\ DOMAIN h2.chunks = DOMAIN ch \ {next}
            /\ \A c \in DOMAIN h2.chunks : h2.chunks[c] = h1.chunks[c]
        BY <2>5, <4>4 DEF Without
      <4>6. chunk \in DOMAIN h2.chunks
        BY <2>3, <2>4, <4>5
      <4>7. /\ h2.chunks[chunk] = Chunk(ch[chunk].prev_chunk_size, new, TRUE)
            /\ \A c \in DOMAIN h2.chunks : c # chunk => h2.chunks[c] = ch[c]
        BY <2>5, <4>5, <4>6
      <4>8. h2.space \in 0 .. TOTAL_SPACE /\ h.space <= h2.space
        BY <2>1, <4>4, SpaceIsNat
      <4>9. next \in F /\ end = next + ch[next].size
        BY <2>6, <3>1 DEF end
      <4> QED BY <4>4, <4>5, <4>7, <4>8, <4>9 DEF Unfastened, ch, next
    <3>2. CASE ~p2
      <4>1. h2 = h1 /\ next \notin F /\ end = next
        BY <2>6, <3>2 DEF h2, end
      <4>2. h2.space \in 0 .. TOTAL_SPACE /\ h.space <= h2.space
        BY <2>1, <2>5, <4>1, SpaceIsNat
      <4> QED BY <2>5, <4>1, <4>2 DEF Unfastened, ch, next
    <3> QED BY <3>1, <3>2
  <2>11. rest <= h2.space /\ rest + 1 <= h2.space
    <3>1. h2.space \in 0 .. TOTAL_SPACE /\ h.space <= h2.space
      BY <2>10 DEF Unfastened
    <3>2. next <= h.space
      BY <2>3 DEF Sound, Committed, ch, next
    <3> QED BY <2>1, <2>4, <2>7, <3>1, <3>2, SpaceIsNat
  <2>12. z = IF z = 0 THEN new ELSE z
    BY <2>9
  <2>13. Placed(g, h, chunk, new) /\ Resized(g, h, chunk, new)
    BY <1>2, <2>7, <2>9, <2>10, <2>11, <2>12, ResizeOp DEF g
  <2> QED BY <1>1, <1>2, <1>4, <2>13 DEF ch
<1> QED BY <1>3, <1>4

\* What grow_inplace may return.
Grown(r, h, chunk, size) ==
  \/ r.heap = h /\ r.ret = NULL
  \/ /\ r.heap = h /\ h.chunks[chunk].size >= size + 1
     /\ r.ret = h.chunks[chunk].size - 1
  \/ /\ h.chunks[chunk].size < size + 1
     /\ Placed(r.heap, h, chunk, size + 1)
     /\ r.ret = size

\* grow_inplace takes what it needs from the free chunk behind, or does nothing.
LEMMA GrowOp ==
  ASSUME NEW h, Sound(h), NEW chunk \in AllocatedOf(h.chunks), NEW pointer,
         chunk_of(h, pointer) = chunk, NEW size \in Nat
  PROVE  Grown(grow_inplace(h, pointer, size), h, chunk, size)
<1> DEFINE ch    == h.chunks
           F     == FreeOf(ch)
           cur   == ch[chunk].size
           new   == size + HEADER_SIZE
           next  == chunk + cur
           avail == cur + ch[next].size
           z     == avail - new
           rest  == chunk + new
           upto  == end_offset_for(rest, z)
           h0    == committed(h, upto)
           h1    == unregister(h0, next)
           w     == [h1 EXCEPT !.chunks[chunk].size = new]
           h2    == forget(w, next)
           v     == IF z = 0 THEN new ELSE z
           g     == set_prev_chunk_size(register_free_space(h2, rest, new, z), rest + z, v)
           ok    == is_free(h, next) /\ avail >= new
                      /\ (h.space < upto => expand_memory_until(upto))
<1>1. grow_inplace(h, pointer, size)
        = IF new > SIZE_MAX THEN returns(h, NULL)
          ELSE IF cur >= new THEN returns(h, cur - HEADER_SIZE)
          ELSE IF ok THEN returns(g, size)
          ELSE returns(h, NULL)
  BY DEF grow_inplace
<1>2. new = size + 1 /\ new \in Nat \ {0}
  BY DEF HEADER_SIZE
<1>3. \A a, b : returns(a, b).heap = a /\ returns(a, b).ret = b
  BY DEF returns
<1> HIDE DEF ch, cur, new, next, avail, z, rest, upto, h0, h1, w, h2, v, g, ok
<1>4. ASSUME ~(cur >= new), ok PROVE Placed(g, h, chunk, new)
  <2>1. /\ IsHeap(h) /\ h.base \in Nat /\ h.space \in 0 .. TOTAL_SPACE
        /\ Tiled(ch) /\ Merged(ch) /\ Listed(h, F)
    BY DEF Sound, ch
  <2>2. ASSUME NEW c \in DOMAIN ch
        PROVE  /\ c \in Nat /\ c < TOTAL_SPACE /\ ch[c].size \in Nat /\ ch[c].size # 0
               /\ ch[c] \in ChunkHeaders
               /\ c + ch[c].size \in DOMAIN ch \cup {TOTAL_SPACE}
               /\ c + ch[c].size <= TOTAL_SPACE
    BY <2>1, TiledChunk
  <2>3. chunk \in DOMAIN ch /\ chunk \notin F /\ F \subseteq DOMAIN ch /\ ch[chunk].allocated
    BY DEF AllocatedOf, FreeOf, ch
  <2>4. next \in DOMAIN ch \cup {TOTAL_SPACE} /\ next \in Nat /\ chunk < next
        /\ chunk \in Nat /\ cur \in Nat /\ next = chunk + cur
    BY <2>2, <2>3, SpaceIsNat DEF next, cur
  <2>5. next \in F
    <3>1. next < TOTAL_SPACE /\ ~ch[next].allocated
      BY <1>4 DEF ok, is_free, ch
    <3> QED BY <2>4, <3>1, SpaceIsNat DEF FreeOf
  <2> DEFINE end == next + ch[next].size
  <2>6. end \in Nat /\ end <= TOTAL_SPACE /\ ch[next].size \in Nat
    BY <2>2, <2>3, <2>4, <2>5, SpaceIsNat
  <2>7. z \in Nat /\ rest \in Nat /\ rest + z = end /\ rest = chunk + new
    <3>1. avail >= new /\ avail \in Nat
      BY <1>4, <2>4, <2>6 DEF ok, avail
    <3>2. z \in Nat /\ rest \in Nat
      BY <1>2, <2>4, <3>1 DEF z, rest
    <3>3. rest + z = end
      BY <1>2, <2>4, <2>6 DEF rest, z, avail
    <3> QED BY <3>2, <3>3 DEF rest
  <2> HIDE DEF end
  <2>8. /\ upto \in Nat /\ upto <= end /\ rest <= upto
        /\ z # 0 => rest + 1 <= upto
    BY <2>6, <2>7 DEF upto, end_offset_for, FREE_CHUNK_HEADER_SIZE
  <2>9. /\ IsHeap(h0) /\ Listed(h0, F) /\ h0.base = h.base /\ h0.chunks = ch
        /\ h0.space = IF h.space < upto THEN upto ELSE h.space
    BY <2>1, Commit DEF h0, ch
  <2>10. /\ h0.space \in 0 .. TOTAL_SPACE /\ h.space <= h0.space /\ upto <= h0.space
    BY <2>1, <2>6, <2>8, <2>9, SpaceIsNat
  <2>11. /\ IsHeap(h1) /\ Listed(h1, F \ {next})
         /\ h1.base = h0.base /\ h1.space = h0.space /\ h1.chunks = h0.chunks
    BY <2>5, <2>9, Unregister DEF h1
  <2>12. /\ IsHeap(w) /\ Listed(w, F \ {next}) /\ w.base = h1.base /\ w.space = h1.space
         /\ DOMAIN w.chunks = DOMAIN ch
         /\ w.chunks[chunk] = Chunk(ch[chunk].prev_chunk_size, new, TRUE)
         /\ \A c \in DOMAIN ch : c # chunk => w.chunks[c] = ch[c]
    <3>1. /\ chunk \in DOMAIN h1.chunks /\ h1.chunks[chunk] \in ChunkHeaders
          /\ h1.chunks[chunk].allocated /\ chunk \notin F \ {next}
      BY <2>2, <2>3, <2>9, <2>11
    <3>2. SizeWritten(w, h1, F \ {next}, chunk, new)
      BY <2>11, <3>1, WriteSize DEF w
    <3> QED BY <2>9, <2>11, <3>2 DEF SizeWritten
  <2>13. /\ IsHeap(h2) /\ Listed(h2, F \ {next}) /\ h2.base = w.base /\ h2.space = w.space
         /\ h2.chunks = Without(w.chunks, next)
    <3>1. next \notin F \ {next}
      OBVIOUS
    <3> QED BY <2>12, <3>1, Forget DEF h2
  <2>14. /\ DOMAIN h2.chunks = DOMAIN ch \ {next}
         /\ \A c \in DOMAIN h2.chunks : h2.chunks[c] = w.chunks[c]
    BY <2>12, <2>13 DEF Without
  <2>15. chunk \in DOMAIN h2.chunks
    BY <2>3, <2>4, <2>14
  <2>16. /\ h2.chunks[chunk] = Chunk(ch[chunk].prev_chunk_size, new, TRUE)
         /\ \A c \in DOMAIN h2.chunks : c # chunk => h2.chunks[c] = ch[c]
    BY <2>12, <2>14, <2>15
  <2>17. h2.space = h0.space /\ h2.base = h.base
    BY <2>9, <2>11, <2>12, <2>13
  <2>18. Unfastened(h2, h, chunk, new, end)
    BY <2>5, <2>10, <2>13, <2>14, <2>16, <2>17 DEF Unfastened, ch, next, cur, end
  <2>19. rest <= h2.space /\ (z # 0 => rest + 1 <= h2.space)
    BY <2>7, <2>8, <2>10, <2>17, SpaceIsNat
  <2>20. g = set_prev_chunk_size(register_free_space(h2, rest, new, z), end, v)
    BY <2>7 DEF g
  <2>21. v = IF z = 0 THEN new ELSE z
    BY DEF v
  <2> QED BY <1>2, <2>7, <2>18, <2>19, <2>20, <2>21, ResizeOp
<1>5. CASE new > SIZE_MAX
  BY <1>1, <1>3, <1>5 DEF Grown
<1>6. CASE ~(new > SIZE_MAX) /\ cur >= new
  BY <1>1, <1>2, <1>3, <1>6 DEF Grown, cur, ch, HEADER_SIZE
<1>7. CASE ~(new > SIZE_MAX) /\ ~(cur >= new) /\ ok
  <2>1. grow_inplace(h, pointer, size).heap = g /\ grow_inplace(h, pointer, size).ret = size
    BY <1>1, <1>3, <1>7
  <2>2. cur < new
    <3>1. cur \in Nat
      BY TiledChunk DEF Sound, AllocatedOf, cur, ch
    <3> QED BY <1>2, <1>7, <3>1
  <2> QED BY <1>2, <1>4, <1>7, <2>1, <2>2 DEF Grown, cur, ch
<1>8. CASE ~(new > SIZE_MAX) /\ ~(cur >= new) /\ ~ok
  BY <1>1, <1>3, <1>8 DEF Grown
<1> QED BY <1>5, <1>6, <1>7, <1>8

\* align_offset moves an offset up by less than the alignment, to an aligned address.
LEMMA AlignOffset ==
  ASSUME NEW x \in Nat, NEW a \in Nat \ {0}, NEW b \in Nat
  PROVE  LET o == align_offset(x, a, b)
         IN  o \in Nat /\ x <= o /\ o <= x + a - 1 /\ (b + o) % a = 0
<1> DEFINE t == b + x + a - 1
           q == t \div a
           r == t % a
           o == align_offset(x, a, b)
<1>1. t \in Nat
  OBVIOUS
<1> HIDE DEF t
<1>2. q \in Nat /\ r \in 0 .. a - 1 /\ t = a * q + r
  BY <1>1, DivMod
<1>3. o = q * a - b
  BY DEF align_offset, t
<1> HIDE DEF q, r, o
<1>4. q * a = a * q /\ q * a \in Nat
  BY <1>2
<1>5. o = x + a - 1 - r
  BY <1>2, <1>3, <1>4 DEF t
<1>6. b + o = q * a + 0
  BY <1>3, <1>4, <1>5, <1>2
<1>7. (q * a + 0) % a = 0
  <2>1. 0 \in 0 .. a - 1
    OBVIOUS
  <2> QED BY <1>2, <2>1, DivModUnique
<1> QED BY <1>2, <1>5, <1>6, <1>7 DEF o

\* The bin alloc chooses has a head: the mask never points to an empty list.
LEMMA FindBin ==
  ASSUME NEW h, NEW F, Listed(h, F), NEW min_size \in Nat \ {0},
         find_bin(h, min_size) # None
  PROVE  /\ find_bin(h, min_size).index \in Bins
         /\ h.first[find_bin(h, min_size).index] \in F
<1>1. /\ h.mask \in BitMasks /\ Summarised(h.mask)
      /\ Bits(h.mask) = { b \in Bins : h.first[b] # NULL }
      /\ h.first \in [Bins -> F \cup {NULL}]
  BY DEF Listed, Masked, ListsTyped
<1>2. ASSUME NEW i \in Bins, find_first(h.mask, bitmask_index(i)) # None
      PROVE  /\ find_first(h.mask, bitmask_index(i)).index \in Bins
             /\ h.first[find_first(h.mask, bitmask_index(i)).index] \in F
  <2> DEFINE after == { b \in Bits(h.mask) : b >= i }
  <2>1. i \in Indices
    BY BinInRange
  <2>2. find_first(h.mask, bitmask_index(i))
          = IF after = {} THEN None ELSE bitmask_index(Min(after))
    BY <1>1, <2>1, FindFirst
  <2>3. after # {} /\ after \in SUBSET Nat
    BY <1>1, <1>2, <2>2, BinsExist DEF Bins
  <2>4. Min(after) \in after
    BY <2>3, MinIsLeast
  <2>5. find_first(h.mask, bitmask_index(i)).index = Min(after)
    BY <2>2, <2>3 DEF bitmask_index
  <2> QED BY <1>1, <2>4, <2>5
<1>3. size_to_bin_round_down(min_size) \in Bins /\ size_to_bin_round_up(min_size) \in Bins
  BY BinOfSize
<1> QED BY <1>2, <1>3 DEF find_bin

\* A list with chunks has a head.
LEMMA ListHasHead ==
  ASSUME NEW h, NEW F, Listed(h, F), NEW c \in F
  PROVE  bin_of(h, c) \in Bins /\ h.first[bin_of(h, c)] # NULL
<1> DEFINE bin == bin_of(h, c)
           S   == { d \in F : bin_of(h, d) = bin }
<1>1. /\ NULL \notin F /\ ListsTyped(h, F) /\ ForwardLinked(h, F) /\ BackwardLinked(h, F)
      /\ Anchored(h, F) /\ bin \in Bins
  BY DEF Listed
<1>2. S \in SUBSET F /\ S # {}
  OBVIOUS
<1>3. PICK d \in S : h.links[d].prev_in_list \notin S
  BY <1>1, <1>2 DEF Anchored
<1>4. h.links[d].prev_in_list \in F \cup {NULL}
  BY <1>1 DEF ListsTyped
<1>5. CASE h.links[d].prev_in_list = NULL
  BY <1>1, <1>5 DEF BackwardLinked
<1>6. CASE h.links[d].prev_in_list # NULL
  <2> DEFINE p == h.links[d].prev_in_list
  <2>1. p \in F /\ h.links[p].next_in_list = d
    BY <1>1, <1>4, <1>6 DEF BackwardLinked
  <2>2. bin_of(h, d) = bin_of(h, p)
    BY <1>1, <2>1 DEF ForwardLinked
  <2> QED BY <1>3, <2>1, <2>2
<1> QED BY <1>5, <1>6

\* alloc finds a chunk when there is one in a bin whose chunks all fit: it takes the
\* head of the first such bin, which is large enough.
LEMMA FittingIsFound ==
  ASSUME NEW h, NEW F, Listed(h, F), \A d \in F : h.chunks[d].size \in Nat \ {0},
         NEW align \in Nat \ {0}, NEW size \in Nat,
         min_size_for(align, size) <= MAX_ALLOCATION_SIZE,
         NEW c \in F, bin_of(h, c) >= size_to_bin_round_up(min_size_for(align, size))
  PROVE  has_chunk_for(h, align, size)
<1> DEFINE min   == min_size_for(align, size)
           up    == size_to_bin_round_up(min)
           after == { b \in Bits(h.mask) : b >= up }
           found == Min(after)
<1>1. min \in 1 .. MAX_ALLOCATION_SIZE
  BY SizeClassConstants DEF min_size_for, HEADER_SIZE
<1> HIDE DEF min
<1>2. up \in Bins /\ up \in Indices
  BY <1>1, BinsExist, BinInRange
<1>3. /\ h.mask \in BitMasks /\ Summarised(h.mask)
      /\ Bits(h.mask) = { b \in Bins : h.first[b] # NULL }
      /\ h.first \in [Bins -> F \cup {NULL}] /\ HeadsLinked(h)
  BY DEF Listed, Masked, ListsTyped
<1>4. bin_of(h, c) \in after
  BY <1>3, ListHasHead DEF min
<1>5. after \in SUBSET Nat
  BY <1>3, BinsExist DEF Bins
<1>6. found \in after
  BY <1>4, <1>5, MinIsLeast
<1>7. find_first(h.mask, bitmask_index(up)) = bitmask_index(found)
  BY <1>2, <1>3, <1>4, FindFirst
<1> HIDE DEF found
<1>8. bitmask_index(found) # None /\ bitmask_index(found).index = found
  <2>1. found \in Bins
    BY <1>3, <1>6
  <2>2. bitmask_index(found).secondary \in 0 .. MASK_BITS - 1
    BY <2>1, BinInRange
  <2>3. None.secondary \notin 0 .. MASK_BITS - 1
    BY SizeClassConstants DEF None, NoBit
  <2>4. bitmask_index(found).index = found
    BY DEF bitmask_index
  <2> QED BY <2>2, <2>3, <2>4
<1>9. find_bin(h, min) # None /\ find_bin(h, min).index = found
  BY <1>7, <1>8 DEF find_bin
<1>10. found \in Bins /\ h.first[found] \in F /\ bin_of(h, h.first[found]) = found /\ found >= up
  BY <1>3, <1>6 DEF HeadsLinked
<1>11. h.chunks[h.first[found]].size >= min
  BY <1>1, <1>10, BinFits DEF bin_of
<1> QED BY <1>1, <1>9, <1>11 DEF has_chunk_for, min

\* Cutting the head of a bin into free space, allocation and free space.
LEMMA CarveOp ==
  ASSUME NEW h, Sound(h), NEW bin \in Bins, NEW chunk \in FreeOf(h.chunks),
         h.first[bin] = chunk, NEW align \in Nat \ {0}, NEW size \in Nat,
         h.chunks[chunk].size >= min_size_for(align, size),
         NEW at, at = placement(h, chunk, align, size)
  PROVE  /\ Placed(carve(h, bin, at, size), h, at.header, size + 1)
         /\ at.header \in Nat /\ at.header \notin AllocatedOf(h.chunks)
         /\ (h.base + at.header + 1) % align = 0
<1> DEFINE ch  == h.chunks
           F   == FreeOf(ch)
           F1  == F \ {chunk}
           x   == at.lhs
           y   == size + HEADER_SIZE
           z   == at.rhs
           hdr == at.header
           nxt == hdr + y
           end == nxt + z
           bef == ch[chunk].prev_chunk_size
           v   == IF x = 0 THEN bef ELSE x
           u   == IF z = 0 THEN y ELSE z
           k0  == committed(h, at.end_offset)
           k1  == unregister_free_space_first_chunk(k0, chunk, bin)
           k2  == register_free_space(k1, chunk, bef, x)
           k3  == register_allocation(k2, hdr, v, y)
           k4  == register_free_space(k3, nxt, y, z)
           g   == set_prev_chunk_size(k4, end, u)
<1>1. carve(h, bin, at, size) = g
  BY DEF carve
<1>2. y = size + 1 /\ y \in Nat \ {0}
  BY DEF HEADER_SIZE
<1>3. /\ IsHeap(h) /\ h.base \in Nat /\ h.space \in 0 .. TOTAL_SPACE
      /\ Tiled(ch) /\ Merged(ch) /\ Listed(h, F)
  BY DEF Sound
<1> DEFINE data == align_offset(chunk + HEADER_SIZE, align, h.base)
<1>4. /\ hdr = data - HEADER_SIZE /\ x = hdr - chunk
      /\ z = ch[chunk].size - size - x - HEADER_SIZE
      /\ at.end_offset = end_offset_for(data + size, z)
  BY DEF placement, free_space_after
<1> HIDE DEF ch, x, y, z, hdr, nxt, end, bef, v, u, k0, k1, k2, k3, k4, g, data
<1>5. ASSUME NEW c \in DOMAIN ch
      PROVE  /\ c \in Nat /\ c < TOTAL_SPACE /\ ch[c].size \in Nat /\ ch[c].size # 0
             /\ ch[c] \in ChunkHeaders
             /\ c + ch[c].size \in DOMAIN ch \cup {TOTAL_SPACE}
             /\ c + ch[c].size <= TOTAL_SPACE
  BY <1>3, TiledChunk
<1>6. chunk \in F /\ chunk \in DOMAIN ch /\ F \subseteq DOMAIN ch /\ chunk \in Nat
      /\ ch[chunk].size \in Nat
  <2>1. chunk \in F /\ F \subseteq DOMAIN ch
    BY DEF FreeOf, ch
  <2> QED BY <1>5, <2>1
<1>7. /\ data \in Nat /\ chunk + 1 <= data /\ data <= chunk + align
      /\ (h.base + data) % align = 0
  <2>1. chunk + 1 \in Nat
    BY <1>6
  <2>2. LET o == align_offset(chunk + 1, align, h.base)
        IN  o \in Nat /\ chunk + 1 <= o /\ o <= chunk + 1 + align - 1
              /\ (h.base + o) % align = 0
    BY <1>3, <2>1, AlignOffset
  <2> QED BY <1>6, <2>2 DEF data, HEADER_SIZE
<1>8. /\ hdr \in Nat /\ x \in Nat /\ hdr = chunk + x /\ x <= align - 1
      /\ data = hdr + 1
  BY <1>4, <1>6, <1>7 DEF HEADER_SIZE
<1>9. z \in Nat /\ x + y + z = ch[chunk].size
  <2>1. ch[chunk].size >= size + 1 + (align - 1)
    BY DEF min_size_for, HEADER_SIZE, ch
  <2>2. z = ch[chunk].size - size - x - 1
    BY <1>4 DEF HEADER_SIZE
  <2> HIDE DEF min_size_for
  <2>3. ch[chunk].size - size - x - 1 \in Nat
    BY <1>6, <1>8, <2>1
  <2> QED BY <1>2, <1>6, <1>8, <2>2, <2>3
<1>10. /\ end = chunk + ch[chunk].size /\ end \in Nat /\ end <= TOTAL_SPACE
       /\ end \in DOMAIN ch \cup {TOTAL_SPACE}
       /\ nxt \in Nat /\ nxt = hdr + y /\ nxt + z = end /\ hdr < nxt
  <2>1. nxt \in Nat /\ nxt = hdr + y /\ hdr < nxt
    BY <1>2, <1>8 DEF nxt
  <2>2. end = nxt + z
    BY DEF end
  <2>3. end = chunk + ch[chunk].size
    BY <1>2, <1>6, <1>8, <1>9, <2>1, <2>2
  <2> QED BY <1>5, <1>6, <1>9, <2>1, <2>2, <2>3
<1>11. /\ at.end_offset \in Nat /\ at.end_offset <= end /\ nxt <= at.end_offset
       /\ z # 0 => nxt + 1 <= at.end_offset
  <2>1. data + size = nxt
    BY <1>2, <1>7, <1>8, <1>10
  <2> QED BY <1>4, <1>9, <1>10, <2>1 DEF end_offset_for, FREE_CHUNK_HEADER_SIZE
<1>12. ASSUME NEW c \in DOMAIN ch, c > chunk PROVE c >= end
  <2>1. chunk < c => chunk + ch[chunk].size <= c
    BY <1>3, <1>6 DEF Tiled, Apart
  <2> QED BY <1>5, <1>6, <1>10, <1>12, <2>1
<1>13. /\ IsHeap(k0) /\ Listed(k0, F) /\ k0.base = h.base /\ k0.chunks = ch
       /\ k0.first = h.first
       /\ k0.space = IF h.space < at.end_offset THEN at.end_offset ELSE h.space
  BY <1>3, Commit DEF k0, ch
<1>14. k0.space \in 0 .. TOTAL_SPACE /\ h.space <= k0.space /\ at.end_offset <= k0.space
  BY <1>3, <1>10, <1>11, <1>13, SpaceIsNat
<1>15. /\ IsHeap(k1) /\ Listed(k1, F1)
       /\ k1.base = k0.base /\ k1.space = k0.space /\ k1.chunks = k0.chunks
  <2>1. k0.first[bin] = chunk
    BY <1>13
  <2> QED BY <1>6, <1>13, <2>1, UnregisterFirst DEF k1
<1> DEFINE X  == { c \in {chunk} : x # 0 }
           F2 == F1 \cup X
           Z  == { c \in {nxt} : z # 0 }
           F3 == F2 \cup Z
<1>16. RegisteredIfAny(k2, k1, F1, chunk, bef, x)
  <2>1. chunk # NULL /\ chunk \notin F1
    BY <1>6 DEF NULL
  <2>2. x # 0 => size_to_bin_round_down(x) \in Bins
    BY <1>8, BinOfSize
  <2> HIDE DEF F1
  <2> QED BY <1>15, <2>1, <2>2, RegisterIfAny DEF k2
<1>17. /\ IsHeap(k2) /\ Listed(k2, F2) /\ k2.base = h.base /\ k2.space = k0.space
       /\ DOMAIN k2.chunks = DOMAIN ch
       /\ \A c \in DOMAIN ch : c # chunk => k2.chunks[c] = ch[c]
       /\ x # 0 => k2.chunks[chunk] = Chunk(bef, x, FALSE)
  <2>1. DOMAIN ch \cup X = DOMAIN ch
    BY <1>6
  <2> QED BY <1>13, <1>15, <1>16, <2>1 DEF RegisteredIfAny
<1>18. hdr \notin F2
  <2>1. CASE x = 0
    BY <1>6, <1>8, <2>1
  <2>2. CASE x # 0
    <3>1. hdr > chunk /\ hdr < end /\ hdr # chunk
      BY <1>6, <1>8, <1>9, <1>10, <2>2
    <3>2. hdr \notin DOMAIN ch
      BY <1>8, <1>10, <1>12, <3>1
    <3> QED BY <1>6, <3>1, <3>2
  <2> QED BY <2>1, <2>2
<1>19. /\ IsHeap(k3) /\ Listed(k3, F2) /\ k3.base = h.base /\ k3.space = k0.space
       /\ k3.chunks = Put(k2.chunks, hdr, Chunk(v, y, TRUE))
  <2> HIDE DEF F2
  <2>1. IsHeap(k2) /\ Listed(k2, F2)
    BY <1>17
  <2>2. AllocationRegistered(k3, k2, F2, hdr, v, y)
    BY <1>18, <2>1, RegisterAllocation DEF k3
  <2> QED BY <1>17, <2>2 DEF AllocationRegistered
<1>20. /\ DOMAIN k3.chunks = DOMAIN ch \cup {hdr}
       /\ k3.chunks[hdr] = Chunk(v, y, TRUE)
       /\ \A c \in DOMAIN ch : c # chunk /\ c # hdr => k3.chunks[c] = ch[c]
       /\ x # 0 => k3.chunks[chunk] = Chunk(bef, x, FALSE)
  <2>1. x # 0 => hdr # chunk
    BY <1>6, <1>8
  <2> QED BY <1>6, <1>17, <1>19, <2>1 DEF Put
<1>21. z # 0 => nxt \notin F2 /\ nxt \notin DOMAIN ch /\ nxt # hdr /\ nxt # chunk /\ nxt < end
  <2> SUFFICES ASSUME z # 0
               PROVE  nxt \notin F2 /\ nxt \notin DOMAIN ch /\ nxt # hdr /\ nxt # chunk /\ nxt < end
    OBVIOUS
  <2>1. nxt > chunk /\ nxt < end /\ nxt # hdr
    BY <1>6, <1>8, <1>9, <1>10
  <2>2. nxt \notin DOMAIN ch
    BY <1>10, <1>12, <2>1
  <2> QED BY <1>6, <2>1, <2>2
<1>22. RegisteredIfAny(k4, k3, F2, nxt, y, z)
  <2>1. nxt # NULL
    BY <1>10 DEF NULL
  <2>2. z # 0 => nxt \notin F2 /\ size_to_bin_round_down(z) \in Bins
    BY <1>9, <1>21, BinOfSize
  <2> HIDE DEF F2
  <2>3. IsHeap(k3) /\ Listed(k3, F2)
    BY <1>19
  <2> QED BY <2>1, <2>2, <2>3, RegisterIfAny DEF k4
<1>23. /\ IsHeap(k4) /\ Listed(k4, F3) /\ k4.base = h.base /\ k4.space = k0.space
       /\ DOMAIN k4.chunks = DOMAIN ch \cup {hdr} \cup Z
       /\ k4.chunks[hdr] = Chunk(v, y, TRUE)
       /\ \A c \in DOMAIN ch : c # chunk /\ c # hdr => k4.chunks[c] = ch[c]
       /\ x # 0 => k4.chunks[chunk] = Chunk(bef, x, FALSE)
       /\ z # 0 => k4.chunks[nxt] = Chunk(y, z, FALSE)
  <2>1. \A c \in DOMAIN k3.chunks : k4.chunks[c] = k3.chunks[c]
    BY <1>20, <1>21, <1>22 DEF RegisteredIfAny
  <2>2. chunk \in DOMAIN k3.chunks /\ hdr \in DOMAIN k3.chunks /\ DOMAIN ch \subseteq DOMAIN k3.chunks
    BY <1>6, <1>20
  <2>3. /\ IsHeap(k4) /\ Listed(k4, F3) /\ k4.base = h.base /\ k4.space = k0.space
        /\ DOMAIN k4.chunks = DOMAIN ch \cup {hdr} \cup Z
        /\ z # 0 => k4.chunks[nxt] = Chunk(y, z, FALSE)
    BY <1>19, <1>20, <1>22 DEF RegisteredIfAny
  <2> QED BY <1>20, <2>1, <2>2, <2>3
<1>24. end < TOTAL_SPACE => end \in DOMAIN k4.chunks /\ k4.chunks[end] = ch[end]
                            /\ end \in DOMAIN ch
  <2>1. end # chunk /\ end # hdr
    BY <1>2, <1>6, <1>8, <1>9, <1>10
  <2> QED BY <1>10, <1>23, <2>1
<1>25. /\ IsHeap(g) /\ Listed(g, F3) /\ g.base = h.base /\ g.space = k0.space
       /\ PrevSet(g, k4, end, u)
  <2>1. end < TOTAL_SPACE => end \in DOMAIN k4.chunks /\ k4.chunks[end] \in ChunkHeaders
    BY <1>5, <1>24
  <2> HIDE DEF F3
  <2>2. IsHeap(k4) /\ Listed(k4, F3)
    BY <1>23
  <2>3. LET r == set_prev_chunk_size(k4, end, u)
        IN  /\ IsHeap(r) /\ Listed(r, F3) /\ r.base = k4.base /\ r.space = k4.space
            /\ PrevSet(r, k4, end, u)
    BY <2>1, <2>2, SetPrev
  <2> QED BY <1>23, <2>3 DEF g
<1>26. CutFits(ch, chunk, x, y, z)
  <2>1. chunk + x + y + z = end
    BY <1>2, <1>6, <1>8, <1>9, <1>10
  <2> QED BY <1>2, <1>6, <1>8, <1>9, <1>10, <2>1 DEF CutFits
<1>s. /\ chunk + x = hdr /\ chunk + x + y = nxt /\ chunk + x + y + z = end
      /\ chunk # end /\ hdr # end /\ (z # 0 => nxt # end)
  BY <1>2, <1>6, <1>8, <1>9, <1>10
<1>27. IsCut(g.chunks, ch, chunk, x, y, z, TRUE)
  <2>1. DOMAIN ch = { c \in DOMAIN ch : c < chunk \/ c >= end } \cup {chunk}
    BY <1>5, <1>6, <1>12
  <2>2. DOMAIN g.chunks = { c \in DOMAIN ch : c < chunk \/ c >= end } \cup {hdr} \cup X \cup Z
    <3>1. DOMAIN g.chunks = DOMAIN ch \cup {hdr} \cup Z
      BY <1>23, <1>25 DEF PrevSet
    <3>2. x = 0 => hdr = chunk
      BY <1>6, <1>8
    <3>3. {chunk} \cup {hdr} = {hdr} \cup X
      BY <3>2
    <3> QED BY <2>1, <3>1, <3>3
  <2>3. \A c \in DOMAIN ch : c < chunk \/ c > end => g.chunks[c] = ch[c]
    <3> SUFFICES ASSUME NEW c \in DOMAIN ch, c < chunk \/ c > end PROVE g.chunks[c] = ch[c]
      OBVIOUS
    <3>1. c \in Nat /\ c # end /\ c # chunk /\ c # hdr
      BY <1>2, <1>5, <1>6, <1>8, <1>9, <1>10
    <3>2. c \in DOMAIN k4.chunks /\ k4.chunks[c] = ch[c]
      BY <1>23, <3>1
    <3> QED BY <1>25, <3>1, <3>2 DEF PrevSet
  <2>4. g.chunks[hdr] = Chunk(v, y, TRUE)
    BY <1>23, <1>25, <1>s DEF PrevSet
  <2>5. x # 0 => g.chunks[chunk] = Chunk(bef, x, FALSE)
    BY <1>6, <1>23, <1>25, <1>s DEF PrevSet
  <2>6. z # 0 => g.chunks[nxt] = Chunk(y, z, FALSE)
    BY <1>23, <1>25, <1>s DEF PrevSet
  <2>7. end \in DOMAIN ch => g.chunks[end] = [ch[end] EXCEPT !.prev_chunk_size = u]
    BY <1>5, <1>24, <1>25 DEF PrevSet
  <2> QED BY <1>s, <2>2, <2>3, <2>4, <2>5, <2>6, <2>7 DEF IsCut, v, u, bef
<1>28. /\ FreeOf(g.chunks) = { c \in F : c < chunk \/ c >= end } \cup X \cup Z
       /\ AllocatedOf(g.chunks) = { c \in AllocatedOf(ch) : c < chunk \/ c >= end } \cup {hdr}
       /\ \A c \in DOMAIN ch : c < chunk \/ c >= end => g.chunks[c].size = ch[c].size
       /\ g.chunks[hdr].size = y
  <2> DEFINE n == g.chunks
  <2> HIDE DEF n
  <2>1. IsCut(n, ch, chunk, x, y, z, TRUE)
    BY <1>27 DEF n
  <2>2. CutSetsFacts(n, ch, chunk, x, y, z, TRUE)
    BY <1>3, <1>26, <2>1, CutSets
  <2> QED BY <1>s, <2>2 DEF CutSetsFacts, n
<1>29. { c \in F : c < chunk \/ c >= end } = F1
  BY <1>5, <1>6, <1>10, <1>12
<1>30. Listed(g, FreeOf(g.chunks))
  BY <1>25, <1>28, <1>29
<1>31. end \notin F /\ \A c \in F : c + ch[c].size # chunk
  BY <1>3, <1>6, <1>10 DEF Merged
<1>32. Sound(g)
  <2>1. /\ CutFits(h.chunks, chunk, x, y, z)
        /\ IsCut(g.chunks, h.chunks, chunk, x, y, z, TRUE)
        /\ chunk + x + y + z \notin FreeOf(h.chunks)
        /\ \A c \in FreeOf(h.chunks) : c + h.chunks[c].size # chunk
    BY <1>26, <1>27, <1>31, <1>s DEF ch
  <2>2. g.space \in 0 .. TOTAL_SPACE /\ h.space <= g.space
    BY <1>14, <1>25
  <2>3. chunk + x + y <= g.space /\ (z # 0 => chunk + x + y + 1 <= g.space)
    BY <1>10, <1>11, <1>14, <1>25, <1>s, SpaceIsNat
  <2> QED BY <1>25, <1>30, <2>1, <2>2, <2>3, SoundCut, ZenonT(30)
<1>33. { c \in AllocatedOf(ch) : c < chunk \/ c >= end } = AllocatedOf(ch)
  <2>1. chunk \notin AllocatedOf(ch)
    BY DEF AllocatedOf, FreeOf, ch
  <2> QED BY <1>5, <1>6, <1>12, <2>1 DEF AllocatedOf
<1>34. Placed(g, h, hdr, y)
  <2>1. AllocatedOf(g.chunks) = AllocatedOf(ch) \cup {hdr}
    BY <1>28, <1>33
  <2>2. \A c \in AllocatedOf(ch) : c # hdr => g.chunks[c].size = ch[c].size
    BY <1>28, <1>33 DEF AllocatedOf
  <2>3. h.space <= g.space
    BY <1>14, <1>25
  <2> QED BY <1>25, <1>28, <1>32, <2>1, <2>2, <2>3 DEF Placed, ch
<1>35. hdr \notin AllocatedOf(ch)
  <2>1. hdr \in DOMAIN ch => hdr = chunk
    BY <1>5, <1>6, <1>8, <1>9, <1>10, <1>12
  <2> QED BY <2>1 DEF AllocatedOf, FreeOf, ch
<1>36. (h.base + hdr + 1) % align = 0
  <2>1. h.base + hdr + 1 = h.base + data
    BY <1>3, <1>8
  <2> QED BY <1>7, <2>1
<1> QED BY <1>1, <1>2, <1>8, <1>34, <1>35, <1>36 DEF ch, hdr

\* What alloc may return, given an arena: nothing, or a new allocation at an aligned
\* address.
AllocatedFrom(r, h, align, size) ==
  \/ r.heap = h /\ r.ret = NULL
  \/ \E c \in Nat :
       /\ Placed(r.heap, h, c, size + 1)
       /\ c \notin AllocatedOf(h.chunks)
       /\ r.ret = h.base + c + 1
       /\ r.ret % align = 0

LEMMA AllocInitializedOp ==
  ASSUME NEW h, Sound(h), NEW align \in Nat \ {0}, NEW size \in Nat
  PROVE  AllocatedFrom(alloc_initialized(h, align, size), h, align, size)
<1> DEFINE min == min_size_for(align, size)
           bin == find_bin(h, min).index
           at  == placement(h, h.first[bin], align, size)
           ok  == /\ has_chunk_for(h, align, size)
                  /\ h.space < at.end_offset => expand_memory_until(at.end_offset)
           r   == alloc_initialized(h, align, size)
<1>1. r = IF ok THEN returns(carve(h, bin, at, size), h.base + at.header + HEADER_SIZE)
          ELSE returns(h, NULL)
  BY DEF alloc_initialized
<1>2. \A a, b : returns(a, b).heap = a /\ returns(a, b).ret = b
  BY DEF returns
<1>3. min \in Nat \ {0}
  BY DEF min_size_for, HEADER_SIZE
<1>4. ok => find_bin(h, min) # None /\ h.chunks[h.first[bin]].size >= min
  BY DEF has_chunk_for
<1> HIDE DEF min, bin, at, ok, r
<1>5. CASE ok
  <2>1. bin \in Bins /\ h.first[bin] \in FreeOf(h.chunks)
    BY <1>3, <1>4, <1>5, FindBin DEF Sound, bin
  <2>2. h.chunks[h.first[bin]].size >= min_size_for(align, size)
    BY <1>4, <1>5 DEF min
  <2>3. /\ Placed(carve(h, bin, at, size), h, at.header, size + 1)
        /\ at.header \in Nat /\ at.header \notin AllocatedOf(h.chunks)
        /\ (h.base + at.header + 1) % align = 0
    BY <2>1, <2>2, CarveOp DEF at
  <2>4. r.heap = carve(h, bin, at, size) /\ r.ret = h.base + at.header + 1
    BY <1>1, <1>2, <1>5 DEF HEADER_SIZE
  <2> QED BY <2>3, <2>4 DEF AllocatedFrom, r
<1>6. CASE ~ok
  BY <1>1, <1>2, <1>6 DEF AllocatedFrom, r
<1> QED BY <1>5, <1>6

\* An allocator that has not been used yet.
Uninitialised(h) ==
  /\ IsHeap(h) /\ h.base = 0 /\ h.space = 0
  /\ DOMAIN h.chunks = {} /\ Listed(h, {})

\* initialize makes a sound heap of one free chunk.
LEMMA InitializeOp ==
  ASSUME NEW h, Uninitialised(h), NEW new_base \in Nat \ {0}
  PROVE  LET g == initialize(h, new_base)
         IN  Sound(g) /\ g.base = new_base /\ g.space = 1 /\ AllocatedOf(g.chunks) = {}
<1> DEFINE bin == size_to_bin_round_down(TOTAL_SPACE)
           k   == [h EXCEPT !.base = new_base, !.space = 1]
           n   == Put(h.chunks, 0, Chunk(0, TOTAL_SPACE, FALSE))
           l   == Put(h.links, 0, Link(NULL, NULL))
           m   == bitmask_set(h.mask, bitmask_index(bin))
           g   == initialize(h, new_base)
<1>1. g = [h EXCEPT !.base = new_base, !.space = 1, !.mask = m,
                    !.first[bin] = 0, !.chunks = n, !.links = l]
  BY DEF initialize, Uninitialised, FREE_CHUNK_HEADER_SIZE
<1>2. bin \in Bins
  BY SpaceIsNat, BinOfSize
<1>3. IsHeap(h) /\ h.base = 0 /\ DOMAIN h.chunks = {} /\ Listed(h, {})
  BY DEF Uninitialised
<1>4. h.first[bin] = NULL
  BY <1>2, <1>3 DEF Listed, ListsTyped
<1> HIDE DEF g, bin, l, n, m
<1>5. /\ IsHeap(g) /\ g.base = new_base /\ g.space = 1 /\ g.mask = m
      /\ g.first = [h.first EXCEPT ![bin] = 0] /\ g.chunks = n /\ g.links = l
  BY <1>1, <1>3 DEF IsHeap
<1>6. /\ IsHeap(k) /\ k.base = new_base /\ k.space = 1 /\ k.mask = h.mask
      /\ k.first = h.first /\ k.chunks = h.chunks /\ k.links = h.links
  <2>1. k = [h EXCEPT !.base = new_base, !.space = 1] /\ IsHeap(h)
    BY <1>3
  <2> HIDE DEF k
  <2> QED BY <2>1 DEF IsHeap
<1> HIDE DEF k
<1>7. Listed(k, {})
  BY <1>3, <1>6, ListedFrame
<1> DEFINE q == register_free_space(k, 0, 0, TOTAL_SPACE)
<1>8. q = [k EXCEPT !.first[bin] = 0, !.chunks = n, !.links = l, !.mask = m]
  BY <1>4, <1>6, SpaceIsNat DEF register_free_space, bin, n, l, m
<1>9. Registered(q, k, {}, 0, 0, TOTAL_SPACE)
  <2>1. 0 \notin {} /\ 0 # NULL
    BY DEF NULL
  <2> QED BY <1>2, <1>6, <1>7, <2>1, SpaceIsNat, Register DEF bin
<1> HIDE DEF q
<1>10. q = g
  <2>1. /\ q.base = new_base /\ q.space = 1 /\ q.mask = m /\ IsHeap(q)
        /\ q.first = [h.first EXCEPT ![bin] = 0] /\ q.chunks = n /\ q.links = l
    BY <1>6, <1>8 DEF IsHeap
  <2> QED BY <1>5, <2>1 DEF IsHeap
<1>11. Listed(g, {0})
  <2>1. {} \cup {0} = {0}
    OBVIOUS
  <2> QED BY <1>9, <1>10, <2>1 DEF Registered
<1>12. /\ DOMAIN n = {0} /\ n[0] = Chunk(0, TOTAL_SPACE, FALSE)
  BY <1>3 DEF n, Put
<1>13. /\ n[0].prev_chunk_size = 0 /\ n[0].size = TOTAL_SPACE /\ n[0].allocated = FALSE
  BY <1>12 DEF Chunk
<1>14. Tiled(n)
  <2>0. \A c \in DOMAIN n : c = 0
    BY <1>12
  <2>1. ChunksTyped(n)
    <3>1. Chunk(0, TOTAL_SPACE, FALSE) \in ChunkHeaders
      BY SpaceIsNat DEF Chunk, ChunkHeaders
    <3>2. DOMAIN n \subseteq Offsets
      BY <2>0, SpaceIsNat DEF Offsets
    <3> QED BY <1>12, <2>0, <3>1, <3>2 DEF ChunksTyped
  <2>2. Ends(n) /\ Apart(n) /\ BackLinked(n)
    <3>1. 0 + n[0].size = TOTAL_SPACE
      BY <1>13, SpaceIsNat
    <3>2. Ends(n)
      BY <2>0, <3>1 DEF Ends
    <3>3. Apart(n)
      BY <2>0 DEF Apart
    <3> QED BY <1>13, <2>0, <3>2, <3>3 DEF BackLinked
  <2> QED BY <1>12, <2>1, <2>2 DEF Tiled
<1>15. FreeOf(n) = {0} /\ AllocatedOf(n) = {}
  BY <1>12, <1>13 DEF FreeOf, AllocatedOf
<1>16. Merged(n)
  BY <1>13, <1>15, SpaceIsNat DEF Merged
<1>17. Committed(g)
  <2>1. \A c \in DOMAIN g.chunks : c = 0
    BY <1>5, <1>12
  <2>2. 0 + (IF n[0].allocated THEN n[0].size ELSE 1) <= 1
    BY <1>13
  <2> QED BY <1>5, <2>1, <2>2 DEF Committed, FREE_CHUNK_HEADER_SIZE
<1>18. Sound(g)
  BY <1>5, <1>11, <1>14, <1>15, <1>16, <1>17, SpaceIsNat DEF Sound
<1> QED BY <1>5, <1>15, <1>18 DEF g

=============================================================================
