------------------------- MODULE DmxdevLifeProofs -------------------------
(***************************************************************************)
(* The tables of the demux stay in order under the demux device.           *)
(*                                                                         *)
(* The argument goes from the bottom up: lists and table entries; what     *)
(* each call of DemuxFeeds changes; how each of these changes keeps Live   *)
(* and Decoders, the parts of the invariant about the demux; then, for     *)
(* each action, the part of LifeInv that no timeout can disturb (Base) and *)
(* the part that holds as long as none has come late (Tidy).               *)
(***************************************************************************)
EXTENDS DmxdevLife, FiniteSetTheorems, WellFoundedInduction, TLAPS

-----------------------------------------------------------------------------
(* Sets and lists                                                          *)

(* A set of table entries that is not empty has a first one.               *)
LEMMA MinIn ==
  ASSUME NEW S \in SUBSET Nat, S # {}
  PROVE  Min(S) \in S
<1>1. PICK x \in S : \A y \in S : ~(<<y, x>> \in OpToRel(<, Nat))
  BY NatLessThanWellFounded, WFMin, Zenon
<1>2. \A y \in S : ~(y < x)  BY <1>1, Zenon DEF OpToRel
<1>3. \A y \in S : x <= y  BY <1>2
<1>. QED  BY <1>3 DEF Min

(* An entry taken out of a list.                                           *)
LEMMA RemoveEntry ==
  ASSUME NEW T, NEW s \in Seq(T), NEW a \in 1 .. Len(s)
  PROVE  /\ RemoveAt(s, a) \in Seq(T) /\ Len(RemoveAt(s, a)) = Len(s) - 1
         /\ \A i \in 1 .. Len(s) - 1 :
              RemoveAt(s, a)[i] = IF i < a THEN s[i] ELSE s[i + 1]
<1>. DEFINE r == RemoveAt(s, a)
<1>1. PICK n \in Nat : n = Len(s)  OBVIOUS
<1>2. s = [i \in 1 .. n |-> s[i]] /\ \A i \in 1 .. n : s[i] \in T  BY <1>1
<1>3. PICK l, u \in Int : l = a - 1 /\ u = a + 1  OBVIOUS
<1>4. SubSeq(s, 1, l) = [i \in 1 .. l |-> s[i]] /\ SubSeq(s, 1, l) \in Seq(T) /\ Len(SubSeq(s, 1, l)) = l
  BY <1>1, <1>3
<1>5. PICK v : v = SubSeq(s, u, n)  OBVIOUS
<1>6. v \in Seq(T) /\ Len(v) = n - a
  BY <1>1, <1>3, <1>5
<1>7. \A i \in 1 .. n - a : v[i] = s[i + a]
  <2> SUFFICES ASSUME NEW i \in 1 .. n - a PROVE v[i] = s[i + a]  OBVIOUS
  <2>1. v[i] = s[u + i - 1] BY <1>1, <1>3, <1>5
  <2>2. u + i - 1 = i + a BY <1>3
  <2>. QED BY <2>1, <2>2
<1>8. r = SubSeq(s, 1, l) \o v  BY <1>1, <1>3, <1>5 DEF RemoveAt
<1>9. r \in Seq(T) /\ Len(r) = n - 1
  BY <1>4, <1>6, <1>8, <1>3
<1>10. \A i \in 1 .. n - 1 : i < a => r[i] = s[i]
  BY <1>4, <1>6, <1>8, <1>3, <1>1
<1>11. ASSUME NEW i \in 1 .. n - 1, i >= a PROVE r[i] = s[i + 1]
  <2>0. PICK w \in Seq(T) : w = SubSeq(s, 1, l) /\ Len(w) = l /\ r = w \o v  BY <1>4, <1>8
  <2>01. i \in 1 .. Len(w) + Len(v) /\ i > Len(w)  BY <2>0, <1>6, <1>3, <1>1, <1>11
  <2>1. r[i] = v[i - l] BY <2>0, <2>01, <1>6
  <2>2. i - l \in 1 .. n - a /\ (i - l) + a = i + 1 BY <1>3, <1>1, <1>11
  <2>. QED BY <2>1, <2>2, <1>7
<1>. QED  BY <1>1, <1>9, <1>10, <1>11

(* From a list without repetitions.                                        *)
LEMMA RemoveOne ==
  ASSUME NEW T, NEW s \in Seq(T), NEW a \in 1 .. Len(s),
         \A i, j \in 1 .. Len(s) : s[i] = s[j] => i = j
  PROVE  /\ Range(RemoveAt(s, a)) = Range(s) \ {s[a]}
         /\ \A i, j \in 1 .. Len(RemoveAt(s, a)) : RemoveAt(s, a)[i] = RemoveAt(s, a)[j] => i = j
<1>. DEFINE r == RemoveAt(s, a)
<1>1. PICK n \in Nat : n = Len(s)  OBVIOUS
<1>. HIDE DEF r
<1>9. r \in Seq(T) /\ Len(r) = n - 1  BY <1>1, RemoveEntry DEF r
<1>10. \A i \in 1 .. n - 1 : i < a => r[i] = s[i]  BY <1>1, RemoveEntry DEF r
<1>11. \A i \in 1 .. n - 1 : i >= a => r[i] = s[i + 1]  BY <1>1, RemoveEntry DEF r
<1>12. Range(r) = {r[i] : i \in 1 .. n - 1}  BY <1>9 DEF Range
<1>13. Range(s) = {s[i] : i \in 1 .. n}  BY <1>1 DEF Range
<1>14. Range(r) = Range(s) \ {s[a]}
  <2>1. ASSUME NEW i \in 1 .. n - 1 PROVE \E j \in 1 .. n : j # a /\ r[i] = s[j]
    <3>1. CASE i < a  BY <3>1, <1>10
    <3>2. CASE i >= a  BY <3>2, <1>11
    <3>. QED  BY <3>1, <3>2, <1>1
  <2>2. ASSUME NEW j \in 1 .. n, j # a PROVE \E i \in 1 .. n - 1 : r[i] = s[j]
    <3>1. CASE j < a  BY <3>1, <1>10, <1>1
    <3>2. CASE j > a
      <4>1. j - 1 \in 1 .. n - 1 /\ j - 1 >= a /\ (j - 1) + 1 = j  BY <3>2, <1>1
      <4>2. PICK i \in 1 .. n - 1 : i = j - 1  BY <4>1
      <4>. QED  BY <4>1, <4>2, <1>11
    <3>. QED  BY <3>1, <3>2, <2>2, <1>1
  <2>3. \A j \in 1 .. n : s[j] = s[a] => j = a  BY <1>1
  <2>. QED  BY <2>1, <2>2, <2>3, <1>12, <1>13, <1>1
<1>15. ASSUME NEW i \in 1 .. n - 1, NEW j \in 1 .. n - 1, r[i] = r[j] PROVE i = j
  <2>1. CASE i < a /\ j < a  BY <2>1, <1>15, <1>10, <1>1
  <2>2. CASE i < a /\ j >= a  BY <2>2, <1>15, <1>10, <1>11, <1>1
  <2>3. CASE i >= a /\ j < a  BY <2>3, <1>15, <1>10, <1>11, <1>1
  <2>4. CASE i >= a /\ j >= a
    <3>1. r[i] = s[i + 1] /\ r[j] = s[j + 1] /\ i + 1 \in 1 .. n /\ j + 1 \in 1 .. n  BY <2>4, <1>11, <1>1
    <3>2. PICK p, q \in 1 .. n : p = i + 1 /\ q = j + 1  BY <3>1
    <3>3. p = q BY <3>1, <3>2, <1>15, <1>1
    <3>. QED BY <3>2, <3>3
  <2>. QED  BY <2>1, <2>2, <2>3, <2>4, <1>1
<1>. QED  BY <1>9, <1>14, <1>15 DEF r

(* The first place of an entry in a list.                                  *)
LEMMA FirstOf ==
  ASSUME NEW T, NEW s \in Seq(T), NEW k \in Range(s)
  PROVE  \E a \in 1 .. Len(s) : s[a] = k /\ RemoveFirst(s, k) = RemoveAt(s, a)
<1>1. PICK c \in 1 .. Len(s) : s[c] = k  BY DEF Range
<1>2. PICK S : S = {i \in 1 .. Len(s) : s[i] = k}  OBVIOUS
<1>3. S \in SUBSET Nat /\ S # {}  BY <1>1, <1>2
<1>4. Min(S) \in S  BY <1>3, MinIn
<1>5. SelectInSeq(s, LAMBDA v : v = k) = Min(S)  BY <1>2, <1>3 DEF SelectInSeq
<1>6. RemoveFirst(s, k) = RemoveAt(s, Min(S))  BY <1>1, <1>5 DEF RemoveFirst
<1>. QED  BY <1>2, <1>4, <1>6

(* RemoveFirst, which release_filter uses, returns a list.                 *)
LEMMA RemoveFirstType ==
  ASSUME NEW T, NEW s \in Seq(T), NEW k
  PROVE  RemoveFirst(s, k) \in Seq(T)
<1>1. CASE k \in Range(s)  BY <1>1, FirstOf, RemoveEntry
<1>2. CASE k \notin Range(s)  BY <1>2 DEF RemoveFirst, Range
<1>. QED  BY <1>1, <1>2

(* From a list without repetitions RemoveFirst takes the entry and nothing *)
(* else.                                                                   *)
LEMMA RemoveFirstOne ==
  ASSUME NEW T, NEW s \in Seq(T), NEW k \in Range(s), IsInjective(s)
  PROVE  Range(RemoveFirst(s, k)) = Range(s) \ {k} /\ IsInjective(RemoveFirst(s, k))
<1>1. PICK a \in 1 .. Len(s) : s[a] = k /\ RemoveFirst(s, k) = RemoveAt(s, a)  BY FirstOf
<1>2. PICK r : r = RemoveAt(s, a)  OBVIOUS
<1>3. r \in Seq(T)  BY <1>2, RemoveEntry
<1>4. \A i, j \in 1 .. Len(s) : s[i] = s[j] => i = j  BY DEF IsInjective
<1>5. Range(r) = Range(s) \ {k} /\ \A i, j \in 1 .. Len(r) : r[i] = r[j] => i = j
  BY <1>1, <1>2, <1>4, RemoveOne
<1>6. IsInjective(r)  BY <1>3, <1>5 DEF IsInjective
<1>. QED  BY <1>1, <1>2, <1>5, <1>6

(* A list without entries, and a list of one.                              *)
LEMMA SmallLists ==
  ASSUME NEW T, NEW s \in Seq(T)
  PROVE  /\ Range(s) \subseteq T
         /\ s = << >> <=> Range(s) = {}
         /\ Range(<< >>) = {}
         /\ \A k : Range(<<k>>) = {k}
         /\ \A k \in T : <<k>> \in Seq(T) /\ Len(<<k>>) = 1 /\ Head(<<k>>) = k
         /\ Len(s) = 1 => Range(s) = {Head(s)}
         /\ << >> \in Seq(T) /\ IsInjective(<< >>) /\ \A k : IsInjective(<<k>>)
<1>1. Range(s) \subseteq T  BY DEF Range
<1>2. s = << >> <=> Range(s) = {}
  <2>1. CASE s = << >>  BY <2>1 DEF Range
  <2>2. CASE s # << >>
    <3>1. Len(s) \in Nat /\ Len(s) > 0 /\ 1 \in DOMAIN s  BY <2>2
    <3>. QED  BY <3>1, <2>2 DEF Range
  <2>. QED  BY <2>1, <2>2
<1>3. \A k : Range(<<k>>) = {k}  BY DEF Range
<1>4. Len(s) = 1 => Range(s) = {Head(s)}  BY DEF Range
<1>5. Range(<< >>) = {}  BY DEF Range
<1>6. IsInjective(<< >>) /\ \A k : IsInjective(<<k>>)  BY DEF IsInjective
<1>. QED  BY <1>1, <1>2, <1>3, <1>4, <1>5, <1>6

(* The list of a transport stream feed has one entry, its head.            *)
LEMMA OneList ==
  ASSUME NEW k
  PROVE  Range(<<k>>) = {k} /\ IsInjective(<<k>>)
BY DEF Range, IsInjective

(* An entry put at the head of a list.                                     *)
LEMMA PutFirst ==
  ASSUME NEW T, NEW s \in Seq(T), NEW k \in T, k \notin Range(s), IsInjective(s)
  PROVE  /\ <<k>> \o s \in Seq(T)
         /\ Range(<<k>> \o s) = {k} \cup Range(s)
         /\ IsInjective(<<k>> \o s)
<1>0. \A i, j \in 1 .. Len(s) : s[i] = s[j] => i = j  BY DEF IsInjective
<1>1. PICK n \in Nat : n = Len(s)  OBVIOUS
<1>2. PICK r : r = <<k>> \o s  OBVIOUS
<1>3. r \in Seq(T) /\ Len(r) = n + 1 /\ r[1] = k  BY <1>1, <1>2
<1>4. ASSUME NEW i \in 1 .. n PROVE r[i + 1] = s[i]  BY <1>1, <1>2
<1>5. ASSUME NEW i \in 2 .. n + 1 PROVE \E j \in 1 .. n : i = j + 1 /\ r[i] = s[j]
  <2>1. PICK j \in 1 .. n : i = j + 1
    <3>1. i - 1 \in 1 .. n /\ i = (i - 1) + 1  OBVIOUS
    <3>. QED  BY <3>1
  <2>. QED  BY <2>1, <1>4
<1>6. Range(s) = {s[i] : i \in 1 .. n}  BY <1>1 DEF Range
<1>7. Range(r) = {r[i] : i \in 1 .. n + 1}  BY <1>3 DEF Range
<1>8. Range(r) = {k} \cup Range(s)
  <2>1. ASSUME NEW i \in 1 .. n + 1 PROVE r[i] \in {k} \cup Range(s)
    <3>1. CASE i = 1  BY <3>1, <1>3
    <3>2. CASE i # 1  BY <3>2, <1>5, <1>6
    <3>. QED  BY <3>1, <3>2
  <2>2. k \in Range(r)  BY <1>3, <1>7
  <2>3. ASSUME NEW i \in 1 .. n PROVE s[i] \in Range(r)
    <3>1. PICK j \in 1 .. n + 1 : j = i + 1  OBVIOUS
    <3>. QED  BY <3>1, <1>4, <1>7
  <2>. QED  BY <2>1, <2>2, <2>3, <1>6, <1>7
<1>9. ASSUME NEW i \in 1 .. n + 1, NEW j \in 1 .. n + 1, r[i] = r[j] PROVE i = j
  <2>1. CASE i = 1 /\ j = 1  BY <2>1
  <2>2. CASE i = 1 /\ j # 1
    <3>1. PICK q \in 1 .. n : r[j] = s[q]  BY <2>2, <1>5
    <3>2. s[q] \in Range(s) /\ s[q] = k  BY <3>1, <2>2, <1>3, <1>6, <1>9
    <3>. QED  BY <3>2
  <2>3. CASE i # 1 /\ j = 1
    <3>1. PICK q \in 1 .. n : r[i] = s[q]  BY <2>3, <1>5
    <3>2. s[q] \in Range(s) /\ s[q] = k  BY <3>1, <2>3, <1>3, <1>6, <1>9
    <3>. QED  BY <3>2
  <2>4. CASE i # 1 /\ j # 1
    <3>1. PICK p \in 1 .. n : i = p + 1 /\ r[i] = s[p]  BY <2>4, <1>5
    <3>2. PICK q \in 1 .. n : j = q + 1 /\ r[j] = s[q]  BY <2>4, <1>5
    <3>. QED  BY <3>1, <3>2, <1>9, <1>0, <1>1
  <2>. QED  BY <2>1, <2>2, <2>3, <2>4
<1>10. IsInjective(r)  BY <1>3, <1>9 DEF IsInjective
<1>. QED  BY <1>2, <1>3, <1>8, <1>10

-----------------------------------------------------------------------------
(* The calls of the demux, field by field                                  *)

(* The fields of struct dvb_demux.                                         *)
LEMMA DemuxFields ==
  ASSUME NEW d \in Demux
  PROVE  /\ d.feed \in [1 .. mode.feednum -> FeedRec]
         /\ d.filter \in [1 .. mode.filternum -> FilterRec]
         /\ d.feed_list \subseteq 1 .. mode.feednum
         /\ d.pesfilter \in [Pes -> 0 .. mode.feednum]
         /\ d.frontend \in {"hw", "mem"} /\ d.feeds \in Int /\ d.dma \in BOOLEAN
BY DEF Demux

(* The fields of struct dvb_demux_feed.                                    *)
LEMMA FeedFields ==
  ASSUME NEW x \in FeedRec
  PROVE  /\ x.state \in FeedStates /\ x.type \in {"TS", "SEC"}
         /\ x.pid \in {NoPid} \cup {par.pid : par \in mode.params}
         /\ x.filtering \in BOOLEAN /\ x.filters \in Seq(1 .. mode.filternum)
         /\ x.dec \in Pes \cup {NoPes, "bad"} /\ x.out \in {"none", "tap", "dvr"}
         /\ x.priv \in 0 .. NDev
BY DEF FeedRec

(* Two demuxes that differ in feed i and in the card's count at most.      *)
Only(d, e, i) ==
  /\ \A j \in 1 .. mode.feednum : j # i => e.feed[j] = d.feed[j]
  /\ e.filter = d.filter /\ e.feed_list = d.feed_list /\ e.pesfilter = d.pesfilter
  /\ e.frontend = d.frontend

(* Two feeds that differ in their state at most.                           *)
SameUse(x, y) ==
  /\ x.type = y.type /\ x.pid = y.pid /\ x.filters = y.filters
  /\ x.dec = y.dec /\ x.out = y.out /\ x.priv = y.priv

WithCard(d, n, on) == [d EXCEPT !.feeds = n, !.dma = on]
WithFeed(d, i, y) == [d EXCEPT !.feed = [d.feed EXCEPT ![i] = y]]

(* The card's count changed, and nothing else.                             *)
LEMMA SetCard ==
  ASSUME NEW d \in Demux, NEW n \in Int, NEW on \in BOOLEAN
  PROVE  LET c == WithCard(d, n, on) IN
         /\ c \in Demux
         /\ c.feed = d.feed /\ c.filter = d.filter /\ c.feed_list = d.feed_list
         /\ c.pesfilter = d.pesfilter /\ c.frontend = d.frontend /\ c.feeds = n /\ c.dma = on
BY DEF Demux, WithCard

(* One feed changed, and nothing else.                                     *)
LEMMA SetFeed ==
  ASSUME NEW d \in Demux, NEW i \in 1 .. mode.feednum, NEW y \in FeedRec
  PROVE  LET e == WithFeed(d, i, y) IN
         /\ e \in Demux /\ Only(d, e, i)
         /\ e.feed[i] = y
         /\ e.feeds = d.feeds /\ e.dma = d.dma
<1>1. PICK g : g = [d.feed EXCEPT ![i] = y]  OBVIOUS
<1>2. d.feed \in [1 .. mode.feednum -> FeedRec]  BY DemuxFields
<1>3. g \in [1 .. mode.feednum -> FeedRec]  BY <1>1, <1>2
<1>4. PICK e : e = WithFeed(d, i, y)  OBVIOUS
<1>41. e = [d EXCEPT !.feed = g]  BY <1>1, <1>4 DEF WithFeed
<1>5. e \in Demux  BY <1>3, <1>41 DEF Demux
<1>6. /\ e.feed = g /\ e.filter = d.filter /\ e.feed_list = d.feed_list /\ e.pesfilter = d.pesfilter
      /\ e.frontend = d.frontend /\ e.feeds = d.feeds /\ e.dma = d.dma
  BY <1>41 DEF Demux
<1>7. Only(d, e, i)  BY <1>1, <1>2, <1>6 DEF Only
<1>8. e.feed[i] = y  BY <1>1, <1>2, <1>6
<1>. QED  BY <1>1, <1>4, <1>5, <1>6, <1>7, <1>8

(* mantis_dvb_start_feed and stop_feed.                                    *)
LEMMA CardFacts ==
  ASSUME NEW d \in Demux
  PROVE  /\ LET c == start_feed(d) IN
              /\ c \in Demux /\ \A i : Only(d, c, i) /\ c.feed = d.feed
              /\ c.feeds = d.feeds + 1 /\ c.dma = (d.dma \/ d.feeds = 0)
         /\ LET c == stop_feed(d) IN
              /\ c \in Demux /\ \A i : Only(d, c, i) /\ c.feed = d.feed
              /\ c.feeds = d.feeds - 1 /\ c.dma = (d.dma /\ d.feeds # 1)
<1>1. PICK on \in BOOLEAN : on = (d.dma \/ d.feeds = 0)  BY Zenon
<1>2. PICK off \in BOOLEAN : off = (d.dma /\ d.feeds # 1)  BY Zenon
<1>3. PICK n \in Int : n = d.feeds + 1  BY DemuxFields
<1>4. PICK m \in Int : m = d.feeds - 1  BY DemuxFields
<1>5. start_feed(d) = WithCard(d, n, on)  BY <1>1, <1>3, Zenon DEF start_feed, WithCard
<1>6. d.frontend # "none"  BY DemuxFields
<1>7. stop_feed(d) = WithCard(d, m, off)  BY <1>2, <1>4, <1>6, Zenon DEF stop_feed, WithCard
<1>8. PICK c : c = WithCard(d, n, on)  OBVIOUS
<1>9. PICK e : e = WithCard(d, m, off)  OBVIOUS
<1>10. /\ c \in Demux
       /\ c.feed = d.feed /\ c.filter = d.filter /\ c.feed_list = d.feed_list
       /\ c.pesfilter = d.pesfilter /\ c.frontend = d.frontend /\ c.feeds = n /\ c.dma = on
  BY <1>8, SetCard
<1>11. /\ e \in Demux
       /\ e.feed = d.feed /\ e.filter = d.filter /\ e.feed_list = d.feed_list
       /\ e.pesfilter = d.pesfilter /\ e.frontend = d.frontend /\ e.feeds = m /\ e.dma = off
  BY <1>9, SetCard
<1>12. start_feed(d) = c /\ stop_feed(d) = e  BY <1>5, <1>7, <1>8, <1>9
<1>. QED  BY <1>1, <1>2, <1>3, <1>4, <1>10, <1>11, <1>12 DEF Only

(* start_filtering changes the state of one feed and counts it.            *)
LEMMA StartFacts ==
  ASSUME NEW d \in Demux, NEW i \in 1 .. mode.feednum
  PROVE  LET e == start_filtering(d, i) IN
         /\ e \in Demux /\ Only(d, e, i)
         /\ SameUse(e.feed[i], d.feed[i])
         /\ e.feed[i].state = "GO" /\ e.feed[i].filtering = TRUE
         /\ e.feeds = d.feeds + 1 /\ e.dma = (d.dma \/ d.feeds = 0)
<1>1. PICK c : c = start_feed(d)  OBVIOUS
<1>2. /\ c \in Demux /\ Only(d, c, i) /\ c.feed = d.feed
      /\ c.feeds = d.feeds + 1 /\ c.dma = (d.dma \/ d.feeds = 0)
  BY <1>1, CardFacts
<1>3. PICK y : y = [c.feed[i] EXCEPT !.filtering = TRUE, !.state = "GO"]  OBVIOUS
<1>4. y \in FeedRec /\ SameUse(y, d.feed[i]) /\ y.state = "GO" /\ y.filtering = TRUE
  <2>1. c.feed[i] \in FeedRec  BY <1>2, DemuxFields
  <2>. QED  BY <1>2, <1>3, <2>1 DEF FeedRec, FeedStates, SameUse
<1>5. PICK e : e = WithFeed(c, i, y)  OBVIOUS
<1>6. e = start_filtering(d, i)  BY <1>1, <1>3, <1>5 DEF start_filtering, WithFeed
<1>7. /\ e \in Demux /\ Only(c, e, i) /\ e.feed[i] = y
      /\ e.feeds = c.feeds /\ e.dma = c.dma
  BY <1>2, <1>4, <1>5, SetFeed
<1>8. Only(d, e, i)  BY <1>2, <1>7 DEF Only
<1>. QED  BY <1>2, <1>4, <1>6, <1>7, <1>8

(* dmx_section_feed_stop_filtering, likewise.                              *)
LEMMA SectionStopFacts ==
  ASSUME NEW d \in Demux, NEW i \in 1 .. mode.feednum
  PROVE  LET e == section_stop_filtering(d, i) IN
         /\ e \in Demux /\ Only(d, e, i)
         /\ SameUse(e.feed[i], d.feed[i])
         /\ e.feed[i].state = "READY" /\ e.feed[i].filtering = FALSE
         /\ e.feeds = d.feeds - 1 /\ e.dma = (d.dma /\ d.feeds # 1)
<1>1. PICK c : c = stop_feed(d)  OBVIOUS
<1>2. /\ c \in Demux /\ Only(d, c, i) /\ c.feed = d.feed
      /\ c.feeds = d.feeds - 1 /\ c.dma = (d.dma /\ d.feeds # 1)
  BY <1>1, CardFacts
<1>3. PICK y : y = [c.feed[i] EXCEPT !.filtering = FALSE, !.state = "READY"]  OBVIOUS
<1>4. y \in FeedRec /\ SameUse(y, d.feed[i]) /\ y.state = "READY" /\ y.filtering = FALSE
  <2>1. c.feed[i] \in FeedRec  BY <1>2, DemuxFields
  <2>. QED  BY <1>2, <1>3, <2>1 DEF FeedRec, FeedStates, SameUse
<1>5. PICK e : e = WithFeed(c, i, y)  OBVIOUS
<1>6. e = section_stop_filtering(d, i)  BY <1>1, <1>3, <1>5 DEF section_stop_filtering, WithFeed
<1>7. /\ e \in Demux /\ Only(c, e, i) /\ e.feed[i] = y
      /\ e.feeds = c.feeds /\ e.dma = c.dma
  BY <1>2, <1>4, <1>5, SetFeed
<1>8. Only(d, e, i)  BY <1>2, <1>7 DEF Only
<1>. QED  BY <1>2, <1>4, <1>6, <1>7, <1>8

(* dmx_ts_feed_stop_filtering does nothing to a feed that is not started.  *)
LEMMA TsStopFacts ==
  ASSUME NEW d \in Demux, NEW i \in 1 .. mode.feednum
  PROVE  LET e == ts_stop_filtering(d, i) IN
         /\ d.feed[i].state # "GO" => e = d
         /\ d.feed[i].state = "GO" =>
              /\ e \in Demux /\ Only(d, e, i)
              /\ SameUse(e.feed[i], d.feed[i])
              /\ e.feed[i].state = "ALLOCATED" /\ e.feed[i].filtering = FALSE
              /\ e.feeds = d.feeds - 1 /\ e.dma = (d.dma /\ d.feeds # 1)
<1>0. CASE d.feed[i].state # "GO"  BY <1>0 DEF ts_stop_filtering
<1>. SUFFICES ASSUME d.feed[i].state = "GO"
              PROVE  LET e == ts_stop_filtering(d, i) IN
                     /\ e \in Demux /\ Only(d, e, i)
                     /\ SameUse(e.feed[i], d.feed[i])
                     /\ e.feed[i].state = "ALLOCATED" /\ e.feed[i].filtering = FALSE
                     /\ e.feeds = d.feeds - 1 /\ e.dma = (d.dma /\ d.feeds # 1)
  BY <1>0
<1>1. PICK c : c = stop_feed(d)  OBVIOUS
<1>2. /\ c \in Demux /\ Only(d, c, i) /\ c.feed = d.feed
      /\ c.feeds = d.feeds - 1 /\ c.dma = (d.dma /\ d.feeds # 1)
  BY <1>1, CardFacts
<1>3. PICK y : y = [c.feed[i] EXCEPT !.filtering = FALSE, !.state = "ALLOCATED"]  OBVIOUS
<1>4. y \in FeedRec /\ SameUse(y, d.feed[i]) /\ y.state = "ALLOCATED" /\ y.filtering = FALSE
  <2>1. c.feed[i] \in FeedRec  BY <1>2, DemuxFields
  <2>. QED  BY <1>2, <1>3, <2>1 DEF FeedRec, FeedStates, SameUse
<1>5. PICK e : e = WithFeed(c, i, y)  OBVIOUS
<1>6. e = ts_stop_filtering(d, i)  BY <1>1, <1>3, <1>5 DEF ts_stop_filtering, WithFeed
<1>7. /\ e \in Demux /\ Only(c, e, i) /\ e.feed[i] = y
      /\ e.feeds = c.feeds /\ e.dma = c.dma
  BY <1>2, <1>4, <1>5, SetFeed
<1>8. Only(d, e, i)  BY <1>2, <1>7 DEF Only
<1>. QED  BY <1>2, <1>4, <1>6, <1>7, <1>8

(* The other feeds, and the card.                                          *)
Others(d, e, i) == \A j \in 1 .. mode.feednum : j # i => e.feed[j] = d.feed[j]
SameCard(d, e) == e.frontend = d.frontend /\ e.feeds = d.feeds /\ e.dma = d.dma

WithFilter(d, i, y, h) ==
  [d EXCEPT !.feed = [d.feed EXCEPT ![i] = y], !.filter = h]

(* A feed and the table of filters changed.                                *)
LEMMA WithFilterFacts ==
  ASSUME NEW d \in Demux, NEW i \in 1 .. mode.feednum, NEW y \in FeedRec,
         NEW h \in [1 .. mode.filternum -> FilterRec]
  PROVE  LET e == WithFilter(d, i, y, h) IN
         /\ e \in Demux /\ Others(d, e, i) /\ SameCard(d, e)
         /\ e.feed[i] = y
         /\ e.filter = h /\ e.feed_list = d.feed_list /\ e.pesfilter = d.pesfilter
<1>1. PICK g : g = [d.feed EXCEPT ![i] = y]  OBVIOUS
<1>2. d.feed \in [1 .. mode.feednum -> FeedRec]  BY DemuxFields
<1>3. g \in [1 .. mode.feednum -> FeedRec]  BY <1>1, <1>2
<1>4. PICK e : e = WithFilter(d, i, y, h)  OBVIOUS
<1>5. e = [d EXCEPT !.feed = g, !.filter = h]  BY <1>1, <1>4 DEF WithFilter
<1>6. e \in Demux  BY <1>3, <1>5 DEF Demux
<1>7. /\ e.feed = g /\ SameCard(d, e) /\ e.filter = h /\ e.feed_list = d.feed_list /\ e.pesfilter = d.pesfilter
  BY <1>5 DEF SameCard, Demux
<1>8. Others(d, e, i)  BY <1>1, <1>2, <1>7 DEF Others
<1>9. e.feed[i] = y  BY <1>1, <1>2, <1>7
<1>. QED  BY <1>4, <1>6, <1>7, <1>8, <1>9

WithList(d, i, y, l) ==
  [d EXCEPT !.feed = [d.feed EXCEPT ![i] = y], !.feed_list = l]

(* A feed and feed_list changed.                                           *)
LEMMA WithListFacts ==
  ASSUME NEW d \in Demux, NEW i \in 1 .. mode.feednum, NEW y \in FeedRec,
         NEW l \in SUBSET (1 .. mode.feednum)
  PROVE  LET e == WithList(d, i, y, l) IN
         /\ e \in Demux /\ Others(d, e, i) /\ SameCard(d, e)
         /\ e.feed[i] = y
         /\ e.filter = d.filter /\ e.feed_list = l /\ e.pesfilter = d.pesfilter
<1>1. PICK g : g = [d.feed EXCEPT ![i] = y]  OBVIOUS
<1>2. d.feed \in [1 .. mode.feednum -> FeedRec]  BY DemuxFields
<1>3. g \in [1 .. mode.feednum -> FeedRec]  BY <1>1, <1>2
<1>4. PICK e : e = WithList(d, i, y, l)  OBVIOUS
<1>5. e = [d EXCEPT !.feed = g, !.feed_list = l]  BY <1>1, <1>4 DEF WithList
<1>6. e \in Demux  BY <1>3, <1>5 DEF Demux
<1>7. /\ e.feed = g /\ SameCard(d, e) /\ e.filter = d.filter /\ e.feed_list = l /\ e.pesfilter = d.pesfilter
  BY <1>5 DEF SameCard, Demux
<1>8. Others(d, e, i)  BY <1>1, <1>2, <1>7 DEF Others
<1>9. e.feed[i] = y  BY <1>1, <1>2, <1>7
<1>. QED  BY <1>4, <1>6, <1>7, <1>8, <1>9

WithListPes(d, i, y, l, p) ==
  [d EXCEPT !.feed = [d.feed EXCEPT ![i] = y], !.feed_list = l, !.pesfilter = p]

(* A feed, feed_list and pesfilter changed.                                *)
LEMMA WithListPesFacts ==
  ASSUME NEW d \in Demux, NEW i \in 1 .. mode.feednum, NEW y \in FeedRec,
         NEW l \in SUBSET (1 .. mode.feednum),
         NEW p \in [Pes -> 0 .. mode.feednum]
  PROVE  LET e == WithListPes(d, i, y, l, p) IN
         /\ e \in Demux /\ Others(d, e, i) /\ SameCard(d, e)
         /\ e.feed[i] = y
         /\ e.filter = d.filter /\ e.feed_list = l /\ e.pesfilter = p
<1>1. PICK g : g = [d.feed EXCEPT ![i] = y]  OBVIOUS
<1>2. d.feed \in [1 .. mode.feednum -> FeedRec]  BY DemuxFields
<1>3. g \in [1 .. mode.feednum -> FeedRec]  BY <1>1, <1>2
<1>4. PICK e : e = WithListPes(d, i, y, l, p)  OBVIOUS
<1>5. e = [d EXCEPT !.feed = g, !.feed_list = l, !.pesfilter = p]  BY <1>1, <1>4 DEF WithListPes
<1>6. e \in Demux  BY <1>3, <1>5 DEF Demux
<1>7. /\ e.feed = g /\ SameCard(d, e) /\ e.filter = d.filter /\ e.feed_list = l /\ e.pesfilter = p
  BY <1>5 DEF SameCard, Demux
<1>8. Others(d, e, i)  BY <1>1, <1>2, <1>7 DEF Others
<1>9. e.feed[i] = y  BY <1>1, <1>2, <1>7
<1>. QED  BY <1>4, <1>6, <1>7, <1>8, <1>9

WithAll(d, i, y, h, l, p) ==
  [d EXCEPT !.feed = [d.feed EXCEPT ![i] = y], !.filter = h, !.feed_list = l, !.pesfilter = p]

(* A feed and all the tables changed.                                      *)
LEMMA WithAllFacts ==
  ASSUME NEW d \in Demux, NEW i \in 1 .. mode.feednum, NEW y \in FeedRec,
         NEW h \in [1 .. mode.filternum -> FilterRec], NEW l \in SUBSET (1 .. mode.feednum),
         NEW p \in [Pes -> 0 .. mode.feednum]
  PROVE  LET e == WithAll(d, i, y, h, l, p) IN
         /\ e \in Demux /\ Others(d, e, i) /\ SameCard(d, e)
         /\ e.feed[i] = y
         /\ e.filter = h /\ e.feed_list = l /\ e.pesfilter = p
<1>1. PICK g : g = [d.feed EXCEPT ![i] = y]  OBVIOUS
<1>2. d.feed \in [1 .. mode.feednum -> FeedRec]  BY DemuxFields
<1>3. g \in [1 .. mode.feednum -> FeedRec]  BY <1>1, <1>2
<1>4. PICK e : e = WithAll(d, i, y, h, l, p)  OBVIOUS
<1>5. e = [d EXCEPT !.feed = g, !.filter = h, !.feed_list = l, !.pesfilter = p]  BY <1>1, <1>4 DEF WithAll
<1>6. e \in Demux  BY <1>3, <1>5 DEF Demux
<1>7. /\ e.feed = g /\ SameCard(d, e) /\ e.filter = h /\ e.feed_list = l /\ e.pesfilter = p
  BY <1>5 DEF SameCard, Demux
<1>8. Others(d, e, i)  BY <1>1, <1>2, <1>7 DEF Others
<1>9. e.feed[i] = y  BY <1>1, <1>2, <1>7
<1>. QED  BY <1>4, <1>6, <1>7, <1>8, <1>9

(* The sizes of the tables are positive numbers.                           *)
LEMMA Numbers ==
  ASSUME mode \in Modes
  PROVE  /\ mode.feednum \in Nat /\ mode.feednum > 0
         /\ mode.filternum \in Nat /\ mode.filternum > 0
         /\ mode.params \subseteq Param /\ NDev \in Nat /\ NDev > 0
BY LifeConstants, DemuxConstants DEF Feeds, Filters

(* dvb_dmx_feed_alloc finds a free feed if there is one.                   *)
LEMMA FeedAlloc ==
  ASSUME mode \in Modes, NEW d \in Demux, FreeFeeds(d) # {}
  PROVE  feed_alloc(d) \in 1 .. mode.feednum /\ d.feed[feed_alloc(d)].state = "FREE"
<1>1. FreeFeeds(d) \in SUBSET Nat  BY Numbers, DemuxFields DEF FreeFeeds
<1>2. feed_alloc(d) \in FreeFeeds(d)  BY <1>1, MinIn DEF feed_alloc
<1>. QED  BY <1>2, DemuxFields DEF FreeFeeds

(* dvb_dmx_filter_alloc finds a free filter if there is one.               *)
LEMMA FilterAlloc ==
  ASSUME mode \in Modes, NEW d \in Demux, FreeFilters(d) # {}
  PROVE  filter_alloc(d) \in 1 .. mode.filternum /\ d.filter[filter_alloc(d)].free
<1>1. FreeFilters(d) \in SUBSET Nat  BY Numbers, DemuxFields DEF FreeFilters
<1>2. filter_alloc(d) \in FreeFilters(d)  BY <1>1, MinIn DEF filter_alloc
<1>. QED  BY <1>2, DemuxFields DEF FreeFilters

(* dvbdmx_allocate_section_feed takes a free feed and empties its list.    *)
LEMMA AllocateSectionFacts ==
  ASSUME mode \in Modes, NEW d \in Demux, FreeFeeds(d) # {}
  PROVE  LET e == allocate_section_feed(d)
             i == feed_alloc(d)
         IN
         /\ e \in Demux /\ Only(d, e, i)
         /\ e.feeds = d.feeds /\ e.dma = d.dma
         /\ e.feed[i].state = "ALLOCATED" /\ e.feed[i].type = "SEC" /\ e.feed[i].pid = NoPid
         /\ e.feed[i].filtering = FALSE /\ e.feed[i].filters = << >>
<1>1. PICK i : i = feed_alloc(d)  OBVIOUS
<1>2. i \in 1 .. mode.feednum  BY <1>1, FeedAlloc
<1>3. d.feed[i] \in FeedRec  BY <1>2, DemuxFields
<1>4. PICK y : y = [d.feed[i] EXCEPT !.state = "ALLOCATED", !.type = "SEC", !.pid = NoPid,
                                     !.filtering = FALSE, !.filters = << >>]
  OBVIOUS
<1>5. << >> \in Seq(1 .. mode.filternum)  OBVIOUS
<1>6. /\ y \in FeedRec /\ y.state = "ALLOCATED" /\ y.type = "SEC" /\ y.pid = NoPid
      /\ y.filtering = FALSE /\ y.filters = << >>
  BY <1>3, <1>4, <1>5 DEF FeedRec, FeedStates
<1>7. PICK e : e = WithFeed(d, i, y)  OBVIOUS
<1>8. e = allocate_section_feed(d)  BY <1>1, <1>4, <1>7 DEF allocate_section_feed, WithFeed
<1>9. e \in Demux /\ Only(d, e, i) /\ e.feed[i] = y /\ e.feeds = d.feeds /\ e.dma = d.dma
  BY <1>2, <1>6, <1>7, SetFeed
<1>. QED  BY <1>1, <1>6, <1>8, <1>9

(* dmx_section_feed_set enters the feed in feed_list under its PID.        *)
LEMMA SectionSetFacts ==
  ASSUME NEW d \in Demux, NEW i \in 1 .. mode.feednum, NEW pid \in {par.pid : par \in mode.params}
  PROVE  LET e == section_feed_set(d, i, pid) IN
         /\ e \in Demux /\ Others(d, e, i) /\ SameCard(d, e)
         /\ e.feed[i].state = "READY" /\ e.feed[i].pid = pid
         /\ e.feed[i].type = d.feed[i].type /\ e.feed[i].filters = d.feed[i].filters
         /\ e.feed[i].filtering = d.feed[i].filtering
         /\ e.filter = d.filter /\ e.feed_list = d.feed_list \cup {i} /\ e.pesfilter = d.pesfilter
<1>1. d.feed[i] \in FeedRec  BY DemuxFields
<1>2. PICK y : y = [d.feed[i] EXCEPT !.state = "READY", !.pid = pid]  OBVIOUS
<1>3. /\ y \in FeedRec /\ y.state = "READY" /\ y.pid = pid /\ y.type = d.feed[i].type
      /\ y.filters = d.feed[i].filters /\ y.filtering = d.feed[i].filtering
  BY <1>1, <1>2 DEF FeedRec, FeedStates
<1>4. PICK l \in SUBSET (1 .. mode.feednum) : l = d.feed_list \cup {i}  BY DemuxFields
<1>5. PICK e : e = WithList(d, i, y, l)  OBVIOUS
<1>6. e = section_feed_set(d, i, pid)  BY <1>2, <1>4, <1>5 DEF section_feed_set, WithList
<1>7. /\ e \in Demux /\ Others(d, e, i) /\ SameCard(d, e) /\ e.feed[i] = y
      /\ e.filter = d.filter /\ e.feed_list = l /\ e.pesfilter = d.pesfilter
  BY <1>3, <1>5, WithListFacts
<1>. QED  BY <1>3, <1>4, <1>6, <1>7

(* dvbdmx_release_section_feed takes the feed out of feed_list.            *)
LEMMA ReleaseSectionFacts ==
  ASSUME mode \in Modes, NEW d \in Demux, NEW i \in 1 .. mode.feednum
  PROVE  LET e == release_section_feed(d, i) IN
         /\ d.feed[i].state = "FREE" => e = d
         /\ d.feed[i].state # "FREE" =>
              /\ e \in Demux /\ Others(d, e, i) /\ SameCard(d, e)
              /\ e.feed[i].state = "FREE" /\ e.feed[i].type = d.feed[i].type
              /\ e.feed[i].filters = d.feed[i].filters
              /\ e.feed[i].filtering = d.feed[i].filtering
              /\ e.filter = d.filter /\ e.feed_list = d.feed_list \ {i} /\ e.pesfilter = d.pesfilter
<1>0. CASE d.feed[i].state = "FREE"  BY <1>0 DEF release_section_feed
<1>. SUFFICES ASSUME d.feed[i].state # "FREE"
              PROVE  LET e == release_section_feed(d, i) IN
                     /\ e \in Demux /\ Others(d, e, i) /\ SameCard(d, e)
                     /\ e.feed[i].state = "FREE" /\ e.feed[i].type = d.feed[i].type
                     /\ e.feed[i].filters = d.feed[i].filters
                     /\ e.feed[i].filtering = d.feed[i].filtering
                     /\ e.filter = d.filter /\ e.feed_list = d.feed_list \ {i}
                     /\ e.pesfilter = d.pesfilter
  BY <1>0
<1>1. d.feed[i] \in FeedRec  BY DemuxFields
<1>2. PICK y : y = [d.feed[i] EXCEPT !.state = "FREE", !.pid = NoPid, !.priv = 0]  OBVIOUS
<1>3. /\ y \in FeedRec /\ y.state = "FREE" /\ y.type = d.feed[i].type
      /\ y.filters = d.feed[i].filters /\ y.filtering = d.feed[i].filtering
  <2>1. 0 \in 0 .. NDev  BY Numbers
  <2>. QED  BY <1>1, <1>2, <2>1 DEF FeedRec, FeedStates
<1>4. PICK l \in SUBSET (1 .. mode.feednum) : l = d.feed_list \ {i}  BY DemuxFields
<1>5. PICK e : e = WithList(d, i, y, l)  OBVIOUS
<1>6. e = release_section_feed(d, i)  BY <1>2, <1>4, <1>5 DEF release_section_feed, WithList
<1>7. /\ e \in Demux /\ Others(d, e, i) /\ SameCard(d, e)
      /\ e.feed[i] = y
      /\ e.filter = d.filter /\ e.feed_list = l /\ e.pesfilter = d.pesfilter
  BY <1>3, <1>5, WithListFacts
<1>. QED  BY <1>3, <1>4, <1>6, <1>7

(* The entries written to the table of filters are of their type.          *)
LEMMA FilterTypes ==
  ASSUME mode \in Modes
  PROVE  /\ NoFilter \in FilterRec
         /\ \A i \in 1 .. mode.feednum : [free |-> FALSE, feed |-> i, priv |-> 0] \in FilterRec
         /\ \A x \in FilterRec, i \in 1 .. mode.feednum :
              LET z == [x EXCEPT !.free = FALSE, !.feed = i]
              IN z \in FilterRec /\ z.free = FALSE /\ z.feed = i
         /\ \A x \in FilterRec, f \in 1 .. NDev :
              LET z == [x EXCEPT !.priv = f]
              IN z \in FilterRec /\ z.free = x.free /\ z.feed = x.feed /\ z.priv = f
<1>1. 0 \in 0 .. NDev /\ 0 \in 0 .. mode.feednum  BY Numbers
<1>2. NoFilter \in FilterRec  BY <1>1 DEF FilterRec, NoFilter
<1>3. \A i \in 1 .. mode.feednum : [free |-> FALSE, feed |-> i, priv |-> 0] \in FilterRec
  BY <1>1 DEF FilterRec
<1>4. ASSUME NEW x \in FilterRec, NEW i \in 1 .. mode.feednum
      PROVE  LET z == [x EXCEPT !.free = FALSE, !.feed = i]
             IN z \in FilterRec /\ z.free = FALSE /\ z.feed = i
  <2>1. i \in 0 .. mode.feednum  BY Numbers
  <2>. QED  BY <2>1 DEF FilterRec
<1>5. ASSUME NEW x \in FilterRec, NEW f \in 1 .. NDev
      PROVE  LET z == [x EXCEPT !.priv = f]
             IN z \in FilterRec /\ z.free = x.free /\ z.feed = x.feed /\ z.priv = f
  <2>1. f \in 0 .. NDev  BY Numbers
  <2>. QED  BY <2>1 DEF FilterRec
<1>. QED  BY <1>2, <1>3, <1>4, <1>5

(* dvbdmx_allocate_ts_feed takes a feed and the filter that is its list.   *)
LEMMA AllocateTsFacts ==
  ASSUME mode \in Modes, NEW d \in Demux, FreeFeeds(d) # {}, FreeFilters(d) # {}, NEW f \in 1 .. NDev
  PROVE  LET e == allocate_ts_feed(d, f)
             i == feed_alloc(d)
             k == filter_alloc(d)
         IN
         /\ e \in Demux /\ Others(d, e, i) /\ SameCard(d, e)
         /\ e.feed[i].state = "ALLOCATED" /\ e.feed[i].type = "TS" /\ e.feed[i].filtering = FALSE
         /\ e.feed[i].filters = <<k>> /\ e.feed[i].priv = f
         /\ e.feed_list = d.feed_list /\ e.pesfilter = d.pesfilter
         /\ \A j \in 1 .. mode.filternum : j # k => e.filter[j] = d.filter[j]
         /\ e.filter[k].free = FALSE /\ e.filter[k].feed = i
<1>1. PICK i, k : i = feed_alloc(d) /\ k = filter_alloc(d)  OBVIOUS
<1>2. i \in 1 .. mode.feednum /\ k \in 1 .. mode.filternum  BY <1>1, FeedAlloc, FilterAlloc
<1>3. d.feed[i] \in FeedRec /\ d.filter[k] \in FilterRec  BY <1>2, DemuxFields
<1>4. PICK y : y = [d.feed[i] EXCEPT !.state = "ALLOCATED", !.type = "TS", !.pid = NoPid,
                                     !.filtering = FALSE, !.filters = <<k>>, !.priv = f]
  OBVIOUS
<1>5. <<k>> \in Seq(1 .. mode.filternum) /\ f \in 0 .. NDev  BY <1>2, Numbers
<1>6. /\ y \in FeedRec /\ y.state = "ALLOCATED" /\ y.type = "TS" /\ y.filtering = FALSE
      /\ y.filters = <<k>> /\ y.priv = f
  BY <1>3, <1>4, <1>5 DEF FeedRec, FeedStates
<1>7. PICK z : z = [d.filter[k] EXCEPT !.free = FALSE, !.feed = i]  OBVIOUS
<1>8. z \in FilterRec /\ z.free = FALSE /\ z.feed = i  BY <1>2, <1>3, <1>7, FilterTypes
<1>9. PICK h : h = [d.filter EXCEPT ![k] = z]  OBVIOUS
<1>10. /\ h \in [1 .. mode.filternum -> FilterRec] /\ h[k] = z
       /\ \A j \in 1 .. mode.filternum : j # k => h[j] = d.filter[j]
  BY <1>2, <1>8, <1>9, DemuxFields
<1>11. PICK e : e = WithFilter(d, i, y, h)  OBVIOUS
<1>12. e = allocate_ts_feed(d, f)
  BY <1>1, <1>4, <1>7, <1>9, <1>11 DEF allocate_ts_feed, WithFilter
<1>13. /\ e \in Demux /\ Others(d, e, i) /\ SameCard(d, e) /\ e.feed[i] = y
       /\ e.filter = h /\ e.feed_list = d.feed_list /\ e.pesfilter = d.pesfilter
  BY <1>2, <1>6, <1>10, <1>11, WithFilterFacts
<1>. QED  BY <1>1, <1>6, <1>8, <1>10, <1>12, <1>13

(* dmx_ts_feed_set enters the feed in feed_list and in pesfilter.          *)
LEMMA TsSetFacts ==
  ASSUME mode \in Modes, NEW d \in Demux, NEW i \in 1 .. mode.feednum, NEW par \in mode.params
  PROVE  LET e == ts_feed_set(d, i, par.pid, par.dec, par.out) IN
         /\ e \in Demux /\ Others(d, e, i) /\ SameCard(d, e)
         /\ e.feed[i].state = "READY" /\ e.feed[i].pid = par.pid /\ e.feed[i].dec = par.dec
         /\ e.feed[i].type = d.feed[i].type /\ e.feed[i].filters = d.feed[i].filters
         /\ e.feed[i].filtering = d.feed[i].filtering /\ e.feed[i].priv = d.feed[i].priv
         /\ e.filter = d.filter /\ e.feed_list = d.feed_list \cup {i}
         /\ \A p \in Pes : e.pesfilter[p] = IF p = par.dec THEN i ELSE d.pesfilter[p]
<1>1. d.feed[i] \in FeedRec  BY DemuxFields
<1>2. PICK y : y = [d.feed[i] EXCEPT !.state = "READY", !.pid = par.pid, !.dec = par.dec, !.out = par.out]
  OBVIOUS
<1>3. par.dec \in Pes \cup {NoPes, "bad"} /\ par.out \in {"none", "tap", "dvr"}
  BY Numbers DEF Param
<1>4. /\ y \in FeedRec /\ y.state = "READY" /\ y.pid = par.pid /\ y.dec = par.dec
      /\ y.type = d.feed[i].type
      /\ y.filters = d.feed[i].filters /\ y.filtering = d.feed[i].filtering /\ y.priv = d.feed[i].priv
  BY <1>1, <1>2, <1>3 DEF FeedRec, FeedStates
<1>5. PICK l \in SUBSET (1 .. mode.feednum) : l = d.feed_list \cup {i}  BY DemuxFields
<1>6. PICK q : q = [p \in Pes |-> IF p = par.dec THEN i ELSE d.pesfilter[p]]  OBVIOUS
<1>7. /\ q \in [Pes -> 0 .. mode.feednum]
      /\ \A p \in Pes : q[p] = IF p = par.dec THEN i ELSE d.pesfilter[p]
  BY <1>6, DemuxFields
<1>8. PICK e : e = WithListPes(d, i, y, l, q)  OBVIOUS
<1>9. e = ts_feed_set(d, i, par.pid, par.dec, par.out)
  BY <1>2, <1>5, <1>6, <1>8 DEF ts_feed_set, WithListPes
<1>10. /\ e \in Demux /\ Others(d, e, i) /\ SameCard(d, e) /\ e.feed[i] = y
       /\ e.filter = d.filter /\ e.feed_list = l /\ e.pesfilter = q
  BY <1>4, <1>7, <1>8, WithListPesFacts
<1>. QED  BY <1>4, <1>5, <1>7, <1>9, <1>10

(* dvbdmx_release_ts_feed frees the feed, its filter and its entry of      *)
(* pesfilter.                                                              *)
LEMMA ReleaseTsFacts ==
  ASSUME mode \in Modes, NEW d \in Demux, NEW i \in 1 .. mode.feednum, d.feed[i].state # "FREE"
  PROVE  LET e == release_ts_feed(d, i) IN
         /\ e \in Demux /\ Others(d, e, i) /\ SameCard(d, e)
         /\ e.feed[i].state = "FREE" /\ e.feed[i].filtering = d.feed[i].filtering
         /\ e.feed_list = d.feed_list \ {i}
         /\ \A p \in Pes : e.pesfilter[p] = IF p = d.feed[i].dec THEN 0 ELSE d.pesfilter[p]
         /\ \A j \in 1 .. mode.filternum :
              e.filter[j] = IF j = Head(d.feed[i].filters) THEN NoFilter ELSE d.filter[j]
<1>1. d.feed[i] \in FeedRec  BY DemuxFields
<1>2. PICK y : y = [d.feed[i] EXCEPT !.state = "FREE", !.pid = NoPid, !.priv = 0]  OBVIOUS
<1>3. y \in FeedRec /\ y.state = "FREE" /\ y.filtering = d.feed[i].filtering
  <2>1. 0 \in 0 .. NDev  BY Numbers
  <2>. QED  BY <1>1, <1>2, <2>1 DEF FeedRec, FeedStates
<1>4. PICK l \in SUBSET (1 .. mode.feednum) : l = d.feed_list \ {i}  BY DemuxFields
<1>5. PICK k : k = Head(d.feed[i].filters)  OBVIOUS
<1>6. PICK h : h = [d.filter EXCEPT ![k] = NoFilter]  OBVIOUS
<1>7. /\ h \in [1 .. mode.filternum -> FilterRec]
      /\ \A j \in 1 .. mode.filternum : h[j] = IF j = k THEN NoFilter ELSE d.filter[j]
  BY <1>6, FilterTypes, DemuxFields
<1>8. PICK q : q = [p \in Pes |-> IF p = d.feed[i].dec THEN 0 ELSE d.pesfilter[p]]  OBVIOUS
<1>9. /\ q \in [Pes -> 0 .. mode.feednum]
      /\ \A p \in Pes : q[p] = IF p = d.feed[i].dec THEN 0 ELSE d.pesfilter[p]
  BY <1>8, DemuxFields, Numbers
<1>10. PICK e : e = WithAll(d, i, y, h, l, q)  OBVIOUS
<1>11. e = release_ts_feed(d, i)
  BY <1>2, <1>4, <1>5, <1>6, <1>8, <1>10 DEF release_ts_feed, WithAll
<1>12. /\ e \in Demux /\ Others(d, e, i) /\ SameCard(d, e) /\ e.feed[i] = y
       /\ e.filter = h /\ e.feed_list = l /\ e.pesfilter = q
  BY <1>3, <1>7, <1>9, <1>10, WithAllFacts
<1>. QED  BY <1>3, <1>4, <1>5, <1>7, <1>9, <1>11, <1>12

(* Two feeds that differ in their filters at most.                         *)
SameSetting(x, y) ==
  /\ x.state = y.state /\ x.filtering = y.filtering
  /\ x.type = y.type /\ x.pid = y.pid /\ x.dec = y.dec /\ x.out = y.out /\ x.priv = y.priv

(* dmx_section_feed_allocate_filter puts a free filter at the head of the  *)
(* list.                                                                   *)
LEMMA AllocateFilterFacts ==
  ASSUME mode \in Modes, NEW d \in Demux, FreeFilters(d) # {}, NEW i \in 1 .. mode.feednum
  PROVE  LET e == allocate_filter(d, i)
             k == filter_alloc(d)
         IN
         /\ e \in Demux /\ Others(d, e, i) /\ SameCard(d, e)
         /\ SameSetting(e.feed[i], d.feed[i]) /\ e.feed[i].filters = <<k>> \o d.feed[i].filters
         /\ e.feed_list = d.feed_list /\ e.pesfilter = d.pesfilter
         /\ \A j \in 1 .. mode.filternum : j # k => e.filter[j] = d.filter[j]
         /\ e.filter[k].free = FALSE /\ e.filter[k].feed = i
<1>1. PICK k : k = filter_alloc(d)  OBVIOUS
<1>2. k \in 1 .. mode.filternum  BY <1>1, FilterAlloc
<1>3. d.feed[i] \in FeedRec  BY DemuxFields
<1>4. PICK s : s = <<k>> \o d.feed[i].filters  OBVIOUS
<1>5. s \in Seq(1 .. mode.filternum)  BY <1>2, <1>3, <1>4, FeedFields
<1>6. PICK y : y = [d.feed[i] EXCEPT !.filters = s]  OBVIOUS
<1>7. y \in FeedRec /\ SameSetting(y, d.feed[i]) /\ y.filters = s
  BY <1>3, <1>5, <1>6 DEF FeedRec, SameSetting
<1>8. PICK z : z = [free |-> FALSE, feed |-> i, priv |-> 0]  OBVIOUS
<1>9. z \in FilterRec /\ z.free = FALSE /\ z.feed = i  BY <1>8, FilterTypes
<1>10. PICK h : h = [d.filter EXCEPT ![k] = z]  OBVIOUS
<1>11. /\ h \in [1 .. mode.filternum -> FilterRec] /\ h[k] = z
       /\ \A j \in 1 .. mode.filternum : j # k => h[j] = d.filter[j]
  BY <1>2, <1>9, <1>10, DemuxFields
<1>12. PICK e : e = WithFilter(d, i, y, h)  OBVIOUS
<1>13. e = allocate_filter(d, i)
  BY <1>1, <1>4, <1>6, <1>8, <1>10, <1>12 DEF allocate_filter, WithFilter
<1>14. /\ e \in Demux /\ Others(d, e, i) /\ SameCard(d, e) /\ e.feed[i] = y
       /\ e.filter = h /\ e.feed_list = d.feed_list /\ e.pesfilter = d.pesfilter
  BY <1>7, <1>11, <1>12, WithFilterFacts
<1>. QED  BY <1>1, <1>4, <1>7, <1>9, <1>11, <1>13, <1>14

(* dmx_section_feed_release_filter takes a filter out of its feed's list.  *)
LEMMA ReleaseFilterFacts ==
  ASSUME mode \in Modes, NEW d \in Demux, NEW i \in 1 .. mode.feednum, NEW k \in 1 .. mode.filternum
  PROVE  LET e == release_filter(d, i, k) IN
         /\ d.filter[k].feed # i => e = d
         /\ d.filter[k].feed = i =>
              /\ e \in Demux /\ Others(d, e, i) /\ SameCard(d, e)
              /\ SameSetting(e.feed[i], d.feed[i]) /\ e.feed[i].filters = RemoveFirst(d.feed[i].filters, k)
              /\ e.feed_list = d.feed_list /\ e.pesfilter = d.pesfilter
              /\ \A j \in 1 .. mode.filternum : j # k => e.filter[j] = d.filter[j]
              /\ e.filter[k] = NoFilter
<1>0. CASE d.filter[k].feed # i  BY <1>0 DEF release_filter
<1>. SUFFICES ASSUME d.filter[k].feed = i
              PROVE  LET e == release_filter(d, i, k) IN
                     /\ e \in Demux /\ Others(d, e, i) /\ SameCard(d, e)
                     /\ SameSetting(e.feed[i], d.feed[i])
                     /\ e.feed[i].filters = RemoveFirst(d.feed[i].filters, k)
                     /\ e.feed_list = d.feed_list /\ e.pesfilter = d.pesfilter
                     /\ \A j \in 1 .. mode.filternum : j # k => e.filter[j] = d.filter[j]
                     /\ e.filter[k] = NoFilter
  BY <1>0
<1>1. d.feed[i] \in FeedRec  BY DemuxFields
<1>2. PICK s : s = RemoveFirst(d.feed[i].filters, k)  OBVIOUS
<1>3. s \in Seq(1 .. mode.filternum)  BY <1>1, <1>2, FeedFields, RemoveFirstType
<1>4. PICK y : y = [d.feed[i] EXCEPT !.filters = s]  OBVIOUS
<1>5. y \in FeedRec /\ SameSetting(y, d.feed[i]) /\ y.filters = s
  BY <1>1, <1>3, <1>4 DEF FeedRec, SameSetting
<1>6. PICK h : h = [d.filter EXCEPT ![k] = NoFilter]  OBVIOUS
<1>7. /\ h \in [1 .. mode.filternum -> FilterRec] /\ h[k] = NoFilter
      /\ \A j \in 1 .. mode.filternum : j # k => h[j] = d.filter[j]
  BY <1>6, FilterTypes, DemuxFields
<1>8. PICK e : e = WithFilter(d, i, y, h)  OBVIOUS
<1>9. e = release_filter(d, i, k)
  BY <1>2, <1>4, <1>6, <1>8 DEF release_filter, WithFilter
<1>10. /\ e \in Demux /\ Others(d, e, i) /\ SameCard(d, e) /\ e.feed[i] = y
       /\ e.filter = h /\ e.feed_list = d.feed_list /\ e.pesfilter = d.pesfilter
  BY <1>5, <1>7, <1>8, WithFilterFacts
<1>. QED  BY <1>2, <1>5, <1>7, <1>9, <1>10

(* The owner entered by filter_start.                                      *)
Named(d, k, f) == [d EXCEPT !.filter = [d.filter EXCEPT ![k] = [d.filter[k] EXCEPT !.priv = f]]]

(* The owner of a section filter set, as filter_start does.                *)
LEMMA NamedFacts ==
  ASSUME mode \in Modes, NEW d \in Demux, NEW k \in 1 .. mode.filternum, NEW f \in 1 .. NDev
  PROVE  LET e == Named(d, k, f) IN
         /\ e \in Demux /\ e.feed = d.feed /\ SameCard(d, e)
         /\ e.feed_list = d.feed_list /\ e.pesfilter = d.pesfilter
         /\ \A j \in 1 .. mode.filternum : j # k => e.filter[j] = d.filter[j]
         /\ e.filter[k].free = d.filter[k].free /\ e.filter[k].feed = d.filter[k].feed
         /\ e.filter[k].priv = f
<1>1. PICK z : z = [d.filter[k] EXCEPT !.priv = f]  OBVIOUS
<1>2. d.filter[k] \in FilterRec  BY DemuxFields
<1>3. /\ z \in FilterRec /\ z.free = d.filter[k].free /\ z.feed = d.filter[k].feed /\ z.priv = f
  BY <1>1, <1>2, FilterTypes
<1>4. PICK h : h = [d.filter EXCEPT ![k] = z]  OBVIOUS
<1>5. /\ h \in [1 .. mode.filternum -> FilterRec] /\ h[k] = z
      /\ \A j \in 1 .. mode.filternum : j # k => h[j] = d.filter[j]
  BY <1>3, <1>4, DemuxFields
<1>6. PICK e : e = Named(d, k, f)  OBVIOUS
<1>7. e = [d EXCEPT !.filter = h]  BY <1>1, <1>4, <1>6 DEF Named
<1>8. e \in Demux  BY <1>5, <1>7 DEF Demux
<1>9. /\ e.feed = d.feed /\ SameCard(d, e) /\ e.filter = h
      /\ e.feed_list = d.feed_list /\ e.pesfilter = d.pesfilter
  BY <1>7 DEF Demux, SameCard
<1>. QED  BY <1>3, <1>5, <1>6, <1>8, <1>9

-----------------------------------------------------------------------------
(* The tables stay in order under each call                                *)

(* The domains of the tables.                                              *)
LEMMA Tables ==
  ASSUME NEW d \in Demux
  PROVE  /\ DOMAIN d.feed = 1 .. mode.feednum /\ DOMAIN d.filter = 1 .. mode.filternum
         /\ Used(d) = {i \in 1 .. mode.feednum : d.feed[i].state # "FREE"}
         /\ Filtering(d) = {i \in 1 .. mode.feednum : d.feed[i].filtering}
<1>1. DOMAIN d.feed = 1 .. mode.feednum /\ DOMAIN d.filter = 1 .. mode.filternum  BY DemuxFields
<1>. QED  BY <1>1 DEF Used, Filtering

(* A feed's list holds filters of the table.                               *)
LEMMA FeedLists ==
  ASSUME NEW d \in Demux, NEW i \in 1 .. mode.feednum
  PROVE  /\ d.feed[i].filters \in Seq(1 .. mode.filternum)
         /\ Range(d.feed[i].filters) \subseteq 1 .. mode.filternum
<1>1. d.feed[i] \in FeedRec  BY DemuxFields
<1>2. d.feed[i].filters \in Seq(1 .. mode.filternum)  BY <1>1, FeedFields
<1>3. PICK s : s = d.feed[i].filters  OBVIOUS
<1>4. Range(s) \subseteq 1 .. mode.filternum  BY <1>2, <1>3, SmallLists
<1>. QED  BY <1>2, <1>3, <1>4

(* A filter that is served has a feed that is not free.                    *)
LEMMA ServedUsed ==
  ASSUME NEW d \in Demux, NEW fs, NEW f, NEW b, Served(d, fs, f, b), Listed(d)
  PROVE  fs[f].feed \in Used(d) /\ fs[f].feed \in 1 .. mode.feednum
BY Tables, DemuxFields DEF Served, Listed

(* Nothing depends on what a free feed or filter contains.                 *)
LEMMA SameLive ==
  ASSUME NEW d \in Demux, NEW e \in Demux, NEW fs, NEW H, NEW w, NEW b,
         Live(d, fs, H, w, b), Listed(d),
         \A i \in 1 .. mode.feednum :
           \/ e.feed[i] = d.feed[i]
           \/ d.feed[i].state = "FREE" /\ e.feed[i].state = "FREE" /\ ~e.feed[i].filtering,
         \A k \in 1 .. mode.filternum :
           e.filter[k] = d.filter[k] \/ (d.filter[k].free /\ e.filter[k].free),
         e.feed_list = d.feed_list, e.feeds = d.feeds, e.dma = d.dma
  PROVE  Live(e, fs, H, w, b)
<1>0. /\ DOMAIN d.feed = 1 .. mode.feednum /\ DOMAIN d.filter = 1 .. mode.filternum
      /\ Used(d) = {i \in 1 .. mode.feednum : d.feed[i].state # "FREE"}
      /\ Filtering(d) = {i \in 1 .. mode.feednum : d.feed[i].filtering}
  BY Tables
<1>01. /\ DOMAIN e.feed = 1 .. mode.feednum /\ DOMAIN e.filter = 1 .. mode.filternum
      /\ Used(e) = {i \in 1 .. mode.feednum : e.feed[i].state # "FREE"}
      /\ Filtering(e) = {i \in 1 .. mode.feednum : e.feed[i].filtering}
  BY Tables
<1>1. Used(e) = Used(d)  BY <1>0, <1>01
<1>2. \A i \in Used(d) : e.feed[i] = d.feed[i]  BY <1>0
<1>3. Runs(d, w) /\ Counts(d) /\ Lists(d) /\ SecFeeds(d, fs, H, w, b) /\ TsFeeds(d, fs, H)
  BY DEF Live
<1>4. Runs(e, w)  BY <1>0, <1>01, <1>3 DEF Runs
<1>5. Counts(e)
  <2>1. Filtering(e) = Filtering(d)  BY <1>0, <1>01, <1>3 DEF Runs
  <2>. QED  BY <2>1, <1>3 DEF Counts
<1>6. ASSUME NEW i \in Used(d), NEW k \in Range(d.feed[i].filters)
      PROVE  k \in 1 .. mode.filternum /\ e.filter[k] = d.filter[k]
  <2>1. k \in 1 .. mode.filternum  BY <1>0, FeedLists
  <2>. QED  BY <1>3, <2>1 DEF Lists
<1>7. Lists(e)
  <2>1. ASSUME NEW i \in Used(e)
        PROVE  /\ IsInjective(e.feed[i].filters)
               /\ \A k \in Range(e.feed[i].filters) : ~e.filter[k].free /\ e.filter[k].feed = i
    BY <1>1, <1>2, <1>3, <1>6 DEF Lists
  <2>2. ASSUME NEW k \in DOMAIN e.filter, ~e.filter[k].free
        PROVE  e.filter[k].feed \in Used(e) /\ k \in Range(e.feed[e.filter[k].feed].filters)
    <3>1. e.filter[k] = d.filter[k]  BY <2>2, <1>01
    <3>2. d.filter[k].feed \in Used(d) /\ k \in Range(d.feed[d.filter[k].feed].filters)
      BY <3>1, <2>2, <1>0, <1>01, <1>3 DEF Lists
    <3>. QED  BY <3>1, <3>2, <1>1, <1>2
  <2>. QED  BY <2>1, <2>2 DEF Lists
<1>8. SecFeeds(e, fs, H, w, b)  BY <1>1, <1>2, <1>3, <1>6 DEF SecFeeds
<1>9. TsFeeds(e, fs, H)  BY <1>1, <1>2, <1>3 DEF TsFeeds
<1>10. ASSUME NEW f \in H PROVE Served(e, fs, f, b)
  <2>1. Served(d, fs, f, b)  BY DEF Live
  <2>2. fs[f].feed \in Used(d)  BY <2>1, ServedUsed
  <2>. QED  BY <2>1, <2>2, <1>1, <1>2, <1>6 DEF Served
<1>. QED  BY <1>4, <1>5, <1>7, <1>8, <1>9, <1>10 DEF Live

(* The parts of Live that do not depend on which feeds are filtering.      *)
Owned(d, fs, H, b) ==
  /\ Lists(d) /\ TsFeeds(d, fs, H) /\ \A f \in H : Served(d, fs, f, b)

(* Who owns what does not depend on which feed is stopped.                 *)
LEMMA SameOwners ==
  ASSUME NEW d \in Demux, NEW e \in Demux, NEW fs, NEW H, NEW b, NEW w, NEW v,
         \A i \in 1 .. mode.feednum :
           SameUse(e.feed[i], d.feed[i]) /\ (e.feed[i].state = "FREE" <=> d.feed[i].state = "FREE"),
         e.filter = d.filter, e.feed_list = d.feed_list, Listed(d),
         w = 0 \/ w = v \/ d.feed[w].filters # << >>, mode.feednum \in Nat,
         Owned(d, fs, H, b), SecFeeds(d, fs, H, w, b)
  PROVE  Owned(e, fs, H, b) /\ SecFeeds(e, fs, H, v, b)
<1>0. Used(d) = {i \in 1 .. mode.feednum : d.feed[i].state # "FREE"} /\ DOMAIN d.filter = 1 .. mode.filternum
  BY Tables
<1>01. Used(e) = {i \in 1 .. mode.feednum : e.feed[i].state # "FREE"} /\ DOMAIN e.filter = 1 .. mode.filternum
  BY Tables
<1>1. Used(e) = Used(d)  BY <1>0, <1>01
<1>2. \A i \in Used(d) : SameUse(e.feed[i], d.feed[i])  BY <1>0
<1>7. Lists(e)  BY <1>1, <1>2 DEF Lists, SameUse, Owned
<1>8. SecFeeds(e, fs, H, v, b)
  <2>1. 0 \notin Used(d)  BY <1>0
  <2>. QED  BY <1>1, <1>2, <2>1 DEF SecFeeds, SameUse
<1>9. TsFeeds(e, fs, H)  BY <1>1, <1>2 DEF TsFeeds, SameUse, Owned
<1>10. ASSUME NEW f \in H PROVE Served(e, fs, f, b)
  <2>1. Served(d, fs, f, b)  BY DEF Owned
  <2>2. fs[f].feed \in Used(d)  BY <2>1, ServedUsed
  <2>. QED  BY <2>1, <2>2, <1>1, <1>2 DEF Served, SameUse
<1>. QED  BY <1>7, <1>8, <1>9, <1>10 DEF Owned

(* The feeds that filter can be counted.                                   *)
LEMMA FilteringFinite ==
  ASSUME mode \in Modes, NEW d \in Demux
  PROVE  IsFiniteSet(Filtering(d)) /\ Cardinality(Filtering(d)) \in Nat
<1>1. Filtering(d) \subseteq 1 .. mode.feednum  BY Tables
<1>2. PICK n \in Nat : n = mode.feednum  BY Numbers
<1>3. IsFiniteSet(1 .. n)  BY FS_Interval
<1>. QED  BY <1>1, <1>2, <1>3, FS_Subset, FS_CardinalityType

(* stop_filtering                                                          *)
LEMMA Halt ==
  ASSUME mode \in Modes, NEW d \in Demux, NEW e \in Demux, NEW fs, NEW H, NEW i \in 1 .. mode.feednum,
         Live(d, fs, H, 0, 0), Listed(d), d.feed[i].state = "GO",
         Only(d, e, i), SameUse(e.feed[i], d.feed[i]),
         e.feed[i].state \in {"ALLOCATED", "READY"}, ~e.feed[i].filtering,
         e.feeds = d.feeds - 1, e.dma = (d.dma /\ d.feeds # 1)
  PROVE  Live(e, fs, H, i, 0)
<1>0. Filtering(d) = {j \in 1 .. mode.feednum : d.feed[j].filtering} /\ DOMAIN d.feed = 1 .. mode.feednum
  BY Tables
<1>01. Filtering(e) = {j \in 1 .. mode.feednum : e.feed[j].filtering} /\ DOMAIN e.feed = 1 .. mode.feednum
  BY Tables
<1>1. Runs(d, 0) /\ Counts(d) /\ SecFeeds(d, fs, H, 0, 0) /\ Owned(d, fs, H, 0)  BY DEF Live, Owned
<1>2. \A j \in 1 .. mode.feednum :
        SameUse(e.feed[j], d.feed[j]) /\ (e.feed[j].state = "FREE" <=> d.feed[j].state = "FREE")
  BY DEF Only, SameUse
<1>3. e.filter = d.filter /\ e.feed_list = d.feed_list  BY DEF Only
<1>4. Owned(e, fs, H, 0) /\ SecFeeds(e, fs, H, i, 0)
  BY <1>1, <1>2, <1>3, SameOwners, Numbers
<1>7. Runs(e, i)
  <2>1. \A j \in 1 .. mode.feednum : j # 0  BY Numbers
  <2>. QED  BY <1>1, <2>1, <1>0, <1>01 DEF Runs, Only
<1>8. Counts(e)
  <2>1. Filtering(e) = Filtering(d) \ {i} /\ i \in Filtering(d)  BY <1>0, <1>01, <1>1 DEF Only, Runs
  <2>2. PICK n \in Nat : n = Cardinality(Filtering(e)) /\ Cardinality(Filtering(d)) = n + 1
    <3>1. PICK S : S = Filtering(d)  OBVIOUS
    <3>2. IsFiniteSet(S) /\ Cardinality(S) \in Nat  BY <3>1, FilteringFinite
    <3>3. Cardinality(S \ {i}) = Cardinality(S) - 1  BY <3>1, <3>2, <2>1, FS_RemoveElement
    <3>4. Cardinality(Filtering(e)) \in Nat  BY FilteringFinite
    <3>. QED  BY <3>1, <3>2, <3>3, <3>4, <2>1
  <2>3. n = 0 <=> Filtering(e) = {}  BY <2>2, FilteringFinite, FS_EmptySet
  <2>4. e.feeds = n /\ d.feeds = n + 1  BY <2>2, <1>1 DEF Counts
  <2>5. d.feeds # 1 <=> Filtering(e) # {}  BY <2>3, <2>4
  <2>6. d.dma = TRUE  BY <2>1, <1>1 DEF Counts
  <2>7. e.dma = (Filtering(e) # {})  BY <2>5, <2>6, Zenon
  <2>. QED  BY <2>2, <2>4, <2>7 DEF Counts
<1>. QED  BY <1>4, <1>7, <1>8 DEF Live, Owned

(* start_filtering                                                         *)
LEMMA Resume ==
  ASSUME mode \in Modes, NEW d \in Demux, NEW e \in Demux, NEW fs, NEW H, NEW i \in 1 .. mode.feednum,
         Live(d, fs, H, i, 0), Listed(d), d.feed[i].filters # << >>,
         Only(d, e, i), SameUse(e.feed[i], d.feed[i]),
         e.feed[i].state = "GO", e.feed[i].filtering,
         e.feeds = d.feeds + 1, e.dma = (d.dma \/ d.feeds = 0)
  PROVE  Live(e, fs, H, 0, 0)
<1>0. Filtering(d) = {j \in 1 .. mode.feednum : d.feed[j].filtering} /\ DOMAIN d.feed = 1 .. mode.feednum
  BY Tables
<1>01. Filtering(e) = {j \in 1 .. mode.feednum : e.feed[j].filtering} /\ DOMAIN e.feed = 1 .. mode.feednum
  BY Tables
<1>1. Runs(d, i) /\ Counts(d) /\ SecFeeds(d, fs, H, i, 0) /\ Owned(d, fs, H, 0)  BY DEF Live, Owned
<1>11. d.feed[i].state \in {"ALLOCATED", "READY"} /\ ~d.feed[i].filtering  BY <1>1, <1>0 DEF Runs
<1>2. \A j \in 1 .. mode.feednum :
        SameUse(e.feed[j], d.feed[j]) /\ (e.feed[j].state = "FREE" <=> d.feed[j].state = "FREE")
  BY <1>11 DEF Only, SameUse
<1>3. e.filter = d.filter /\ e.feed_list = d.feed_list  BY DEF Only
<1>4. Owned(e, fs, H, 0) /\ SecFeeds(e, fs, H, 0, 0)
  BY <1>1, <1>2, <1>3, SameOwners, Numbers
<1>7. Runs(e, 0)
  <2>1. \A j \in 1 .. mode.feednum : j # 0  BY Numbers
  <2>. QED  BY <1>1, <2>1, <1>0, <1>01 DEF Runs, Only
<1>8. Counts(e)
  <2>1. Filtering(e) = Filtering(d) \cup {i} /\ i \notin Filtering(d)  BY <1>0, <1>01, <1>11 DEF Only
  <2>2. PICK n \in Nat : n = Cardinality(Filtering(d)) /\ Cardinality(Filtering(e)) = n + 1
    <3>1. PICK S : S = Filtering(d)  OBVIOUS
    <3>2. IsFiniteSet(S) /\ Cardinality(S) \in Nat  BY <3>1, FilteringFinite
    <3>3. Cardinality(S \cup {i}) = Cardinality(S) + 1  BY <3>1, <3>2, <2>1, FS_AddElement
    <3>. QED  BY <3>1, <3>2, <3>3, <2>1
  <2>3. n = 0 <=> Filtering(d) = {}  BY <2>2, FilteringFinite, FS_EmptySet
  <2>4. e.feeds = Cardinality(Filtering(e)) /\ d.feeds = n  BY <2>2, <1>1 DEF Counts
  <2>5. d.dma = (Filtering(d) # {})  BY <1>1 DEF Counts
  <2>6. e.dma = TRUE  BY <2>3, <2>4, <2>5, Zenon
  <2>7. Filtering(e) # {}  BY <2>1
  <2>8. e.dma = (Filtering(e) # {})  BY <2>6, <2>7, Zenon
  <2>. QED  BY <2>4, <2>8 DEF Counts
<1>. QED  BY <1>4, <1>7, <1>8 DEF Live, Owned

(* What the device's other filters contain does not matter.                *)
SameOwner(fs, gs, f) ==
  gs[f].par = fs[f].par /\ gs[f].mem = fs[f].mem /\ gs[f].feed = fs[f].feed /\ gs[f].sec = fs[f].sec

(* The tables of the demux depend only on what the owners have set.        *)
LEMMA LiveSame ==
  ASSUME NEW d \in Demux, NEW fs, NEW gs, NEW H, NEW w, NEW b,
         Live(d, fs, H, w, b), \A f \in H : SameOwner(fs, gs, f)
  PROVE  Live(d, gs, H, w, b)
<1>1. SecFeeds(d, gs, H, w, b)
  <2>1. SecFeeds(d, fs, H, w, b)  BY DEF Live
  <2>. QED  BY <2>1 DEF SecFeeds, SameOwner
<1>2. TsFeeds(d, gs, H)
  <2>1. TsFeeds(d, fs, H)  BY DEF Live
  <2>. QED  BY <2>1 DEF TsFeeds, SameOwner
<1>3. \A f \in H : Served(d, gs, f, b)  BY DEF Live, Served, SameOwner
<1>. QED  BY <1>1, <1>2, <1>3 DEF Live

(* release_filter                                                          *)
LEMMA DropFilter ==
  ASSUME mode \in Modes, NEW d \in Demux, NEW e \in Demux, NEW fs, NEW H, NEW f \in H,
         NEW i \in 1 .. mode.feednum, NEW k \in 1 .. mode.filternum,
         Live(d, fs, H, i, 0), Listed(d), fs[f].feed = i, fs[f].sec = k, fs[f].par.type = "SEC",
         Others(d, e, i), SameCard(d, e), SameSetting(e.feed[i], d.feed[i]),
         e.feed[i].filters = RemoveFirst(d.feed[i].filters, k), e.feed_list = d.feed_list,
         \A j \in 1 .. mode.filternum : j # k => e.filter[j] = d.filter[j],
         e.filter[k] = NoFilter
  PROVE  Live(e, fs, H \ {f}, i, 0)
<1>0. /\ DOMAIN d.feed = 1 .. mode.feednum /\ DOMAIN d.filter = 1 .. mode.filternum
      /\ Used(d) = {j \in 1 .. mode.feednum : d.feed[j].state # "FREE"}
      /\ Filtering(d) = {j \in 1 .. mode.feednum : d.feed[j].filtering}
  BY Tables
<1>01. /\ DOMAIN e.feed = 1 .. mode.feednum /\ DOMAIN e.filter = 1 .. mode.filternum
      /\ Used(e) = {j \in 1 .. mode.feednum : e.feed[j].state # "FREE"}
      /\ Filtering(e) = {j \in 1 .. mode.feednum : e.feed[j].filtering}
  BY Tables
<1>1. Runs(d, i) /\ Counts(d) /\ Lists(d) /\ SecFeeds(d, fs, H, i, 0) /\ TsFeeds(d, fs, H)
      /\ Served(d, fs, f, 0)
  BY DEF Live
<1>2. i \in Used(d) /\ d.feed[i].type = "SEC" /\ k \in Range(d.feed[i].filters) /\ d.filter[k].priv = f
  BY <1>1, ServedUsed DEF Served
<1>3. d.filter[k].feed = i /\ ~d.filter[k].free  BY <1>1, <1>2 DEF Lists
<1>4. PICK s, r : s = d.feed[i].filters /\ r = e.feed[i].filters  OBVIOUS
<1>5. s \in Seq(1 .. mode.filternum) /\ IsInjective(s)
  <2>1. s \in Seq(1 .. mode.filternum)  BY <1>4, FeedLists
  <2>2. IsInjective(s)  BY <1>1, <1>2, <1>4 DEF Lists
  <2>. QED  BY <2>1, <2>2
<1>6. r = RemoveFirst(s, k) /\ k \in Range(s)  BY <1>2, <1>4
<1>7. Range(r) = Range(s) \ {k} /\ IsInjective(r)
  BY <1>5, <1>6, RemoveFirstOne
<1>8. Used(e) = Used(d)  BY <1>0, <1>01 DEF Others, SameSetting
<1>9. Runs(e, i)  BY <1>0, <1>01, <1>1 DEF Runs, Others, SameSetting
<1>10. Counts(e)
  <2>1. Filtering(e) = Filtering(d)  BY <1>0, <1>01 DEF Others, SameSetting
  <2>. QED  BY <2>1, <1>1 DEF Counts, SameCard
<1>11. ASSUME NEW j \in Used(d), j # i
       PROVE  /\ e.feed[j] = d.feed[j]
              /\ \A q \in Range(d.feed[j].filters) : q # k /\ q \in 1 .. mode.filternum /\ e.filter[q] = d.filter[q]
  <2>1. e.feed[j] = d.feed[j]  BY <1>0, <1>11 DEF Others
  <2>2. \A q \in Range(d.feed[j].filters) : q # k  BY <1>1, <1>3, <1>11 DEF Lists
  <2>3. \A q \in Range(d.feed[j].filters) : q \in 1 .. mode.filternum  BY <1>0, FeedLists
  <2>. QED  BY <2>1, <2>2, <2>3
<1>12. \A q \in Range(r) : q \in Range(s) /\ q # k /\ q \in 1 .. mode.filternum /\ e.filter[q] = d.filter[q]
  <2>1. \A q \in Range(s) : q \in 1 .. mode.filternum  BY <1>4, FeedLists
  <2>. QED  BY <1>7, <2>1
<1>13. Lists(e)
  <2>1. ASSUME NEW j \in Used(e)
        PROVE  /\ IsInjective(e.feed[j].filters)
               /\ \A q \in Range(e.feed[j].filters) : ~e.filter[q].free /\ e.filter[q].feed = j
    <3>1. CASE j = i
      <4>1. \A q \in Range(s) : ~d.filter[q].free /\ d.filter[q].feed = i  BY <1>1, <1>2, <1>4 DEF Lists
      <4>2. \A q \in Range(r) : ~e.filter[q].free /\ e.filter[q].feed = i  BY <4>1, <1>12
      <4>. QED  BY <3>1, <4>2, <1>4, <1>7
    <3>2. CASE j # i  BY <3>2, <1>1, <1>8, <1>11 DEF Lists
    <3>. QED  BY <3>1, <3>2
  <2>2. ASSUME NEW q \in DOMAIN e.filter, ~e.filter[q].free
        PROVE  e.filter[q].feed \in Used(e) /\ q \in Range(e.feed[e.filter[q].feed].filters)
    <3>1. q # k  BY <2>2 DEF NoFilter
    <3>2. e.filter[q] = d.filter[q]  BY <3>1, <1>01
    <3>3. PICK j : j = d.filter[q].feed  OBVIOUS
    <3>4. j \in Used(d) /\ q \in Range(d.feed[j].filters)
      BY <3>2, <3>3, <2>2, <1>0, <1>01, <1>1 DEF Lists
    <3>5. q \in Range(e.feed[j].filters)
      <4>1. CASE j = i  BY <4>1, <3>1, <3>4, <1>4, <1>7
      <4>2. CASE j # i  BY <4>2, <3>4, <1>11
      <4>. QED  BY <4>1, <4>2
    <3>. QED  BY <3>2, <3>3, <3>4, <3>5, <1>8
  <2>. QED  BY <2>1, <2>2 DEF Lists
<1>14. SecFeeds(e, fs, H \ {f}, i, 0)
  <2>1. ASSUME NEW j \in Used(e), e.feed[j].type = "SEC"
        PROVE  /\ e.feed[j].filters = << >> => j = i
               /\ \A q \in Range(e.feed[j].filters) \ {0} :
                    /\ e.filter[q].priv \in H \ {f} /\ fs[e.filter[q].priv].par.type = "SEC"
                    /\ fs[e.filter[q].priv].feed = j /\ fs[e.filter[q].priv].sec = q
    <3>1. CASE j = i
      <4>1. d.feed[i].type = "SEC"  BY <1>2
      <4>2. \A q \in Range(s) \ {0} :
                    /\ d.filter[q].priv \in H /\ fs[d.filter[q].priv].par.type = "SEC"
                    /\ fs[d.filter[q].priv].feed = i /\ fs[d.filter[q].priv].sec = q
        BY <4>1, <1>1, <1>2, <1>4 DEF SecFeeds
      <4>. QED  BY <3>1, <4>2, <1>4, <1>12
    <3>2. CASE j # i
      <4>1. j \in Used(d) /\ d.feed[j].type = "SEC"  BY <1>8, <1>11, <2>1, <3>2
      <4>2. d.feed[j].filters = << >> => j = i  BY <4>1, <1>1 DEF SecFeeds
      <4>3. \A q \in Range(d.feed[j].filters) \ {0} :
                    /\ d.filter[q].priv \in H /\ fs[d.filter[q].priv].par.type = "SEC"
                    /\ fs[d.filter[q].priv].feed = j /\ fs[d.filter[q].priv].sec = q
        BY <4>1, <1>1 DEF SecFeeds
      <4>. QED  BY <3>2, <4>1, <4>2, <4>3, <1>11
    <3>. QED  BY <3>1, <3>2
  <2>2. \A j, l \in Used(e) :
          (e.feed[j].type = "SEC" /\ e.feed[l].type = "SEC" /\ e.feed[l].pid = e.feed[j].pid) => j = l
    <3>1. \A j \in Used(d) : e.feed[j].type = d.feed[j].type /\ e.feed[j].pid = d.feed[j].pid
      BY <1>11 DEF SameSetting
    <3>. QED  BY <3>1, <1>8, <1>1 DEF SecFeeds
  <2>. QED  BY <2>1, <2>2 DEF SecFeeds
<1>15. TsFeeds(e, fs, H \ {f})
  <2>1. ASSUME NEW j \in Used(e), e.feed[j].type = "TS" PROVE j # i /\ j \in Used(d)
    BY <2>1, <1>2, <1>8 DEF SameSetting
  <2>. QED  BY <2>1, <1>11, <1>1 DEF TsFeeds
<1>16. ASSUME NEW g \in H \ {f} PROVE Served(e, fs, g, 0)
  <2>1. Served(d, fs, g, 0)  BY DEF Live
  <2>2. PICK j : j = fs[g].feed  OBVIOUS
  <2>3. j \in Used(d)  BY <2>1, <2>2, ServedUsed
  <2>4. CASE j = i
    <3>1. fs[g].sec # k  BY <2>1, <2>2, <2>4, <1>2 DEF Served
    <3>2. fs[g].sec \in Range(s) \ {0} /\ fs[g].par.type = "SEC" /\ d.filter[fs[g].sec].priv = g
      BY <2>1, <2>2, <2>4, <1>2, <1>4 DEF Served
    <3>3. fs[g].sec \in Range(r) /\ e.filter[fs[g].sec] = d.filter[fs[g].sec]
      BY <3>1, <3>2, <1>7, <1>12
    <3>. QED  BY <3>2, <3>3, <2>1, <2>2, <2>4, <1>2, <1>4 DEF Served, SameSetting
  <2>5. CASE j # i
    <3>1. e.feed[j] = d.feed[j]  BY <2>3, <2>5, <1>11
    <3>2. fs[g].sec \in Range(d.feed[j].filters) => e.filter[fs[g].sec] = d.filter[fs[g].sec]
      BY <2>3, <2>5, <1>11
    <3>. QED  BY <3>1, <3>2, <2>1, <2>2 DEF Served
  <2>. QED  BY <2>4, <2>5
<1>. QED  BY <1>9, <1>10, <1>13, <1>14, <1>15, <1>16 DEF Live

(* release_section_feed                                                    *)
LEMMA DropFeed ==
  ASSUME mode \in Modes, NEW d \in Demux, NEW e \in Demux, NEW fs, NEW H,
         NEW i \in 1 .. mode.feednum,
         Live(d, fs, H, i, 0), Listed(d), d.feed[i].type = "SEC", d.feed[i].filters = << >>,
         Others(d, e, i), SameCard(d, e), e.feed[i].state = "FREE",
         e.feed[i].filtering = d.feed[i].filtering,
         e.filter = d.filter, e.feed_list = d.feed_list \ {i}
  PROVE  Live(e, fs, H, 0, 0)
<1>0. /\ DOMAIN d.feed = 1 .. mode.feednum /\ DOMAIN d.filter = 1 .. mode.filternum
      /\ Used(d) = {j \in 1 .. mode.feednum : d.feed[j].state # "FREE"}
      /\ Filtering(d) = {j \in 1 .. mode.feednum : d.feed[j].filtering}
  BY Tables
<1>01. /\ DOMAIN e.feed = 1 .. mode.feednum /\ DOMAIN e.filter = 1 .. mode.filternum
      /\ Used(e) = {j \in 1 .. mode.feednum : e.feed[j].state # "FREE"}
      /\ Filtering(e) = {j \in 1 .. mode.feednum : e.feed[j].filtering}
  BY Tables
<1>1. Runs(d, i) /\ Counts(d) /\ Lists(d) /\ SecFeeds(d, fs, H, i, 0) /\ TsFeeds(d, fs, H)
  BY DEF Live
<1>2. i \in Used(d) /\ ~d.feed[i].filtering  BY <1>0, <1>1 DEF Runs
<1>3. Used(e) = Used(d) \ {i} /\ Filtering(e) = Filtering(d)  BY <1>0, <1>01, <1>2 DEF Others
<1>4. \A j \in Used(e) : j # i /\ j \in Used(d) /\ e.feed[j] = d.feed[j]
  BY <1>3, <1>0 DEF Others
<1>5. Range(d.feed[i].filters) = {}
  <2>1. d.feed[i].filters \in Seq(1 .. mode.filternum)  BY FeedLists
  <2>. QED  BY <2>1, SmallLists
<1>6. Runs(e, 0)
  <2>1. \A j \in 1 .. mode.feednum : j # 0  BY Numbers
  <2>. QED  BY <1>1, <1>2, <2>1, <1>0, <1>01 DEF Runs, Others
<1>7. Counts(e)  BY <1>1, <1>3 DEF Counts, SameCard
<1>8. Lists(e)
  <2>1. ASSUME NEW j \in Used(e)
        PROVE  /\ IsInjective(e.feed[j].filters)
               /\ \A q \in Range(e.feed[j].filters) : ~e.filter[q].free /\ e.filter[q].feed = j
    BY <1>1, <1>4 DEF Lists
  <2>2. ASSUME NEW q \in DOMAIN e.filter, ~e.filter[q].free
        PROVE  e.filter[q].feed \in Used(e) /\ q \in Range(e.feed[e.filter[q].feed].filters)
    <3>1. d.filter[q].feed \in Used(d) /\ q \in Range(d.feed[d.filter[q].feed].filters)
      BY <2>2, <1>0, <1>01, <1>1 DEF Lists
    <3>2. d.filter[q].feed # i  BY <3>1, <1>5
    <3>. QED  BY <3>1, <3>2, <1>3, <1>4
  <2>. QED  BY <2>1, <2>2 DEF Lists
<1>9. SecFeeds(e, fs, H, 0, 0)  BY <1>1, <1>4 DEF SecFeeds
<1>10. TsFeeds(e, fs, H)  BY <1>1, <1>4 DEF TsFeeds
<1>11. ASSUME NEW g \in H PROVE Served(e, fs, g, 0)
  <2>1. Served(d, fs, g, 0)  BY DEF Live
  <2>2. PICK j : j = fs[g].feed  OBVIOUS
  <2>3. j \in Used(d)  BY <2>1, <2>2, ServedUsed
  <2>4. j # i  BY <2>1, <2>2, <1>5 DEF Served
  <2>5. j \in Used(e) /\ e.feed[j] = d.feed[j] /\ j \in e.feed_list
    BY <2>1, <2>2, <2>3, <2>4, <1>3, <1>4 DEF Served
  <2>. QED  BY <2>1, <2>2, <2>5 DEF Served
<1>. QED  BY <1>6, <1>7, <1>8, <1>9, <1>10, <1>11 DEF Live

(* release_ts_feed                                                         *)
LEMMA DropTs ==
  ASSUME mode \in Modes, NEW d \in Demux, NEW e \in Demux, NEW fs, NEW H, NEW f,
         NEW i \in 1 .. mode.feednum,
         Live(d, fs, H, i, 0), Listed(d), d.feed[i].type = "TS", d.feed[i].priv = f,
         Others(d, e, i), SameCard(d, e), e.feed[i].state = "FREE",
         e.feed[i].filtering = d.feed[i].filtering,
         \A j \in 1 .. mode.filternum :
           e.filter[j] = IF j = Head(d.feed[i].filters) THEN NoFilter ELSE d.filter[j],
         e.feed_list = d.feed_list \ {i}
  PROVE  Live(e, fs, H \ {f}, 0, 0)
<1>0. /\ DOMAIN d.feed = 1 .. mode.feednum /\ DOMAIN d.filter = 1 .. mode.filternum
      /\ Used(d) = {j \in 1 .. mode.feednum : d.feed[j].state # "FREE"}
      /\ Filtering(d) = {j \in 1 .. mode.feednum : d.feed[j].filtering}
  BY Tables
<1>01. /\ DOMAIN e.feed = 1 .. mode.feednum /\ DOMAIN e.filter = 1 .. mode.filternum
      /\ Used(e) = {j \in 1 .. mode.feednum : e.feed[j].state # "FREE"}
      /\ Filtering(e) = {j \in 1 .. mode.feednum : e.feed[j].filtering}
  BY Tables
<1>1. Runs(d, i) /\ Counts(d) /\ Lists(d) /\ SecFeeds(d, fs, H, i, 0) /\ TsFeeds(d, fs, H)
  BY DEF Live
<1>2. i \in Used(d) /\ ~d.feed[i].filtering  BY <1>0, <1>1 DEF Runs
<1>21. fs[f].par.type = "PES" /\ fs[f].feed = i /\ Len(d.feed[i].filters) = 1  BY <1>1, <1>2 DEF TsFeeds
<1>3. Used(e) = Used(d) \ {i} /\ Filtering(e) = Filtering(d)  BY <1>0, <1>01, <1>2 DEF Others
<1>4. \A j \in Used(e) : j # i /\ j \in Used(d) /\ e.feed[j] = d.feed[j]
  BY <1>3, <1>0 DEF Others
<1>5. PICK k : k = Head(d.feed[i].filters)  OBVIOUS
<1>51. Range(d.feed[i].filters) = {k}
  <2>1. PICK s : s = d.feed[i].filters  OBVIOUS
  <2>2. s \in Seq(1 .. mode.filternum) /\ Len(s) = 1 /\ k = Head(s)  BY <2>1, <1>5, <1>21, FeedLists
  <2>3. Range(s) = {Head(s)}  BY <2>2, SmallLists
  <2>. QED  BY <2>1, <2>2, <2>3
<1>52. d.filter[k].feed = i  BY <1>51, <1>1, <1>2 DEF Lists
<1>53. ASSUME NEW j \in Used(e), NEW q \in Range(d.feed[j].filters)
       PROVE  q \in 1 .. mode.filternum /\ e.filter[q] = d.filter[q]
  <2>1. q \in 1 .. mode.filternum  BY <1>0, <1>4, FeedLists
  <2>2. d.filter[q].feed = j /\ j # i  BY <1>1, <1>4 DEF Lists
  <2>. QED  BY <2>1, <2>2, <1>5, <1>52
<1>6. Runs(e, 0)
  <2>1. \A j \in 1 .. mode.feednum : j # 0  BY Numbers
  <2>. QED  BY <1>1, <1>2, <2>1, <1>0, <1>01 DEF Runs, Others
<1>7. Counts(e)  BY <1>1, <1>3 DEF Counts, SameCard
<1>8. Lists(e)
  <2>1. ASSUME NEW j \in Used(e)
        PROVE  /\ IsInjective(e.feed[j].filters)
               /\ \A q \in Range(e.feed[j].filters) : ~e.filter[q].free /\ e.filter[q].feed = j
    BY <1>1, <1>4, <1>53 DEF Lists
  <2>2. ASSUME NEW q \in DOMAIN e.filter, ~e.filter[q].free
        PROVE  e.filter[q].feed \in Used(e) /\ q \in Range(e.feed[e.filter[q].feed].filters)
    <3>0. q # k /\ e.filter[q] = d.filter[q]  BY <2>2, <1>01, <1>5 DEF NoFilter
    <3>1. d.filter[q].feed \in Used(d) /\ q \in Range(d.feed[d.filter[q].feed].filters)
      BY <3>0, <2>2, <1>0, <1>01, <1>1 DEF Lists
    <3>2. d.filter[q].feed # i  BY <3>0, <3>1, <1>51
    <3>. QED  BY <3>0, <3>1, <3>2, <1>3, <1>4
  <2>. QED  BY <2>1, <2>2 DEF Lists
<1>9. SecFeeds(e, fs, H \ {f}, 0, 0)  BY <1>1, <1>4, <1>21, <1>53 DEF SecFeeds
<1>10. TsFeeds(e, fs, H \ {f})  BY <1>1, <1>4, <1>21 DEF TsFeeds
<1>11. ASSUME NEW g \in H \ {f} PROVE Served(e, fs, g, 0)
  <2>1. Served(d, fs, g, 0)  BY DEF Live
  <2>2. PICK j : j = fs[g].feed  OBVIOUS
  <2>3. j \in Used(d)  BY <2>1, <2>2, ServedUsed
  <2>4. j # i  BY <2>1, <2>2 DEF Served
  <2>5. j \in Used(e) /\ e.feed[j] = d.feed[j] /\ j \in e.feed_list
    BY <2>1, <2>2, <2>3, <2>4, <1>3, <1>4 DEF Served
  <2>6. fs[g].sec \in Range(d.feed[j].filters) => e.filter[fs[g].sec] = d.filter[fs[g].sec]
    BY <2>5, <1>53
  <2>. QED  BY <2>1, <2>2, <2>5, <2>6 DEF Served
<1>. QED  BY <1>6, <1>7, <1>8, <1>9, <1>10, <1>11 DEF Live

(* allocate_section_feed and its set                                       *)
LEMMA NewSection ==
  ASSUME mode \in Modes, NEW d \in Demux, NEW e \in Demux, NEW fs, NEW H,
         NEW i \in 1 .. mode.feednum, NEW pid,
         Live(d, fs, H, 0, 0), Listed(d), d.feed[i].state = "FREE",
         \A j \in Used(d) : d.feed[j].type = "SEC" => d.feed[j].pid # pid,
         Others(d, e, i), SameCard(d, e),
         e.feed[i].state = "READY", e.feed[i].type = "SEC", e.feed[i].pid = pid,
         ~e.feed[i].filtering, e.feed[i].filters = << >>,
         e.filter = d.filter, e.feed_list = d.feed_list \cup {i}
  PROVE  Live(e, fs, H, i, 0)
<1>0. /\ DOMAIN d.feed = 1 .. mode.feednum /\ DOMAIN d.filter = 1 .. mode.filternum
      /\ Used(d) = {j \in 1 .. mode.feednum : d.feed[j].state # "FREE"}
      /\ Filtering(d) = {j \in 1 .. mode.feednum : d.feed[j].filtering}
  BY Tables
<1>01. /\ DOMAIN e.feed = 1 .. mode.feednum /\ DOMAIN e.filter = 1 .. mode.filternum
      /\ Used(e) = {j \in 1 .. mode.feednum : e.feed[j].state # "FREE"}
      /\ Filtering(e) = {j \in 1 .. mode.feednum : e.feed[j].filtering}
  BY Tables
<1>1. Runs(d, 0) /\ Counts(d) /\ Lists(d) /\ SecFeeds(d, fs, H, 0, 0) /\ TsFeeds(d, fs, H)
  BY DEF Live
<1>2. i \notin Used(d) /\ ~d.feed[i].filtering  BY <1>0, <1>1 DEF Runs
<1>3. Used(e) = Used(d) \cup {i} /\ Filtering(e) = Filtering(d)  BY <1>0, <1>01, <1>2 DEF Others
<1>4. \A j \in Used(d) : j # i /\ e.feed[j] = d.feed[j]  BY <1>0, <1>2 DEF Others
<1>5. Range(e.feed[i].filters) = {} /\ IsInjective(e.feed[i].filters)
  <2>1. e.feed[i].filters \in Seq(1 .. mode.filternum)  BY FeedLists
  <2>. QED  BY <2>1, SmallLists
<1>6. Runs(e, i)
  <2>1. \A j \in 1 .. mode.feednum : j # 0  BY Numbers
  <2>. QED  BY <1>1, <2>1, <1>0, <1>01 DEF Runs, Others
<1>7. Counts(e)  BY <1>1, <1>3 DEF Counts, SameCard
<1>8. Lists(e)
  <2>1. ASSUME NEW j \in Used(e)
        PROVE  /\ IsInjective(e.feed[j].filters)
               /\ \A q \in Range(e.feed[j].filters) : ~e.filter[q].free /\ e.filter[q].feed = j
    <3>1. CASE j = i  BY <3>1, <1>5
    <3>2. CASE j # i  BY <3>2, <1>1, <1>3, <1>4 DEF Lists
    <3>. QED  BY <3>1, <3>2
  <2>2. ASSUME NEW q \in DOMAIN e.filter, ~e.filter[q].free
        PROVE  e.filter[q].feed \in Used(e) /\ q \in Range(e.feed[e.filter[q].feed].filters)
    <3>1. d.filter[q].feed \in Used(d) /\ q \in Range(d.feed[d.filter[q].feed].filters)
      BY <2>2, <1>0, <1>01, <1>1 DEF Lists
    <3>. QED  BY <3>1, <1>3, <1>4
  <2>. QED  BY <2>1, <2>2 DEF Lists
<1>9. SecFeeds(e, fs, H, i, 0)
  <2>1. ASSUME NEW j \in Used(e), e.feed[j].type = "SEC"
        PROVE  /\ e.feed[j].filters = << >> => j = i
               /\ \A q \in Range(e.feed[j].filters) \ {0} :
                    /\ e.filter[q].priv \in H /\ fs[e.filter[q].priv].par.type = "SEC"
                    /\ fs[e.filter[q].priv].feed = j /\ fs[e.filter[q].priv].sec = q
    <3>1. CASE j = i  BY <3>1, <1>5
    <3>2. CASE j # i
      <4>1. j \in Used(d) /\ d.feed[j].type = "SEC" /\ e.feed[j] = d.feed[j] /\ j # 0
        BY <3>2, <2>1, <1>0, <1>3, <1>4, Numbers
      <4>. QED  BY <4>1, <1>1 DEF SecFeeds
    <3>. QED  BY <3>1, <3>2
  <2>2. ASSUME NEW j \in Used(e), NEW l \in Used(e),
               e.feed[j].type = "SEC", e.feed[l].type = "SEC", e.feed[l].pid = e.feed[j].pid
        PROVE  j = l
    <3>1. CASE j = i /\ l = i  BY <3>1
    <3>2. CASE j = i /\ l # i  BY <3>2, <2>2, <1>3, <1>4
    <3>3. CASE j # i /\ l = i  BY <3>3, <2>2, <1>3, <1>4
    <3>4. CASE j # i /\ l # i  BY <3>4, <2>2, <1>1, <1>3, <1>4 DEF SecFeeds
    <3>. QED  BY <3>1, <3>2, <3>3, <3>4
  <2>. QED  BY <2>1, <2>2 DEF SecFeeds
<1>10. TsFeeds(e, fs, H)  BY <1>1, <1>3, <1>4 DEF TsFeeds
<1>11. ASSUME NEW g \in H PROVE Served(e, fs, g, 0)
  <2>1. Served(d, fs, g, 0)  BY DEF Live
  <2>2. PICK j : j = fs[g].feed  OBVIOUS
  <2>3. j \in Used(d)  BY <2>1, <2>2, ServedUsed
  <2>4. e.feed[j] = d.feed[j] /\ j \in e.feed_list  BY <2>1, <2>2, <2>3, <1>4 DEF Served
  <2>. QED  BY <2>1, <2>2, <2>4 DEF Served
<1>. QED  BY <1>6, <1>7, <1>8, <1>9, <1>10, <1>11 DEF Live

HeadAdded(d, e, i, k) == e.feed[i].filters = <<k>> \o d.feed[i].filters

OtherFilters(d, e, k) == \A q \in 1 .. mode.filternum : q # k => e.filter[q] = d.filter[q]

(* allocate_ts_feed and its set                                            *)
LEMMA NewTs ==
  ASSUME mode \in Modes, NEW d \in Demux, NEW e \in Demux, NEW fs, NEW gs, NEW H, NEW f,
         NEW i \in 1 .. mode.feednum, NEW k \in 1 .. mode.filternum,
         Live(d, fs, H, 0, 0), Listed(d), d.feed[i].state = "FREE", d.filter[k].free, f \notin H,
         Others(d, e, i), SameCard(d, e),
         e.feed[i].state = "READY", e.feed[i].type = "TS", e.feed[i].pid = gs[f].par.pid,
         ~e.feed[i].filtering, e.feed[i].filters = <<k>>, e.feed[i].priv = f,
         OtherFilters(d, e, k),
         ~e.filter[k].free, e.filter[k].feed = i,
         e.feed_list = d.feed_list \cup {i},
         \A g \in H : SameOwner(fs, gs, g),
         gs[f].mem, gs[f].feed = i, gs[f].par.type = "PES"
  PROVE  Live(e, gs, H \cup {f}, i, 0)
<1>00. \A q \in 1 .. mode.filternum : q # k => e.filter[q] = d.filter[q]  BY DEF OtherFilters
<1>. USE <1>00
<1>0. /\ DOMAIN d.feed = 1 .. mode.feednum /\ DOMAIN d.filter = 1 .. mode.filternum
      /\ Used(d) = {j \in 1 .. mode.feednum : d.feed[j].state # "FREE"}
      /\ Filtering(d) = {j \in 1 .. mode.feednum : d.feed[j].filtering}
  BY Tables
<1>01. /\ DOMAIN e.feed = 1 .. mode.feednum /\ DOMAIN e.filter = 1 .. mode.filternum
      /\ Used(e) = {j \in 1 .. mode.feednum : e.feed[j].state # "FREE"}
      /\ Filtering(e) = {j \in 1 .. mode.feednum : e.feed[j].filtering}
  BY Tables
<1>1. /\ Live(d, gs, H, 0, 0)
      /\ Runs(d, 0) /\ Counts(d) /\ Lists(d) /\ SecFeeds(d, gs, H, 0, 0) /\ TsFeeds(d, gs, H)
  <2>1. Live(d, gs, H, 0, 0)  BY LiveSame
  <2>. QED  BY <2>1 DEF Live
<1>2. i \notin Used(d) /\ ~d.feed[i].filtering  BY <1>0, <1>1 DEF Runs
<1>3. Used(e) = Used(d) \cup {i} /\ Filtering(e) = Filtering(d)  BY <1>0, <1>01, <1>2 DEF Others
<1>4. \A j \in Used(d) : j # i /\ e.feed[j] = d.feed[j]  BY <1>0, <1>2 DEF Others
<1>41. ASSUME NEW j \in Used(d), NEW q \in Range(d.feed[j].filters)
       PROVE  q \in 1 .. mode.filternum /\ q # k /\ e.filter[q] = d.filter[q]
  <2>1. q \in 1 .. mode.filternum  BY <1>0, FeedLists
  <2>2. q # k  BY <1>1 DEF Lists
  <2>. QED  BY <2>1, <2>2
<1>5. Range(e.feed[i].filters) = {k} /\ Len(e.feed[i].filters) = 1 /\ IsInjective(e.feed[i].filters)
  <2>1. PICK s : s = <<k>>  OBVIOUS
  <2>2. s \in Seq(1 .. mode.filternum) /\ Len(s) = 1  BY <2>1
  <2>3. Range(s) = {k} /\ IsInjective(s)  BY <2>1, OneList
  <2>. QED  BY <2>1, <2>2, <2>3
<1>6. Runs(e, i)
  <2>1. \A j \in 1 .. mode.feednum : j # 0  BY Numbers
  <2>. QED  BY <1>1, <2>1, <1>0, <1>01 DEF Runs, Others
<1>7. Counts(e)  BY <1>1, <1>3 DEF Counts, SameCard
<1>8. Lists(e)
  <2>1. ASSUME NEW j \in Used(e)
        PROVE  /\ IsInjective(e.feed[j].filters)
               /\ \A q \in Range(e.feed[j].filters) : ~e.filter[q].free /\ e.filter[q].feed = j
    <3>1. CASE j = i  BY <3>1, <1>5
    <3>2. CASE j # i  BY <3>2, <1>1, <1>3, <1>4, <1>41 DEF Lists
    <3>. QED  BY <3>1, <3>2
  <2>2. ASSUME NEW q \in DOMAIN e.filter, ~e.filter[q].free
        PROVE  e.filter[q].feed \in Used(e) /\ q \in Range(e.feed[e.filter[q].feed].filters)
    <3>1. CASE q = k  BY <3>1, <1>3, <1>5
    <3>2. CASE q # k
      <4>1. e.filter[q] = d.filter[q]  BY <3>2, <1>01
      <4>2. d.filter[q].feed \in Used(d) /\ q \in Range(d.feed[d.filter[q].feed].filters)
        BY <4>1, <2>2, <1>0, <1>01, <1>1 DEF Lists
      <4>. QED  BY <4>1, <4>2, <1>3, <1>4
    <3>. QED  BY <3>1, <3>2
  <2>. QED  BY <2>1, <2>2 DEF Lists
<1>9. SecFeeds(e, gs, H \cup {f}, i, 0)
  <2>1. ASSUME NEW j \in Used(e), e.feed[j].type = "SEC"
        PROVE  j \in Used(d) /\ e.feed[j] = d.feed[j] /\ j # 0
    BY <2>1, <1>0, <1>3, <1>4, Numbers
  <2>. QED  BY <2>1, <1>1, <1>41 DEF SecFeeds
<1>10. TsFeeds(e, gs, H \cup {f})
  <2>1. ASSUME NEW j \in Used(e), e.feed[j].type = "TS"
        PROVE /\ e.feed[j].priv \in H \cup {f} /\ gs[e.feed[j].priv].par.type = "PES"
              /\ gs[e.feed[j].priv].feed = j /\ Len(e.feed[j].filters) = 1
    <3>1. CASE j = i  BY <3>1, <1>5
    <3>2. CASE j # i  BY <3>2, <2>1, <1>1, <1>3, <1>4 DEF TsFeeds
    <3>. QED  BY <3>1, <3>2
  <2>. QED  BY <2>1 DEF TsFeeds
<1>11. ASSUME NEW g \in H PROVE Served(e, gs, g, 0)
  <2>1. Served(d, gs, g, 0)  BY <1>1 DEF Live
  <2>2. PICK j : j = gs[g].feed  OBVIOUS
  <2>3. j \in Used(d)  BY <2>1, <2>2, ServedUsed
  <2>4. e.feed[j] = d.feed[j] /\ j \in e.feed_list  BY <2>1, <2>2, <2>3, <1>4 DEF Served
  <2>5. gs[g].sec \in Range(d.feed[j].filters) => e.filter[gs[g].sec] = d.filter[gs[g].sec]
    BY <2>3, <1>41
  <2>. QED  BY <2>1, <2>2, <2>4, <2>5 DEF Served
<1>12. Served(e, gs, f, 0)  BY DEF Served
<1>. QED  BY <1>6, <1>7, <1>8, <1>9, <1>10, <1>11, <1>12 DEF Live

(* allocate_filter                                                         *)
LEMMA NewEntry ==
  ASSUME mode \in Modes, NEW d \in Demux, NEW e \in Demux, NEW fs, NEW H,
         NEW i \in 1 .. mode.feednum, NEW k \in 1 .. mode.filternum,
         Live(d, fs, H, i, 0), Listed(d), d.feed[i].type = "SEC", d.filter[k].free,
         Others(d, e, i), SameCard(d, e), SameSetting(e.feed[i], d.feed[i]),
         HeadAdded(d, e, i, k), e.feed_list = d.feed_list,
         OtherFilters(d, e, k),
         ~e.filter[k].free, e.filter[k].feed = i
  PROVE  Live(e, fs, H, i, k) /\ Range(e.feed[i].filters) = {k} \cup Range(d.feed[i].filters)
<1>00. \A q \in 1 .. mode.filternum : q # k => e.filter[q] = d.filter[q]  BY DEF OtherFilters
<1>. USE <1>00
<1>0. /\ DOMAIN d.feed = 1 .. mode.feednum /\ DOMAIN d.filter = 1 .. mode.filternum
      /\ Used(d) = {j \in 1 .. mode.feednum : d.feed[j].state # "FREE"}
      /\ Filtering(d) = {j \in 1 .. mode.feednum : d.feed[j].filtering}
  BY Tables
<1>01. /\ DOMAIN e.feed = 1 .. mode.feednum /\ DOMAIN e.filter = 1 .. mode.filternum
      /\ Used(e) = {j \in 1 .. mode.feednum : e.feed[j].state # "FREE"}
      /\ Filtering(e) = {j \in 1 .. mode.feednum : e.feed[j].filtering}
  BY Tables
<1>1. Runs(d, i) /\ Counts(d) /\ Lists(d) /\ SecFeeds(d, fs, H, i, 0) /\ TsFeeds(d, fs, H)
  BY DEF Live
<1>2. i \in Used(d)  BY <1>0, <1>1 DEF Runs
<1>3. ASSUME NEW j \in Used(d), NEW q \in Range(d.feed[j].filters)
      PROVE  q \in 1 .. mode.filternum /\ q # k /\ e.filter[q] = d.filter[q]
  <2>1. q \in 1 .. mode.filternum  BY <1>0, FeedLists
  <2>2. q # k  BY <1>1 DEF Lists
  <2>. QED  BY <2>1, <2>2
<1>4. PICK s, r : s = d.feed[i].filters /\ r = e.feed[i].filters  OBVIOUS
<1>5. s \in Seq(1 .. mode.filternum) /\ (IsInjective(s)) /\ k \notin Range(s)
  <2>1. s \in Seq(1 .. mode.filternum)  BY <1>4, FeedLists
  <2>2. IsInjective(s)  BY <1>1, <1>2, <1>4 DEF Lists
  <2>3. k \notin Range(s)  BY <1>2, <1>3, <1>4
  <2>. QED  BY <2>1, <2>2, <2>3
<1>6. r = <<k>> \o s  BY <1>4 DEF HeadAdded
<1>7. Range(r) = {k} \cup Range(s) /\ IsInjective(r)
  BY <1>5, <1>6, PutFirst
<1>8. Used(e) = Used(d)  BY <1>0, <1>01 DEF Others, SameSetting
<1>9. Runs(e, i)  BY <1>0, <1>01, <1>1 DEF Runs, Others, SameSetting
<1>10. Counts(e)
  <2>1. Filtering(e) = Filtering(d)  BY <1>0, <1>01 DEF Others, SameSetting
  <2>. QED  BY <2>1, <1>1 DEF Counts, SameCard
<1>11. \A j \in Used(d) : j # i => e.feed[j] = d.feed[j]  BY <1>0 DEF Others
<1>12. \A q \in Range(s) : q # k /\ q \in 1 .. mode.filternum /\ e.filter[q] = d.filter[q]
  BY <1>2, <1>3, <1>4
<1>13. Lists(e)
  <2>1. ASSUME NEW j \in Used(e)
        PROVE  /\ IsInjective(e.feed[j].filters)
               /\ \A q \in Range(e.feed[j].filters) : ~e.filter[q].free /\ e.filter[q].feed = j
    <3>1. CASE j = i
      <4>1. \A q \in Range(s) : ~d.filter[q].free /\ d.filter[q].feed = i  BY <1>1, <1>2, <1>4 DEF Lists
      <4>2. \A q \in Range(r) : ~e.filter[q].free /\ e.filter[q].feed = i  BY <4>1, <1>7, <1>12
      <4>. QED  BY <3>1, <4>2, <1>4, <1>7
    <3>2. CASE j # i  BY <3>2, <1>1, <1>3, <1>8, <1>11 DEF Lists
    <3>. QED  BY <3>1, <3>2
  <2>2. ASSUME NEW q \in DOMAIN e.filter, ~e.filter[q].free
        PROVE  e.filter[q].feed \in Used(e) /\ q \in Range(e.feed[e.filter[q].feed].filters)
    <3>1. CASE q = k  BY <3>1, <1>2, <1>4, <1>7, <1>8
    <3>2. CASE q # k
      <4>1. e.filter[q] = d.filter[q]  BY <3>2, <1>01
      <4>2. PICK j : j = d.filter[q].feed  OBVIOUS
      <4>3. j \in Used(d) /\ q \in Range(d.feed[j].filters)
        BY <4>1, <4>2, <2>2, <1>0, <1>01, <1>1 DEF Lists
      <4>4. q \in Range(e.feed[j].filters)
        <5>1. CASE j = i  BY <5>1, <4>3, <1>4, <1>7
        <5>2. CASE j # i  BY <5>2, <4>3, <1>11
        <5>. QED  BY <5>1, <5>2
      <4>. QED  BY <4>1, <4>2, <4>3, <4>4, <1>8
    <3>. QED  BY <3>1, <3>2
  <2>. QED  BY <2>1, <2>2 DEF Lists
<1>14. SecFeeds(e, fs, H, i, k)
  <2>1. ASSUME NEW j \in Used(e), e.feed[j].type = "SEC"
        PROVE  /\ e.feed[j].filters = << >> => j = i
               /\ \A q \in Range(e.feed[j].filters) \ {k} :
                    /\ e.filter[q].priv \in H /\ fs[e.filter[q].priv].par.type = "SEC"
                    /\ fs[e.filter[q].priv].feed = j /\ fs[e.filter[q].priv].sec = q
    <3>0. ASSUME NEW q \in Range(d.feed[j].filters) PROVE q # 0  BY <1>3, <1>8, Numbers
    <3>1. CASE j = i
      <4>2. \A q \in Range(s) \ {0} :
                    /\ d.filter[q].priv \in H /\ fs[d.filter[q].priv].par.type = "SEC"
                    /\ fs[d.filter[q].priv].feed = i /\ fs[d.filter[q].priv].sec = q
        BY <1>1, <1>2, <1>4 DEF SecFeeds
      <4>3. ASSUME NEW q \in Range(r) \ {k} PROVE q \in Range(s) \ {0} /\ e.filter[q] = d.filter[q]
        BY <3>0, <3>1, <1>4, <1>7, <1>12
      <4>4. \A q \in Range(r) \ {k} :
                    /\ e.filter[q].priv \in H /\ fs[e.filter[q].priv].par.type = "SEC"
                    /\ fs[e.filter[q].priv].feed = i /\ fs[e.filter[q].priv].sec = q
        BY <4>2, <4>3
      <4>. QED  BY <3>1, <4>4, <1>4
    <3>2. CASE j # i
      <4>1. j \in Used(d) /\ d.feed[j].type = "SEC" /\ e.feed[j] = d.feed[j]  BY <1>8, <1>11, <2>1, <3>2
      <4>2. d.feed[j].filters = << >> => j = i  BY <4>1, <1>1 DEF SecFeeds
      <4>3. \A q \in Range(d.feed[j].filters) \ {0} :
                    /\ d.filter[q].priv \in H /\ fs[d.filter[q].priv].par.type = "SEC"
                    /\ fs[d.filter[q].priv].feed = j /\ fs[d.filter[q].priv].sec = q
        BY <4>1, <1>1 DEF SecFeeds
      <4>. QED  BY <3>0, <3>2, <4>1, <4>2, <4>3, <1>3
    <3>. QED  BY <3>1, <3>2
  <2>2. \A j, l \in Used(e) :
          (e.feed[j].type = "SEC" /\ e.feed[l].type = "SEC" /\ e.feed[l].pid = e.feed[j].pid) => j = l
    <3>1. \A j \in Used(d) : e.feed[j].type = d.feed[j].type /\ e.feed[j].pid = d.feed[j].pid
      BY <1>11 DEF SameSetting
    <3>. QED  BY <3>1, <1>8, <1>1 DEF SecFeeds
  <2>. QED  BY <2>1, <2>2 DEF SecFeeds
<1>15. TsFeeds(e, fs, H)
  <2>1. ASSUME NEW j \in Used(e), e.feed[j].type = "TS" PROVE j # i /\ j \in Used(d)
    BY <2>1, <1>8 DEF SameSetting
  <2>. QED  BY <2>1, <1>11, <1>1 DEF TsFeeds
<1>16. ASSUME NEW g \in H PROVE Served(e, fs, g, k)
  <2>1. Served(d, fs, g, 0)  BY DEF Live
  <2>2. PICK j : j = fs[g].feed  OBVIOUS
  <2>3. j \in Used(d)  BY <2>1, <2>2, ServedUsed
  <2>4. fs[g].sec \in Range(d.feed[j].filters) => fs[g].sec # k /\ e.filter[fs[g].sec] = d.filter[fs[g].sec]
    BY <2>3, <1>3
  <2>5. /\ e.feed[j].type = d.feed[j].type /\ e.feed[j].pid = d.feed[j].pid /\ e.feed[j].priv = d.feed[j].priv
        /\ Range(d.feed[j].filters) \subseteq Range(e.feed[j].filters)
    <3>1. CASE j = i  BY <3>1, <1>4, <1>7 DEF SameSetting
    <3>2. CASE j # i  BY <3>2, <2>3, <1>11
    <3>. QED  BY <3>1, <3>2
  <2>. QED  BY <2>1, <2>2, <2>4, <2>5 DEF Served
<1>. QED  BY <1>4, <1>7, <1>9, <1>10, <1>13, <1>14, <1>15, <1>16 DEF Live

(* The owner of the new filter entered                                     *)
LEMMA NewOwner ==
  ASSUME mode \in Modes, NEW d \in Demux, NEW e \in Demux, NEW fs, NEW H, NEW f,
         NEW i \in 1 .. mode.feednum, NEW k \in 1 .. mode.filternum,
         Live(d, fs, H, i, k), Listed(d), d.feed[i].type = "SEC", k \in Range(d.feed[i].filters),
         e.feed = d.feed, SameCard(d, e), e.feed_list = d.feed_list,
         OtherFilters(d, e, k),
         e.filter[k].free = d.filter[k].free, e.filter[k].feed = d.filter[k].feed, e.filter[k].priv = f,
         fs[f].mem, fs[f].feed = i, fs[f].sec = k, fs[f].par.type = "SEC", i \in d.feed_list,
         d.feed[i].pid = fs[f].par.pid
  PROVE  Live(e, fs, H \cup {f}, i, 0)
<1>00. \A q \in 1 .. mode.filternum : q # k => e.filter[q] = d.filter[q]  BY DEF OtherFilters
<1>. USE <1>00
<1>0. /\ DOMAIN d.feed = 1 .. mode.feednum /\ DOMAIN d.filter = 1 .. mode.filternum
      /\ Used(d) = {j \in 1 .. mode.feednum : d.feed[j].state # "FREE"}
  BY Tables
<1>01. /\ DOMAIN e.feed = 1 .. mode.feednum /\ DOMAIN e.filter = 1 .. mode.filternum
  BY Tables
<1>1. Runs(d, i) /\ Counts(d) /\ Lists(d) /\ SecFeeds(d, fs, H, i, k) /\ TsFeeds(d, fs, H)
  BY DEF Live
<1>2. i \in Used(d)  BY <1>0, <1>1 DEF Runs
<1>3. Used(e) = Used(d) /\ Filtering(e) = Filtering(d)  BY DEF Used, Filtering
<1>4. \A q \in 1 .. mode.filternum :
        e.filter[q].free = d.filter[q].free /\ e.filter[q].feed = d.filter[q].feed
  OBVIOUS
<1>5. ASSUME NEW j \in Used(d), NEW q \in Range(d.feed[j].filters)
      PROVE  q \in 1 .. mode.filternum /\ q # 0 /\ (q = k => j = i)
  <2>1. q \in 1 .. mode.filternum  BY <1>0, FeedLists
  <2>2. d.filter[q].feed = j /\ d.filter[k].feed = i  BY <1>1, <1>2 DEF Lists
  <2>. QED  BY <2>1, <2>2, Numbers
<1>6. Runs(e, i)  BY <1>1 DEF Runs
<1>7. Counts(e)  BY <1>1, <1>3 DEF Counts, SameCard
<1>8. Lists(e)
  <2>1. ASSUME NEW j \in Used(e)
        PROVE  /\ IsInjective(e.feed[j].filters)
               /\ \A q \in Range(e.feed[j].filters) : ~e.filter[q].free /\ e.filter[q].feed = j
    BY <1>1, <1>3, <1>4, <1>5 DEF Lists
  <2>2. ASSUME NEW q \in DOMAIN e.filter, ~e.filter[q].free
        PROVE  e.filter[q].feed \in Used(e) /\ q \in Range(e.feed[e.filter[q].feed].filters)
    BY <2>2, <1>0, <1>01, <1>1, <1>3, <1>4 DEF Lists
  <2>. QED  BY <2>1, <2>2 DEF Lists
<1>9. SecFeeds(e, fs, H \cup {f}, i, 0)
  <2>1. ASSUME NEW j \in Used(d), d.feed[j].type = "SEC", NEW q \in Range(d.feed[j].filters)
        PROVE  /\ e.filter[q].priv \in H \cup {f} /\ fs[e.filter[q].priv].par.type = "SEC"
               /\ fs[e.filter[q].priv].feed = j /\ fs[e.filter[q].priv].sec = q
    <3>1. CASE q = k  BY <3>1, <1>5
    <3>2. CASE q # k
      <4>1. e.filter[q] = d.filter[q]  BY <3>2, <1>5
      <4>. QED  BY <4>1, <3>2, <2>1, <1>1 DEF SecFeeds
    <3>. QED  BY <3>1, <3>2
  <2>. QED  BY <2>1, <1>1, <1>3 DEF SecFeeds
<1>10. TsFeeds(e, fs, H \cup {f})  BY <1>1, <1>3 DEF TsFeeds
<1>11. ASSUME NEW g \in H PROVE Served(e, fs, g, 0)
  <2>1. Served(d, fs, g, k)  BY DEF Live
  <2>2. PICK j : j = fs[g].feed  OBVIOUS
  <2>3. j \in Used(d)  BY <2>1, <2>2, ServedUsed
  <2>4. (fs[g].sec \in Range(d.feed[j].filters) /\ fs[g].sec # k) =>
          fs[g].sec # 0 /\ e.filter[fs[g].sec] = d.filter[fs[g].sec]
    BY <2>3, <1>5
  <2>. QED  BY <2>1, <2>2, <2>4 DEF Served
<1>12. Served(e, fs, f, 0)
  <2>1. k # 0  BY Numbers
  <2>. QED  BY <2>1 DEF Served
<1>. QED  BY <1>6, <1>7, <1>8, <1>9, <1>10, <1>11, <1>12 DEF Live

-----------------------------------------------------------------------------
(* The decoder streams                                                     *)

TsUsed(d, i) == d.feed[i].state # "FREE" /\ d.feed[i].type = "TS"

(* The TS feeds left alone.                                                *)
LEMMA SameDecoders ==
  ASSUME NEW d \in Demux, NEW e \in Demux, NEW r, Decoders(d, r),
         \A i \in 1 .. mode.feednum :
           (TsUsed(e, i) <=> TsUsed(d, i)) /\ (TsUsed(d, i) => e.feed[i].dec = d.feed[i].dec),
         e.pesfilter = d.pesfilter
  PROVE  Decoders(e, r)
<1>0. Used(d) = {j \in 1 .. mode.feednum : d.feed[j].state # "FREE"}  BY Tables
<1>01. Used(e) = {j \in 1 .. mode.feednum : e.feed[j].state # "FREE"}  BY Tables
<1>. QED  BY <1>0, <1>01 DEF Decoders, TsUsed

(* release_ts_feed                                                         *)
LEMMA DropDecoder ==
  ASSUME NEW d \in Demux, NEW e \in Demux, NEW r, NEW i \in 1 .. mode.feednum,
         Decoders(d, r), TsUsed(d, i), Others(d, e, i), e.feed[i].state = "FREE",
         \A p \in Pes : e.pesfilter[p] = IF p = d.feed[i].dec THEN 0 ELSE d.pesfilter[p]
  PROVE  Decoders(e, r)
<1>0. Used(d) = {j \in 1 .. mode.feednum : d.feed[j].state # "FREE"}  BY Tables
<1>01. Used(e) = {j \in 1 .. mode.feednum : e.feed[j].state # "FREE"}  BY Tables
<1>1. ASSUME NEW p \in Pes, e.pesfilter[p] # 0
      PROVE  /\ e.pesfilter[p] \in Used(e) /\ e.feed[e.pesfilter[p]].type = "TS"
             /\ e.feed[e.pesfilter[p]].dec = p
  <2>1. p # d.feed[i].dec /\ e.pesfilter[p] = d.pesfilter[p]  BY <1>1
  <2>. QED  BY <1>0, <1>01, <1>1, <2>1 DEF Decoders, Others
<1>2. ASSUME ~r, NEW j \in Used(e), e.feed[j].type = "TS", e.feed[j].dec \in Pes
      PROVE  e.pesfilter[e.feed[j].dec] = j
  <2>1. j # i /\ e.feed[j] = d.feed[j] /\ j \in Used(d)  BY <1>2, <1>0, <1>01 DEF Others
  <2>2. d.pesfilter[d.feed[j].dec] = j  BY <1>2, <2>1 DEF Decoders
  <2>3. d.feed[i].dec \in Pes => d.pesfilter[d.feed[i].dec] = i  BY <1>0, <1>2 DEF Decoders, TsUsed
  <2>. QED  BY <1>2, <2>1, <2>2, <2>3
<1>. QED  BY <1>1, <1>2 DEF Decoders

(* allocate_ts_feed and its set                                            *)
LEMMA NewDecoder ==
  ASSUME NEW d \in Demux, NEW e \in Demux, NEW r, NEW i \in 1 .. mode.feednum,
         Decoders(d, r), d.feed[i].state = "FREE", Others(d, e, i),
         e.feed[i].state # "FREE", e.feed[i].type = "TS",
         e.feed[i].dec \in Pes => d.pesfilter[e.feed[i].dec] \in {0, i},
         \A p \in Pes : e.pesfilter[p] = IF p = e.feed[i].dec THEN i ELSE d.pesfilter[p]
  PROVE  Decoders(e, r)
<1>0. Used(d) = {j \in 1 .. mode.feednum : d.feed[j].state # "FREE"}  BY Tables
<1>01. Used(e) = {j \in 1 .. mode.feednum : e.feed[j].state # "FREE"}  BY Tables
<1>1. ASSUME NEW p \in Pes, e.pesfilter[p] # 0
      PROVE  /\ e.pesfilter[p] \in Used(e) /\ e.feed[e.pesfilter[p]].type = "TS"
             /\ e.feed[e.pesfilter[p]].dec = p
  <2>1. CASE p = e.feed[i].dec  BY <2>1, <1>01
  <2>2. CASE p # e.feed[i].dec
    <3>1. e.pesfilter[p] = d.pesfilter[p]  BY <2>2
    <3>2. PICK j : j = d.pesfilter[p]  OBVIOUS
    <3>3. j \in Used(d) /\ d.feed[j].type = "TS" /\ d.feed[j].dec = p  BY <1>1, <3>1, <3>2 DEF Decoders
    <3>4. j # i /\ e.feed[j] = d.feed[j]  BY <3>3, <1>0 DEF Others
    <3>. QED  BY <3>1, <3>2, <3>3, <3>4, <1>0, <1>01
  <2>. QED  BY <2>1, <2>2
<1>2. ASSUME ~r, NEW j \in Used(e), e.feed[j].type = "TS", e.feed[j].dec \in Pes
      PROVE  e.pesfilter[e.feed[j].dec] = j
  <2>1. CASE j = i  BY <2>1, <1>2
  <2>2. CASE j # i
    <3>1. e.feed[j] = d.feed[j] /\ j \in Used(d)  BY <1>0, <1>01, <2>2 DEF Others
    <3>2. d.pesfilter[e.feed[j].dec] = j  BY <1>2, <3>1 DEF Decoders
    <3>3. i \notin Used(d) /\ 0 \notin 1 .. mode.feednum  BY <1>0
    <3>4. e.feed[j].dec # e.feed[i].dec  BY <1>0, <1>2, <2>2, <3>1, <3>2, <3>3
    <3>. QED  BY <1>2, <3>2, <3>4
  <2>. QED  BY <2>1, <2>2
<1>. QED  BY <1>1, <1>2 DEF Decoders

Cleared(d, e, q) == \A p \in Pes : e.pesfilter[p] = IF p = q THEN 0 ELSE d.pesfilter[p]

(* The set refused                                                         *)
LEMMA RefusedDecoder ==
  ASSUME NEW d \in Demux, NEW e \in Demux, NEW r, NEW i \in 1 .. mode.feednum, NEW q,
         Decoders(d, r), d.feed[i].state = "FREE", Others(d, e, i),
         Cleared(d, e, q)
  PROVE  Decoders(e, TRUE)
<1>0. Used(d) = {j \in 1 .. mode.feednum : d.feed[j].state # "FREE"}  BY Tables
<1>01. Used(e) = {j \in 1 .. mode.feednum : e.feed[j].state # "FREE"}  BY Tables
<1>1. ASSUME NEW p \in Pes, e.pesfilter[p] # 0
      PROVE  /\ e.pesfilter[p] \in Used(e) /\ e.feed[e.pesfilter[p]].type = "TS"
             /\ e.feed[e.pesfilter[p]].dec = p
  <2>1. e.pesfilter[p] = d.pesfilter[p]  BY <1>1 DEF Cleared
  <2>2. PICK j : j = d.pesfilter[p]  OBVIOUS
  <2>3. j \in Used(d) /\ d.feed[j].type = "TS" /\ d.feed[j].dec = p  BY <1>1, <2>1, <2>2 DEF Decoders
  <2>4. j # i /\ e.feed[j] = d.feed[j]  BY <2>3, <1>0 DEF Others
  <2>. QED  BY <2>1, <2>2, <2>3, <2>4, <1>0, <1>01
<1>. QED  BY <1>1 DEF Decoders

-----------------------------------------------------------------------------
(* The steps                                                               *)

Base == Types /\ CallInv /\ FrontendInv /\ Listed(dmx) /\ DvrOnce

Tidy ==
  /\ Live(dmx, filter, Holding, Worked, Nameless) /\ Decoders(dmx, past.refused)
  /\ StageInv /\ SetInv /\ OpenInv

(* The types depend on the mode only.                                      *)
LEMMA ModeSame ==
  ASSUME mode' = mode
  PROVE  Demux' = Demux /\ DevFilter' = DevFilter /\ Pars' = Pars
BY DEF Demux, FeedRec, FilterRec, DevFilter, Pars

(* The fields of struct dmxdev_filter.                                     *)
LEMMA FilterFields ==
  ASSUME NEW x \in DevFilter
  PROVE  /\ x.state \in {"FREE", "ALLOCATED", "SET", "GO", "DONE", "TIMEDOUT"} /\ x.par \in Pars
         /\ x.sec \in 0 .. mode.filternum /\ x.feed \in 0 .. mode.feednum
         /\ x.mem \in BOOLEAN /\ x.sized \in BOOLEAN /\ x.buf \in {"empty", "data", "error"}
BY DEF DevFilter

(* The types of the next state.                                            *)
LEMMA TypesStep ==
  ASSUME mode \in Modes, mode' = mode,
         dmx' \in Demux, filter' \in [DevFilters -> DevFilter],
         timer' \in [DevFilters -> [armed : BOOLEAN, running : BOOLEAN]],
         opened' \subseteq DevFilters, reading' \subseteq opened',
         call' = Idle \/ call' \in [pc : Stages, op : Ops, f : opened', par : Pars],
         dvr' \in [reader : {"none", "open"}, writers : Nat, orig : {"hw", "mem"}],
         past' \in [late : BOOLEAN, refused : BOOLEAN]
  PROVE  Types'
<1>1. Demux' = Demux /\ DevFilter' = DevFilter /\ Pars' = Pars  BY ModeSame
<1>. QED  BY <1>1 DEF Types

(* The demux and the DVR device left alone.                                *)
LEMMA Quiet ==
  ASSUME Base, UNCHANGED <<mode, dmx, dvr, copies>>
  PROVE  FrontendInv' /\ Listed(dmx)' /\ DvrOnce'
BY DEF Base, FrontendInv, DvrOnce

(* The call returns.                                                       *)
LEMMA Returned ==
  ASSUME call' = Idle
  PROVE  CallInv'
BY DEF Idle, CallInv

(* The call goes on.                                                       *)
LEMMA Moved ==
  ASSUME Types, call.pc # "idle", NEW s \in Stages, call' = [call EXCEPT !.pc = s]
  PROVE  /\ call' \in [pc : Stages, op : Ops, f : opened, par : Pars]
         /\ call'.pc = s /\ call'.op = call.op /\ call'.f = call.f /\ call'.par = call.par
         /\ call.f \in opened /\ call.f \in DevFilters /\ call.op \in Ops
<1>1. call \in [pc : Stages, op : Ops, f : opened, par : Pars]  BY DEF Types, Idle
<1>2. opened \subseteq DevFilters  BY DEF Types
<1>. QED  BY <1>1, <1>2

(* The call that runs is one of an open file.                              *)
LEMMA Caller ==
  ASSUME Types, call.pc # "idle"
  PROVE  /\ call.f \in opened /\ call.f \in DevFilters /\ call.op \in Ops /\ call.par \in Pars
         /\ call.pc \in Stages
<1>1. call \in [pc : Stages, op : Ops, f : opened, par : Pars]  BY DEF Types, Idle
<1>2. opened \subseteq DevFilters  BY DEF Types
<1>. QED  BY <1>1, <1>2

(* One filter of the device changed.                                       *)
OneFilter(fs, gs, f) ==
  gs \in [DevFilters -> DevFilter] /\ \A g \in DevFilters : g # f => gs[g] = fs[g]

(* One filter of the device changed.                                       *)
LEMMA PutFilter ==
  ASSUME NEW fs \in [DevFilters -> DevFilter], NEW f \in DevFilters, NEW y \in DevFilter
  PROVE  OneFilter(fs, [fs EXCEPT ![f] = y], f) /\ [fs EXCEPT ![f] = y][f] = y
BY DEF OneFilter

WithState(fs, f, s) == [fs EXCEPT ![f].state = s]

WithBuf(fs, f, s) == [fs EXCEPT ![f].buf = s]

(* The state of a filter set: its owner's fields stay.                     *)
LEMMA SetState ==
  ASSUME NEW fs \in [DevFilters -> DevFilter], NEW f \in DevFilters,
         NEW s \in {"FREE", "ALLOCATED", "SET", "GO", "DONE", "TIMEDOUT"}
  PROVE  LET gs == WithState(fs, f, s) IN
         /\ OneFilter(fs, gs, f) /\ gs[f].state = s /\ SameOwner(fs, gs, f)
         /\ \A g \in DevFilters : SameOwner(fs, gs, g)
<1>1. PICK y : y = [fs[f] EXCEPT !.state = s]  OBVIOUS
<1>2. y \in DevFilter /\ y.state = s /\ y.par = fs[f].par /\ y.mem = fs[f].mem /\ y.feed = fs[f].feed
      /\ y.sec = fs[f].sec
  BY <1>1 DEF DevFilter
<1>3. PICK gs : gs = [fs EXCEPT ![f] = y]  OBVIOUS
<1>4. OneFilter(fs, gs, f) /\ gs[f] = y  BY <1>2, <1>3, PutFilter
<1>5. gs = WithState(fs, f, s)  BY <1>1, <1>3 DEF WithState
<1>6. SameOwner(fs, gs, f)  BY <1>2, <1>4 DEF SameOwner
<1>7. \A g \in DevFilters : SameOwner(fs, gs, g)  BY <1>4, <1>6 DEF SameOwner, OneFilter
<1>. QED  BY <1>2, <1>4, <1>5, <1>6, <1>7

(* The buffer of a filter set: its state and its owner's fields stay.      *)
LEMMA SetBuf ==
  ASSUME NEW fs \in [DevFilters -> DevFilter], NEW f \in DevFilters,
         NEW s \in {"empty", "data", "error"}
  PROVE  LET gs == WithBuf(fs, f, s) IN
         /\ OneFilter(fs, gs, f) /\ \A g \in DevFilters : SameOwner(fs, gs, g) /\ gs[g].state = fs[g].state
<1>1. PICK y : y = [fs[f] EXCEPT !.buf = s]  OBVIOUS
<1>2. y \in DevFilter /\ y.state = fs[f].state /\ y.par = fs[f].par /\ y.mem = fs[f].mem /\ y.feed = fs[f].feed
      /\ y.sec = fs[f].sec
  BY <1>1 DEF DevFilter
<1>3. PICK gs : gs = [fs EXCEPT ![f] = y]  OBVIOUS
<1>4. OneFilter(fs, gs, f) /\ gs[f] = y  BY <1>2, <1>3, PutFilter
<1>5. gs = WithBuf(fs, f, s)  BY <1>1, <1>3 DEF WithBuf
<1>6. SameOwner(fs, gs, f)  BY <1>2, <1>4 DEF SameOwner
<1>7. \A g \in DevFilters : SameOwner(fs, gs, g) /\ gs[g].state = fs[g].state
  BY <1>2, <1>4, <1>6 DEF SameOwner, OneFilter
<1>. QED  BY <1>4, <1>5, <1>7

(* A step that leaves the demux and the DVR device alone.                  *)
LEMMA QuietStep ==
  ASSUME Base, UNCHANGED <<mode, dmx, dvr, copies>>,
         filter' \in [DevFilters -> DevFilter],
         timer' \in [DevFilters -> [armed : BOOLEAN, running : BOOLEAN]],
         opened' \subseteq DevFilters, reading' \subseteq opened',
         call' = Idle \/ call' \in [pc : Stages, op : Ops, f : opened', par : Pars], CallInv',
         past' \in [late : BOOLEAN, refused : BOOLEAN]
  PROVE  Base'
<1>1. FrontendInv' /\ Listed(dmx)' /\ DvrOnce'  BY Quiet
<1>2. Types'  BY TypesStep DEF Base, Types
<1>. QED  BY <1>1, <1>2 DEF Base

(* dvb_demux_open                                                          *)
LEMMA OpenBase ==
  ASSUME Base, NEW f \in DevFilters, Open(f)
  PROVE  Base'
<1>2. mode \in Modes /\ Types  BY DEF Base, Types
<1>3. filter' \in [DevFilters -> DevFilter]
  <2>1. NoParam \in Pars /\ 0 \in 0 .. mode.feednum  BY <1>2, Numbers DEF Pars
  <2>2. PICK y : y = [filter[f] EXCEPT !.state = "ALLOCATED", !.par = NoParam, !.feed = 0,
                                        !.mem = FALSE, !.sized = TRUE, !.buf = "empty"]
    OBVIOUS
  <2>21. filter[f] \in DevFilter  BY <1>2 DEF Types
  <2>3. y \in DevFilter  BY <2>1, <2>2, <2>21 DEF DevFilter
  <2>4. filter' = [filter EXCEPT ![f] = y]  BY <2>2 DEF Open
  <2>. QED  BY <1>2, <2>3, <2>4, PutFilter DEF Types, OneFilter
<1>4. timer' \in [DevFilters -> [armed : BOOLEAN, running : BOOLEAN]]  BY <1>2 DEF Open, Types
<1>5. opened' \subseteq DevFilters /\ reading' \subseteq opened'  BY <1>2 DEF Open, Types
<1>6. call' = Idle  BY <1>2 DEF Types, Open, Stages
<1>7. CallInv'  BY <1>6, Returned
<1>. QED  BY <1>2, <1>3, <1>4, <1>5, <1>6, <1>7, QuietStep DEF Open, Types

(* The beginning of a call                                                 *)
LEMMA CallBase ==
  ASSUME Base, NEW f \in DevFilters, NEW op \in Ops, NEW par \in Pars, Call(f, op, par),
         op = "free" => f \notin reading, op \in {"set", "setnow"} => par \in mode.params
  PROVE  Base'
<1>2. mode \in Modes /\ Types  BY DEF Base, Types
<1>3. call' = [pc |-> "lock", op |-> op, f |-> f, par |-> par] /\ f \in opened  BY DEF Call
<1>4. call' \in [pc : Stages, op : Ops, f : opened, par : Pars]  BY <1>3 DEF Stages
<1>5. /\ filter' = filter /\ timer' = timer /\ opened' = opened /\ reading' = reading /\ past' = past
      /\ mode' = mode /\ dmx' = dmx /\ dvr' = dvr /\ copies' = copies
  BY DEF Call
<1>6. CallInv'
  <2>1. call'.pc = "lock" /\ call'.op = op /\ call'.f = f /\ call'.par = par  BY <1>3
  <2>. QED  BY <1>5, <2>1 DEF CallInv
<1>. QED  BY <1>2, <1>4, <1>5, <1>6, QuietStep DEF Types

(* A close that a signal interrupts                                        *)
LEMMA CloseInterruptedBase ==
  ASSUME Base, CloseInterrupted
  PROVE  Base'
<1>2. mode \in Modes /\ Types  BY DEF Base, Types
<1>3. call.f \notin reading  BY DEF Base, CallInv, CloseInterrupted
<1>4. call' = Idle /\ opened' = opened \ {call.f}  BY DEF CloseInterrupted
<1>5. CallInv'  BY <1>4, Returned
<1>6. opened' \subseteq DevFilters /\ reading' \subseteq opened'  BY <1>2, <1>3, <1>4 DEF CloseInterrupted, Types
<1>. QED  BY <1>2, <1>4, <1>5, <1>6, QuietStep DEF CloseInterrupted, Types

(* The filter's mutex taken                                                *)
LEMMA LockBase ==
  ASSUME Base, Lock
  PROVE  Base'
<1>2. mode \in Modes /\ Types /\ call.pc = "lock"  BY DEF Base, Types, Lock
<1>3. /\ filter' = filter /\ timer' = timer /\ opened' = opened /\ reading' = reading /\ past' = past
      /\ mode' = mode /\ dmx' = dmx /\ dvr' = dvr /\ copies' = copies
  BY DEF Lock
<1>4. CASE call' = Idle
  <2>1. CallInv'  BY <1>4, Returned
  <2>. QED  BY <1>2, <1>3, <1>4, <2>1, QuietStep DEF Types
<1>5. CASE call' = [call EXCEPT !.pc = Enter(call.op)]
  <2>1. PICK s \in Stages : s = Enter(call.op) /\ s \in {"size", "stop"} /\
                            (s = "stop" => call.op \notin {"size0", "size1"})
    BY DEF Enter, Stages
  <2>2. call' = [call EXCEPT !.pc = s]  BY <1>5, <2>1
  <2>3. /\ call' \in [pc : Stages, op : Ops, f : opened, par : Pars]
        /\ call'.pc = s /\ call'.op = call.op /\ call'.f = call.f /\ call'.par = call.par
    BY <1>2, <2>2, Moved
  <2>4. CallInv'  BY <1>3, <2>1, <2>3 DEF CallInv, Base, Lock
  <2>. QED  BY <1>2, <1>3, <2>3, <2>4, QuietStep DEF Types
<1>. QED  BY <1>4, <1>5 DEF Lock

(* What follows a stop                                                     *)
LEMMA AfterStopFacts ==
  ASSUME Base, call.pc \in {"stop", "stopped"}
  PROVE  /\ AfterStop = Idle \/ AfterStop \in [pc : Stages, op : Ops, f : opened, par : Pars]
         /\ AfterStop # Idle =>
              /\ AfterStop.pc = (CASE call.op = "start" -> "alloc" [] call.op = "free" -> "free" [] OTHER -> "set")
              /\ AfterStop.op = call.op /\ AfterStop.f = call.f /\ AfterStop.par = call.par
              /\ call.op # "stop"
         /\ (AfterStop # Idle /\ AfterStop.pc = "set") => call.op \in {"set", "setnow"}
<1>1. call \in [pc : Stages, op : Ops, f : opened, par : Pars]  BY DEF Types, Idle, Base
<1>2. call.op \in Ops /\ call.op \notin {"size0", "size1"}  BY <1>1 DEF Base, CallInv
<1>3. "alloc" \in Stages /\ "free" \in Stages /\ "set" \in Stages  BY DEF Stages
<1>4. CASE call.op = "stop"  BY <1>4 DEF AfterStop
<1>5. CASE call.op = "start"  BY <1>1, <1>3, <1>5 DEF AfterStop
<1>6. CASE call.op = "free"  BY <1>1, <1>3, <1>6 DEF AfterStop
<1>7. CASE call.op \in {"set", "setnow"}  BY <1>1, <1>3, <1>7 DEF AfterStop
<1>. QED  BY <1>2, <1>4, <1>5, <1>6, <1>7 DEF Ops

(* The return of filter_stop                                               *)
LEMMA AfterStopBase ==
  ASSUME Base, call.pc \in {"stop", "stopped"}, call' = AfterStop, reading' = reading, opened' = opened,
         mode' = mode
  PROVE  /\ CallInv'
         /\ call' = Idle \/ call' \in [pc : Stages, op : Ops, f : opened', par : Pars]
<1>1. call' = Idle \/ call' \in [pc : Stages, op : Ops, f : opened', par : Pars]  BY AfterStopFacts
<1>2. CASE call' = Idle  BY <1>1, <1>2, Returned
<1>3. CASE call' # Idle
  <2>1. /\ call'.pc \in {"alloc", "free", "set"}
        /\ call'.op = call.op /\ call'.f = call.f /\ call'.par = call.par
        /\ call'.pc = "set" => call.op \in {"set", "setnow"}
    BY <1>3, AfterStopFacts
  <2>. QED  BY <1>1, <2>1 DEF CallInv, Base
<1>. QED  BY <1>2, <1>3

(* The beginning of filter_stop                                            *)
LEMMA StopBase ==
  ASSUME Base, Stop
  PROVE  Base'
<1>1. mode \in Modes /\ Types /\ call.pc = "stop" /\ call.f \in DevFilters  BY Caller DEF Base, Types, Stop
<1>2. PICK f \in DevFilters : f = call.f  BY <1>1
<1>3. /\ timer' = timer /\ opened' = opened /\ reading' = reading /\ past' = past
      /\ mode' = mode /\ dmx' = dmx /\ dvr' = dvr /\ copies' = copies
  BY DEF Stop
<1>4. filter \in [DevFilters -> DevFilter]  BY <1>1 DEF Types
<1>5. CASE ~Active(f)
  <2>1. call' = AfterStop /\ filter' = filter  BY <1>2, <1>5 DEF Stop
  <2>. QED  BY <1>1, <1>3, <2>1, AfterStopBase, QuietStep DEF Types
<1>6. CASE Active(f) /\ filter[f].feed = 0
  <2>1. PICK b \in {"empty", "data", "error"} :
          b = IF filter[f].par.type = "NONE" THEN filter[f].buf ELSE "empty"
    <3>1. filter[f] \in DevFilter  BY <1>4
    <3>. QED  BY <3>1, FilterFields
  <2>2. call' = AfterStop /\ filter' = WithBuf(filter, f, b)  BY <1>2, <1>6, <2>1 DEF Stop, WithBuf
  <2>3. filter' \in [DevFilters -> DevFilter]  BY <1>4, <2>2, SetBuf DEF OneFilter
  <2>. QED  BY <1>1, <1>3, <2>2, <2>3, AfterStopBase, QuietStep DEF Types
<1>7. CASE Active(f) /\ filter[f].feed # 0
  <2>1. call' = [call EXCEPT !.pc = "feed_stop"] /\ filter' = WithState(filter, f, "SET")
    BY <1>2, <1>7 DEF Stop, WithState
  <2>2. filter' \in [DevFilters -> DevFilter] /\ SameOwner(filter, filter', f)  BY <1>4, <2>1, SetState DEF OneFilter
  <2>3. "feed_stop" \in Stages  BY DEF Stages
  <2>4. /\ call' \in [pc : Stages, op : Ops, f : opened, par : Pars]
        /\ call'.pc = "feed_stop" /\ call'.op = call.op /\ call'.f = call.f /\ call'.par = call.par
    BY <1>1, <2>1, <2>3, Moved
  <2>5. CallInv'  BY <1>1, <1>2, <1>3, <1>7, <2>2, <2>4 DEF CallInv, Base, SameOwner
  <2>. QED  BY <1>1, <1>3, <2>2, <2>4, <2>5, QuietStep DEF Types
<1>. QED  BY <1>5, <1>6, <1>7

(* The updates of a filter by the calls                                    *)
WithBuffer(fs, f, m) == [fs EXCEPT ![f].mem = m, ![f].buf = "empty"]

WithSection(fs, f, i) == [fs EXCEPT ![f].sec = 0, ![f].feed = i]

WithSec(fs, f, k) == [fs EXCEPT ![f].sec = k]

WithStopped(fs, f) == [fs EXCEPT ![f].feed = 0, ![f].buf = "empty"]

WithPar(fs, f, par) == [fs EXCEPT ![f].par = par, ![f].state = "SET"]

WithTs(fs, f, i) == [fs EXCEPT ![f].feed = i]

(* The filter's buffer allocated and emptied.                              *)
LEMMA SetMem ==
  ASSUME NEW fs \in [DevFilters -> DevFilter], NEW f \in DevFilters, NEW m \in BOOLEAN
  PROVE  LET gs == WithBuffer(fs, f, m) IN
         /\ OneFilter(fs, gs, f) /\ gs[f].mem = m /\ gs[f].state = fs[f].state /\ gs[f].par = fs[f].par
         /\ gs[f].feed = fs[f].feed /\ gs[f].sec = fs[f].sec
<1>1. PICK y : y = [[fs[f] EXCEPT !.mem = m] EXCEPT !.buf = "empty"]  OBVIOUS
<1>2. /\ y \in DevFilter /\ y.mem = m /\ y.state = fs[f].state /\ y.par = fs[f].par
      /\ y.feed = fs[f].feed /\ y.sec = fs[f].sec
  BY <1>1 DEF DevFilter
<1>3. PICK gs : gs = [fs EXCEPT ![f] = y]  OBVIOUS
<1>4. OneFilter(fs, gs, f) /\ gs[f] = y  BY <1>2, <1>3, PutFilter
<1>5. gs = WithBuffer(fs, f, m)  BY <1>1, <1>3 DEF WithBuffer
<1>. QED  BY <1>2, <1>4, <1>5

(* feed and filter of a section filter set.                                *)
LEMMA SetSection ==
  ASSUME NEW fs \in [DevFilters -> DevFilter], NEW f \in DevFilters, NEW i \in 0 .. mode.feednum,
         mode \in Modes
  PROVE  LET gs == WithSection(fs, f, i) IN
         /\ OneFilter(fs, gs, f) /\ gs[f].sec = 0 /\ gs[f].feed = i
         /\ gs[f].state = fs[f].state /\ gs[f].par = fs[f].par /\ gs[f].mem = fs[f].mem
<1>0. 0 \in 0 .. mode.filternum  BY Numbers
<1>1. PICK y : y = [[fs[f] EXCEPT !.sec = 0] EXCEPT !.feed = i]  OBVIOUS
<1>2. /\ y \in DevFilter /\ y.sec = 0 /\ y.feed = i /\ y.state = fs[f].state /\ y.par = fs[f].par
      /\ y.mem = fs[f].mem
  BY <1>0, <1>1 DEF DevFilter
<1>3. PICK gs : gs = [fs EXCEPT ![f] = y]  OBVIOUS
<1>4. OneFilter(fs, gs, f) /\ gs[f] = y  BY <1>2, <1>3, PutFilter
<1>5. gs = WithSection(fs, f, i)  BY <1>1, <1>3 DEF WithSection
<1>. QED  BY <1>2, <1>4, <1>5

(* feed of a PES filter set.                                               *)
LEMMA SetTs ==
  ASSUME NEW fs \in [DevFilters -> DevFilter], NEW f \in DevFilters, NEW i \in 0 .. mode.feednum
  PROVE  LET gs == WithTs(fs, f, i) IN
         /\ OneFilter(fs, gs, f) /\ gs[f].feed = i
         /\ gs[f].state = fs[f].state /\ gs[f].par = fs[f].par /\ gs[f].mem = fs[f].mem
<1>1. PICK y : y = [fs[f] EXCEPT !.feed = i]  OBVIOUS
<1>2. /\ y \in DevFilter /\ y.feed = i /\ y.state = fs[f].state /\ y.par = fs[f].par
      /\ y.mem = fs[f].mem
  BY <1>1 DEF DevFilter
<1>3. PICK gs : gs = [fs EXCEPT ![f] = y]  OBVIOUS
<1>4. OneFilter(fs, gs, f) /\ gs[f] = y  BY <1>2, <1>3, PutFilter
<1>5. gs = WithTs(fs, f, i)  BY <1>1, <1>3 DEF WithTs
<1>. QED  BY <1>2, <1>4, <1>5

(* filter.sec set.                                                         *)
LEMMA SetSec ==
  ASSUME NEW fs \in [DevFilters -> DevFilter], NEW f \in DevFilters, NEW k \in 0 .. mode.filternum
  PROVE  LET gs == WithSec(fs, f, k) IN
         /\ OneFilter(fs, gs, f) /\ gs[f].sec = k /\ gs[f].feed = fs[f].feed
         /\ gs[f].state = fs[f].state /\ gs[f].par = fs[f].par /\ gs[f].mem = fs[f].mem
<1>1. PICK y : y = [fs[f] EXCEPT !.sec = k]  OBVIOUS
<1>2. /\ y \in DevFilter /\ y.sec = k /\ y.feed = fs[f].feed /\ y.state = fs[f].state /\ y.par = fs[f].par
      /\ y.mem = fs[f].mem
  BY <1>1 DEF DevFilter
<1>3. PICK gs : gs = [fs EXCEPT ![f] = y]  OBVIOUS
<1>4. OneFilter(fs, gs, f) /\ gs[f] = y  BY <1>2, <1>3, PutFilter
<1>5. gs = WithSec(fs, f, k)  BY <1>1, <1>3 DEF WithSec
<1>. QED  BY <1>2, <1>4, <1>5

(* The end of filter_stop on the filter.                                   *)
LEMMA SetStopped ==
  ASSUME NEW fs \in [DevFilters -> DevFilter], NEW f \in DevFilters, mode \in Modes
  PROVE  LET gs == WithStopped(fs, f) IN
         /\ OneFilter(fs, gs, f) /\ gs[f].feed = 0
         /\ gs[f].state = fs[f].state /\ gs[f].par = fs[f].par
<1>0. 0 \in 0 .. mode.feednum  BY Numbers
<1>1. PICK y : y = [[fs[f] EXCEPT !.feed = 0] EXCEPT !.buf = "empty"]  OBVIOUS
<1>2. /\ y \in DevFilter /\ y.feed = 0 /\ y.state = fs[f].state /\ y.par = fs[f].par
  BY <1>0, <1>1 DEF DevFilter
<1>3. PICK gs : gs = [fs EXCEPT ![f] = y]  OBVIOUS
<1>4. OneFilter(fs, gs, f) /\ gs[f] = y  BY <1>2, <1>3, PutFilter
<1>5. gs = WithStopped(fs, f)  BY <1>1, <1>3 DEF WithStopped
<1>. QED  BY <1>2, <1>4, <1>5

(* The parameters set.                                                     *)
LEMMA SetPar ==
  ASSUME NEW fs \in [DevFilters -> DevFilter], NEW f \in DevFilters, NEW par \in Pars
  PROVE  LET gs == WithPar(fs, f, par) IN
         OneFilter(fs, gs, f) /\ gs[f].par = par /\ gs[f].state = "SET"
<1>1. PICK y : y = [[fs[f] EXCEPT !.par = par] EXCEPT !.state = "SET"]  OBVIOUS
<1>2. y \in DevFilter /\ y.par = par /\ y.state = "SET"  BY <1>1 DEF DevFilter
<1>3. PICK gs : gs = [fs EXCEPT ![f] = y]  OBVIOUS
<1>4. OneFilter(fs, gs, f) /\ gs[f] = y  BY <1>2, <1>3, PutFilter
<1>5. gs = WithPar(fs, f, par)  BY <1>1, <1>3 DEF WithPar
<1>. QED  BY <1>2, <1>4, <1>5

(* The end of filter_stop                                                  *)
LEMMA StoppedBase ==
  ASSUME Base, Stopped
  PROVE  Base'
<1>1. mode \in Modes /\ Types /\ call.pc = "stopped" /\ call.f \in DevFilters  BY Caller DEF Base, Types, Stopped
<1>2. PICK f \in DevFilters : f = call.f  BY <1>1
<1>3. /\ timer' = timer /\ opened' = opened /\ reading' = reading /\ past' = past
      /\ mode' = mode /\ dmx' = dmx /\ dvr' = dvr /\ copies' = copies
  BY DEF Stopped
<1>4. filter \in [DevFilters -> DevFilter]  BY <1>1 DEF Types
<1>5. filter' = WithStopped(filter, f)  BY <1>2 DEF Stopped, WithStopped
<1>6. filter' \in [DevFilters -> DevFilter]  BY <1>1, <1>4, <1>5, SetStopped DEF OneFilter
<1>. QED  BY <1>1, <1>3, <1>6, AfterStopBase, QuietStep DEF Types, Stopped

(* filter_set and pes_filter_set                                           *)
LEMMA SetBase ==
  ASSUME Base, Set
  PROVE  Base'
<1>1. mode \in Modes /\ Types /\ call.pc = "set" /\ call.f \in DevFilters /\ call.par \in Pars
  BY Caller DEF Base, Types, Set
<1>2. PICK f \in DevFilters : f = call.f  BY <1>1
<1>3. /\ timer' = timer /\ opened' = opened /\ reading' = reading /\ past' = past
      /\ mode' = mode /\ dmx' = dmx /\ dvr' = dvr /\ copies' = copies
  BY DEF Set
<1>4. filter \in [DevFilters -> DevFilter]  BY <1>1 DEF Types
<1>5. filter' \in [DevFilters -> DevFilter]
  <2>1. CASE filter' = filter  BY <2>1, <1>4
  <2>2. CASE filter' = [filter EXCEPT ![f].par = call.par, ![f].state = "SET"]
    <3>1. PICK par \in Pars : par = call.par  BY <1>1
    <3>2. filter' = WithPar(filter, f, par)  BY <2>2, <3>1 DEF WithPar
    <3>. QED  BY <1>4, <3>2, SetPar DEF OneFilter
  <2>. QED  BY <1>2, <2>1, <2>2 DEF Set
<1>6. CASE call' = Idle
  <2>1. CallInv'  BY <1>6, Returned
  <2>. QED  BY <1>1, <1>3, <1>5, <1>6, <2>1, QuietStep DEF Types
<1>7. CASE call' = [call EXCEPT !.pc = "alloc"]
  <2>1. "alloc" \in Stages  BY DEF Stages
  <2>2. /\ call' \in [pc : Stages, op : Ops, f : opened, par : Pars]
        /\ call'.pc = "alloc" /\ call'.op = call.op /\ call'.f = call.f /\ call'.par = call.par
    BY <1>1, <1>7, <2>1, Moved
  <2>3. CallInv'  BY <1>1, <1>3, <2>2 DEF CallInv, Base
  <2>. QED  BY <1>1, <1>3, <1>5, <2>2, <2>3, QuietStep DEF Types
<1>. QED  BY <1>6, <1>7 DEF Set

(* set_buffer_size                                                         *)
LEMMA SetSizeBase ==
  ASSUME Base, SetSize
  PROVE  Base'
<1>1. mode \in Modes /\ Types /\ call.pc = "size" /\ call.f \in DevFilters  BY Caller DEF Base, Types, SetSize
<1>2. PICK f \in DevFilters : f = call.f  BY <1>1
<1>3. /\ timer' = timer /\ opened' = opened /\ reading' = reading /\ past' = past
      /\ mode' = mode /\ dmx' = dmx /\ dvr' = dvr /\ copies' = copies /\ call' = Idle
  BY DEF SetSize
<1>4. filter \in [DevFilters -> DevFilter]  BY <1>1 DEF Types
<1>5. filter' \in [DevFilters -> DevFilter]
  <2>1. CASE filter' = filter  BY <2>1, <1>4
  <2>2. ASSUME NEW want \in BOOLEAN, NEW mem \in BOOLEAN,
               filter' = [filter EXCEPT ![f] = [@ EXCEPT !.sized = want, !.mem = mem, !.buf = "empty"]]
        PROVE  filter' \in [DevFilters -> DevFilter]
    <3>1. PICK y : y = [filter[f] EXCEPT !.sized = want, !.mem = mem, !.buf = "empty"]  OBVIOUS
    <3>2. filter[f] \in DevFilter  BY <1>4
    <3>3. y \in DevFilter  BY <3>1, <3>2 DEF DevFilter
    <3>4. filter' = [filter EXCEPT ![f] = y]  BY <2>2, <3>1
    <3>. QED  BY <1>4, <3>3, <3>4, PutFilter DEF OneFilter
  <2>3. PICK want \in BOOLEAN : want = (call.op = "size1")  BY Zenon
  <2>4. filter' = filter \/ \E mem \in BOOLEAN :
          filter' = [filter EXCEPT ![f] = [@ EXCEPT !.sized = want, !.mem = mem, !.buf = "empty"]]
    <3>1. \A S : {want} \cup (IF "memory" \in mode.faults THEN {FALSE} ELSE {}) \subseteq BOOLEAN  OBVIOUS
    <3>. QED  BY <1>2, <2>3, <3>1, Zenon DEF SetSize
  <2>. QED  BY <2>1, <2>2, <2>4
<1>6. CallInv'  BY <1>3, Returned
<1>. QED  BY <1>1, <1>3, <1>5, <1>6, QuietStep DEF Types

(* filter_free                                                             *)
LEMMA FreeBase ==
  ASSUME Base, Free
  PROVE  Base'
<1>1. mode \in Modes /\ Types /\ call.pc = "free" /\ call.f \in DevFilters  BY Caller DEF Base, Types, Free
<1>2. PICK f \in DevFilters : f = call.f  BY <1>1
<1>3. /\ timer' = timer /\ opened' = opened \ {f} /\ reading' = reading /\ past' = past
      /\ mode' = mode /\ dmx' = dmx /\ dvr' = dvr /\ copies' = copies /\ call' = Idle
  BY <1>2 DEF Free
<1>4. filter \in [DevFilters -> DevFilter]  BY <1>1 DEF Types
<1>5. filter' \in [DevFilters -> DevFilter]
  <2>1. PICK y : y = [filter[f] EXCEPT !.state = "FREE", !.mem = FALSE, !.par = NoParam, !.sec = 0]
    OBVIOUS
  <2>2. filter[f] \in DevFilter  BY <1>4
  <2>3. NoParam \in Pars /\ 0 \in 0 .. mode.filternum  BY <1>1, Numbers DEF Pars
  <2>4. y \in DevFilter  BY <2>1, <2>2, <2>3 DEF DevFilter
  <2>5. filter' = [filter EXCEPT ![f] = y]  BY <1>2, <2>1 DEF Free
  <2>. QED  BY <1>4, <2>4, <2>5, PutFilter DEF OneFilter
<1>6. CallInv'  BY <1>3, Returned
<1>7. f \notin reading  BY <1>1, <1>2 DEF Base, CallInv
<1>8. opened' \subseteq DevFilters /\ reading' \subseteq opened'  BY <1>1, <1>3, <1>7 DEF Types
<1>. QED  BY <1>1, <1>3, <1>5, <1>6, <1>8, QuietStep DEF Types

(* filter_timer                                                            *)
LEMMA ArmTimerBase ==
  ASSUME Base, ArmTimer
  PROVE  Base'
<1>1. mode \in Modes /\ Types /\ call.pc = "arm" /\ call.f \in DevFilters  BY Caller DEF Base, Types, ArmTimer
<1>2. PICK f \in DevFilters : f = call.f  BY <1>1
<1>3. /\ filter' = filter /\ opened' = opened /\ reading' = reading /\ past' = past
      /\ mode' = mode /\ dmx' = dmx /\ dvr' = dvr /\ copies' = copies
      /\ call' = [call EXCEPT !.pc = "go"]
  BY DEF ArmTimer
<1>4. PICK on \in BOOLEAN : on = filter[f].par.timed
  <2>1. filter[f].par \in Pars  BY <1>1, FilterFields DEF Types
  <2>2. \A par \in Param : par.timed \in BOOLEAN  BY DEF Param
  <2>3. NoParam.timed = FALSE  BY DEF NoParam
  <2>4. Pars \subseteq Param \cup {NoParam}  BY <1>1, Numbers DEF Pars
  <2>. QED  BY <2>1, <2>2, <2>3, <2>4
<1>5. timer' \in [DevFilters -> [armed : BOOLEAN, running : BOOLEAN]]
  <2>1. timer' = [timer EXCEPT ![f].armed = on]  BY <1>2, <1>4 DEF ArmTimer
  <2>. QED  BY <1>1, <2>1 DEF Types
<1>6. "go" \in Stages  BY DEF Stages
<1>7. /\ call' \in [pc : Stages, op : Ops, f : opened, par : Pars]
      /\ call'.pc = "go" /\ call'.op = call.op /\ call'.f = call.f /\ call'.par = call.par
  BY <1>1, <1>3, <1>6, Moved
<1>8. CallInv'  BY <1>1, <1>3, <1>7 DEF CallInv, Base
<1>. QED  BY <1>1, <1>3, <1>5, <1>7, <1>8, QuietStep DEF Types

(* The end of filter_start                                                 *)
LEMMA GoBase ==
  ASSUME Base, Go
  PROVE  Base'
<1>1. mode \in Modes /\ Types /\ call.pc = "go" /\ call.f \in DevFilters  BY Caller DEF Base, Types, Go
<1>2. PICK f \in DevFilters : f = call.f  BY <1>1
<1>3. /\ timer' = timer /\ opened' = opened /\ reading' = reading /\ past' = past
      /\ mode' = mode /\ dmx' = dmx /\ dvr' = dvr /\ copies' = copies /\ call' = Idle
      /\ filter' = WithState(filter, f, "GO")
  BY <1>2 DEF Go, WithState
<1>4. filter \in [DevFilters -> DevFilter]  BY <1>1 DEF Types
<1>5. filter' \in [DevFilters -> DevFilter]  BY <1>3, <1>4, SetState DEF OneFilter
<1>6. CallInv'  BY <1>3, Returned
<1>. QED  BY <1>1, <1>3, <1>5, <1>6, QuietStep DEF Types

(* dvb_demux_read                                                          *)
LEMMA ReadBase ==
  ASSUME Base, NEW f \in DevFilters, Read(f) \/ ReadWakes(f)
  PROVE  Base'
<1>1. mode \in Modes /\ Types /\ filter \in [DevFilters -> DevFilter]  BY DEF Base, Types
<1>2. /\ timer' = timer /\ opened' = opened /\ past' = past /\ call' = call
      /\ mode' = mode /\ dmx' = dmx /\ dvr' = dvr /\ copies' = copies
  BY DEF Read, ReadWakes
<1>3. ASSUME NEW b \in Took(f), filter' = WithBuf(filter, f, b)
      PROVE  filter' \in [DevFilters -> DevFilter] /\ \A g \in DevFilters : SameOwner(filter, filter', g)
  <2>1. b \in {"empty", "data", "error"}  BY DEF Took
  <2>. QED  BY <1>1, <1>3, <2>1, SetBuf DEF OneFilter
<1>4. filter' \in [DevFilters -> DevFilter] /\ \A g \in DevFilters : SameOwner(filter, filter', g)
  <2>1. CASE filter' = filter  BY <2>1, <1>1 DEF SameOwner
  <2>2. CASE filter' # filter  BY <2>2, <1>3 DEF Read, ReadWakes, WithBuf
  <2>. QED  BY <2>1, <2>2
<1>5. reading' \subseteq opened /\ (reading' \subseteq reading \/ (Read(f) /\ reading' = reading \cup {f}))
  BY <1>1 DEF Read, ReadWakes, Types
<1>6. CallInv'
  <2>1. CASE call = Idle  BY <2>1, <1>2, Returned
  <2>2. CASE call # Idle
    <3>1. call \in [pc : Stages, op : Ops, f : opened, par : Pars]  BY <2>2, <1>1 DEF Types
    <3>2. call.f \in DevFilters /\ call.pc # "idle"  BY <3>1, <1>1 DEF Types, Stages
    <3>3. (call.pc \notin {"idle", "lock"} \/ call.op = "free") => call.f \notin reading'
      BY <1>5, <3>2 DEF Base, CallInv, Read
    <3>4. filter'[call.f].feed = filter[call.f].feed /\ filter'[call.f].sec = filter[call.f].sec
      BY <3>2, <1>4 DEF SameOwner
    <3>. QED  BY <1>2, <3>3, <3>4 DEF Base, CallInv
  <2>. QED  BY <2>1, <2>2
<1>. QED  BY <1>1, <1>2, <1>4, <1>5, <1>6, QuietStep DEF Types

(* The timeout                                                             *)
LEMMA TimerBase ==
  ASSUME Base, NEW f \in DevFilters, TimerExpires(f) \/ TimerState(f)
  PROVE  Base'
<1>1. mode \in Modes /\ Types /\ filter \in [DevFilters -> DevFilter]  BY DEF Base, Types
<1>2. /\ opened' = opened /\ reading' = reading /\ call' = call
      /\ mode' = mode /\ dmx' = dmx /\ dvr' = dvr /\ copies' = copies
  BY DEF TimerExpires, TimerState
<1>3. filter' \in [DevFilters -> DevFilter] /\ \A g \in DevFilters : SameOwner(filter, filter', g)
  <2>1. CASE TimerExpires(f)
    <3>1. filter' = WithBuf(filter, f, "error")  BY <2>1 DEF TimerExpires, WithBuf
    <3>. QED  BY <3>1, <1>1, SetBuf DEF OneFilter
  <2>2. CASE TimerState(f)
    <3>1. filter' = WithState(filter, f, "TIMEDOUT")  BY <2>2 DEF TimerState, WithState
    <3>. QED  BY <3>1, <1>1, SetState DEF OneFilter
  <2>. QED  BY <2>1, <2>2
<1>4. timer' \in [DevFilters -> [armed : BOOLEAN, running : BOOLEAN]]
  <2>0. timer \in [DevFilters -> [armed : BOOLEAN, running : BOOLEAN]]  BY <1>1 DEF Types
  <2>1. CASE TimerExpires(f)  BY <2>0, <2>1 DEF TimerExpires
  <2>2. CASE TimerState(f)  BY <2>0, <2>2 DEF TimerState
  <2>. QED  BY <2>1, <2>2
<1>5. past' \in [late : BOOLEAN, refused : BOOLEAN]
  <2>0. past \in [late : BOOLEAN, refused : BOOLEAN]  BY <1>1 DEF Types
  <2>1. CASE TimerExpires(f)  BY <2>0, <2>1 DEF TimerExpires
  <2>2. CASE TimerState(f)
    <3>1. PICK b \in BOOLEAN : b = (past.late \/ (~Active(f) /\ ~(call.f = f /\ call.pc = "go")))  BY Zenon
    <3>2. past' = [past EXCEPT !.late = b]  BY <2>2, <3>1, Zenon DEF TimerState
    <3>. QED  BY <2>0, <3>2
  <2>. QED  BY <2>1, <2>2
<1>6. CallInv'
  <2>1. CASE call = Idle  BY <2>1, <1>2, Returned
  <2>2. CASE call # Idle
    <3>1. call \in [pc : Stages, op : Ops, f : opened, par : Pars]  BY <2>2, <1>1 DEF Types
    <3>2. call.f \in DevFilters  BY <3>1, <1>1 DEF Types
    <3>4. filter'[call.f].feed = filter[call.f].feed /\ filter'[call.f].sec = filter[call.f].sec
      BY <3>2, <1>3 DEF SameOwner
    <3>. QED  BY <1>2, <3>4 DEF Base, CallInv
  <2>. QED  BY <2>1, <2>2
<1>. QED  BY <1>1, <1>2, <1>3, <1>4, <1>5, <1>6, QuietStep DEF Types

(* A packet changes the buffers, and the state of a filter that runs.      *)
LEMMA PacketFilters ==
  ASSUME Types, NEW pid, Packet(pid)
  PROVE  /\ filter' \in [DevFilters -> DevFilter]
         /\ \A g \in DevFilters :
              /\ SameOwner(filter, filter', g)
              /\ \/ filter'[g].state = filter[g].state
                 \/ filter[g].state = "GO" /\ filter'[g].state = "DONE"
         /\ timer' \in [DevFilters -> [armed : BOOLEAN, running : BOOLEAN]]
<1>1. PICK secs, got :
        /\ \A f \in DOMAIN got : got[f] \in {"data", "error", "empty"}
        /\ \A f \in secs : filter[f].state = "GO"
        /\ filter' = [f \in DevFilters |->
             IF f \in DOMAIN got
             THEN [filter[f] EXCEPT !.buf = got[f],
                     !.state = IF f \in secs /\ filter[f].par.oneshot THEN "DONE" ELSE @]
             ELSE filter[f]]
        /\ timer' = [f \in DevFilters |->
             IF f \in secs THEN [timer[f] EXCEPT !.armed = FALSE] ELSE timer[f]]
  BY DEF Packet
<1>2. ASSUME NEW g \in DevFilters
      PROVE  /\ filter'[g] \in DevFilter /\ SameOwner(filter, filter', g)
             /\ \/ filter'[g].state = filter[g].state
                \/ filter[g].state = "GO" /\ filter'[g].state = "DONE"
  <2>1. filter[g] \in DevFilter  BY DEF Types
  <2>2. CASE g \notin DOMAIN got  BY <1>1, <2>1, <2>2 DEF SameOwner
  <2>3. CASE g \in DOMAIN got
    <3>1. PICK s \in {"FREE", "ALLOCATED", "SET", "GO", "DONE", "TIMEDOUT"} :
            /\ s = IF g \in secs /\ filter[g].par.oneshot THEN "DONE" ELSE filter[g].state
            /\ s = filter[g].state \/ (filter[g].state = "GO" /\ s = "DONE")
      <4>1. CASE g \in secs /\ filter[g].par.oneshot  BY <4>1, <1>1
      <4>2. CASE ~(g \in secs /\ filter[g].par.oneshot)  BY <4>2, <2>1, FilterFields
      <4>. QED  BY <4>1, <4>2
    <3>2. PICK b \in {"empty", "data", "error"} : b = got[g]  BY <1>1, <2>3
    <3>3. PICK y : y = [filter[g] EXCEPT !.buf = b, !.state = s]  OBVIOUS
    <3>4. filter'[g] = y  BY <1>1, <2>3, <3>1, <3>2, <3>3
    <3>5. /\ y \in DevFilter /\ y.state = s /\ y.par = filter[g].par /\ y.mem = filter[g].mem
          /\ y.feed = filter[g].feed /\ y.sec = filter[g].sec
      BY <2>1, <3>3 DEF DevFilter
    <3>. QED  BY <3>1, <3>4, <3>5 DEF SameOwner
  <2>. QED  BY <2>2, <2>3
<1>3. filter' \in [DevFilters -> DevFilter]
  <2>1. PICK h : filter' = [f \in DevFilters |-> h[f]]
    <3>1. PICK h : h = filter'  OBVIOUS
    <3>2. h = [f \in DevFilters |-> h[f]]  BY <1>1, <3>1
    <3>. QED  BY <3>1, <3>2
  <2>. QED  BY <2>1, <1>2
<1>4. timer' \in [DevFilters -> [armed : BOOLEAN, running : BOOLEAN]]
  <2>1. timer \in [DevFilters -> [armed : BOOLEAN, running : BOOLEAN]]  BY DEF Types
  <2>. QED  BY <1>1, <2>1
<1>. QED  BY <1>2, <1>3, <1>4

(* A packet: it is copied to the DVR buffer once.                          *)
LEMMA PacketBase ==
  ASSUME Base, NEW pid \in Pids \ {AllPids}, Packet(pid)
  PROVE  Base'
<1>1. mode \in Modes /\ Types  BY DEF Base, Types
<1>2. /\ opened' = opened /\ reading' = reading /\ call' = call
      /\ mode' = mode /\ dmx' = dmx /\ dvr' = dvr /\ past' = past
  BY DEF Packet
<1>3. /\ filter' \in [DevFilters -> DevFilter] /\ \A g \in DevFilters : SameOwner(filter, filter', g)
      /\ timer' \in [DevFilters -> [armed : BOOLEAN, running : BOOLEAN]]
  BY <1>1, PacketFilters
<1>4. CallInv'
  <2>1. CASE call = Idle  BY <2>1, <1>2, Returned
  <2>2. CASE call # Idle
    <3>1. call \in [pc : Stages, op : Ops, f : opened, par : Pars]  BY <2>2, <1>1 DEF Types
    <3>2. call.f \in DevFilters  BY <3>1, <1>1 DEF Types
    <3>4. filter'[call.f].feed = filter[call.f].feed /\ filter'[call.f].sec = filter[call.f].sec
      BY <3>2, <1>3 DEF SameOwner
    <3>. QED  BY <1>2, <3>4 DEF Base, CallInv
  <2>. QED  BY <2>1, <2>2
<1>5. Types'  BY <1>1, <1>2, <1>3, TypesStep DEF Types
<1>6. FrontendInv' /\ Listed(dmx)'  BY <1>2 DEF Base, FrontendInv
<1>7. DvrOnce'
  <2>1. SUFFICES ASSUME \A par \in mode.params : par.pid # AllPids
                 PROVE  copies' \in {0, 1}
    BY <1>2 DEF DvrOnce
  <2>2. PICK d \in Demux : d = dmx  BY <1>1 DEF Types
  <2>3. \A i \in 1 .. mode.feednum : d.feed[i].pid # AllPids
    <3>1. ASSUME NEW i \in 1 .. mode.feednum PROVE d.feed[i].pid # AllPids
      <4>1. d.feed[i] \in FeedRec  BY DemuxFields
      <4>2. d.feed[i].pid \in {NoPid} \cup {par.pid : par \in mode.params}  BY <4>1, FeedFields
      <4>. QED  BY <2>1, <4>2 DEF NoPid, AllPids
    <3>. QED  BY <3>1
  <2>4. \A i \in Matching(d, pid) : i \in 1 .. mode.feednum  BY DemuxFields DEF Matching
  <2>5. {i \in OtherTs(d, pid) : d.feed[i].out = "dvr"} = {}
    <3>1. ASSUME NEW i \in OtherTs(d, pid) PROVE d.feed[i].out = "tap"
      BY <2>3, <2>4 DEF OtherTs
    <3>. QED  BY <3>1
  <2>6. Cardinality({i \in OtherTs(d, pid) : d.feed[i].out = "dvr"}) = 0  BY <2>5, FS_EmptySet
  <2>7. DvrCopies(d, pid) \in {0, 1}  BY <2>6 DEF DvrCopies
  <2>. QED  BY <2>2, <2>7 DEF Packet
<1>. QED  BY <1>4, <1>5, <1>6, <1>7 DEF Base

(* dvb_dvr_open and dvb_dvr_release: with one writer the frontend is       *)
(* restored.                                                               *)
LEMMA DvrBase ==
  ASSUME Base, DvrOpenRead \/ DvrCloseRead \/ DvrOpenWrite \/ DvrCloseWrite
  PROVE  Base'
<1>1. mode \in Modes /\ Types  BY DEF Base, Types
<1>2. /\ opened' = opened /\ reading' = reading /\ call' = call /\ filter' = filter /\ timer' = timer
      /\ mode' = mode /\ past' = past /\ copies' = copies /\ call.pc = "idle"
  BY DEF DvrOpenRead, DvrCloseRead, DvrOpenWrite, DvrCloseWrite
<1>3. call' = Idle  BY <1>1, <1>2 DEF Types, Stages
<1>4. CallInv' /\ DvrOnce'  BY <1>2, <1>3, Returned DEF Base, DvrOnce
<1>5. dvr \in [reader : {"none", "open"}, writers : Nat, orig : {"hw", "mem"}] /\ dmx \in Demux
  BY <1>1 DEF Types
<1>6. dvr' \in [reader : {"none", "open"}, writers : Nat, orig : {"hw", "mem"}]
  <2>1. dmx.frontend \in {"hw", "mem"}  BY <1>5, DemuxFields
  <2>2. CASE DvrOpenRead  BY <2>2, <1>5 DEF DvrOpenRead
  <2>3. CASE DvrCloseRead  BY <2>3, <1>5 DEF DvrCloseRead
  <2>4. CASE DvrOpenWrite
    <3>1. PICK n \in Nat, x \in {"hw", "mem"} : n = dvr.writers + 1 /\ x = dmx.frontend  BY <2>1, <1>5
    <3>2. dvr' = [dvr EXCEPT !.writers = n, !.orig = x]  BY <2>4, <3>1 DEF DvrOpenWrite
    <3>. QED  BY <3>2, <1>5
  <2>5. CASE DvrCloseWrite  BY <2>5, <1>5 DEF DvrCloseWrite
  <2>. QED  BY <2>2, <2>3, <2>4, <2>5
<1>7. dmx' = dmx \/ \E x \in {"hw", "mem"} : dmx' = [dmx EXCEPT !.frontend = x]
  <2>1. dvr.orig \in {"hw", "mem"}  BY <1>5
  <2>. QED  BY <2>1 DEF DvrOpenRead, DvrCloseRead, DvrOpenWrite, DvrCloseWrite
<1>8. dmx' \in Demux /\ dmx'.feed = dmx.feed /\ dmx'.feed_list = dmx.feed_list
  <2>1. CASE dmx' = dmx  BY <2>1, <1>5
  <2>2. ASSUME NEW x \in {"hw", "mem"}, dmx' = [dmx EXCEPT !.frontend = x]
        PROVE  dmx' \in Demux /\ dmx'.feed = dmx.feed /\ dmx'.feed_list = dmx.feed_list
    BY <2>2, <1>5 DEF Demux
  <2>. QED  BY <1>7, <2>1, <2>2
<1>9. Types'  BY <1>1, <1>2, <1>3, <1>6, <1>8, TypesStep DEF Types
<1>10. Listed(dmx)'  BY <1>8 DEF Base, Listed
<1>11. FrontendInv'
  <2>0. mode.writers \in 0 .. 2 /\ dvr.writers \in Nat  BY <1>1, <1>5, LifeConstants
  <2>2. CASE DvrOpenRead  BY <2>2, <1>5 DEF DvrOpenRead, FrontendInv, Base
  <2>3. CASE DvrCloseRead  BY <2>3, <1>5 DEF DvrCloseRead, FrontendInv, Base
  <2>4. CASE DvrOpenWrite
    <3>1. dvr'.writers = dvr.writers + 1 /\ dvr'.orig = dmx.frontend /\ dvr.writers < mode.writers
      BY <2>4, <1>5 DEF DvrOpenWrite
    <3>. QED  BY <2>0, <3>1, <1>2 DEF FrontendInv, Base
  <2>5. CASE DvrCloseWrite
    <3>1. dvr'.writers = dvr.writers - 1 /\ dvr'.orig = dvr.orig /\ dvr.writers > 0
          /\ dmx'.frontend = dvr.orig
      BY <2>5, <1>5 DEF DvrCloseWrite, Demux
    <3>. QED  BY <2>0, <3>1, <1>2 DEF FrontendInv, Base
  <2>. QED  BY <2>2, <2>3, <2>4, <2>5
<1>. QED  BY <1>4, <1>9, <1>10, <1>11 DEF Base

(* Calls that change the demux                                             *)
LEMMA ListedStep ==
  ASSUME NEW d \in Demux, NEW e \in Demux, NEW i \in 1 .. mode.feednum, Listed(d),
         Others(d, e, i), e.feed_list \subseteq d.feed_list \cup {i},
         i \in e.feed_list => e.feed[i].state # "FREE"
  PROVE  Listed(e)
<1>1. d.feed_list \subseteq 1 .. mode.feednum  BY DemuxFields
<1>. QED  BY <1>1 DEF Listed, Others

(* A feed that changes but is not freed may stay in feed_list.             *)
LEMMA OnlyListed ==
  ASSUME NEW d \in Demux, NEW e \in Demux, NEW i \in 1 .. mode.feednum, Listed(d),
         Only(d, e, i), e.feed[i].state # "FREE"
  PROVE  Listed(e) /\ e.frontend = d.frontend
<1>1. Others(d, e, i) /\ e.feed_list = d.feed_list /\ e.frontend = d.frontend  BY DEF Others, Only
<1>. QED  BY <1>1, ListedStep

(* A step of a call.                                                       *)
LEMMA BusyStep ==
  ASSUME Base, UNCHANGED <<mode, dvr, copies, opened, reading>>,
         dmx' \in Demux, dmx'.frontend = dmx.frontend, Listed(dmx'),
         filter' \in [DevFilters -> DevFilter],
         timer' \in [DevFilters -> [armed : BOOLEAN, running : BOOLEAN]],
         call' = Idle \/ call' \in [pc : Stages, op : Ops, f : opened, par : Pars], CallInv',
         past' \in [late : BOOLEAN, refused : BOOLEAN]
  PROVE  Base'
<1>1. FrontendInv' /\ DvrOnce'  BY DEF Base, FrontendInv, DvrOnce
<1>2. Types'  BY TypesStep DEF Base, Types
<1>. QED  BY <1>1, <1>2 DEF Base

(* The feed started, if it can be                                          *)
LEMMA TryStartBase ==
  ASSUME NEW d \in Demux, NEW i \in 1 .. mode.feednum, Listed(d)
  PROVE  LET e == TryStart(d, i) IN e \in Demux /\ Listed(e) /\ e.frontend = d.frontend
<1>1. CASE TryStart(d, i) = d  BY <1>1
<1>2. CASE TryStart(d, i) # d
  <2>1. PICK e : e = start_filtering(d, i)  OBVIOUS
  <2>2. e \in Demux /\ Only(d, e, i) /\ e.feed[i].state # "FREE"  BY <2>1, StartFacts
  <2>3. Listed(e) /\ e.frontend = d.frontend  BY <2>2, OnlyListed
  <2>. QED  BY <1>2, <2>1, <2>2, <2>3 DEF TryStart
<1>. QED  BY <1>1, <1>2

(* The section feed released                                               *)
LEMMA ReleaseSectionBase ==
  ASSUME mode \in Modes, NEW d \in Demux, NEW i \in 1 .. mode.feednum, Listed(d)
  PROVE  LET e == release_section_feed(d, i) IN e \in Demux /\ Listed(e) /\ e.frontend = d.frontend
<1>1. PICK e : e = release_section_feed(d, i)  OBVIOUS
<1>2. CASE d.feed[i].state = "FREE"
  <2>1. e = d  BY <1>1, <1>2, ReleaseSectionFacts
  <2>. QED  BY <1>1, <2>1
<1>3. CASE d.feed[i].state # "FREE"
  <2>1. e \in Demux /\ Others(d, e, i) /\ SameCard(d, e) /\ e.feed_list = d.feed_list \ {i}
    BY <1>1, <1>3, ReleaseSectionFacts
  <2>2. Listed(e)  BY <2>1, ListedStep
  <2>. QED  BY <1>1, <2>1, <2>2 DEF SameCard
<1>. QED  BY <1>2, <1>3

(* The first filter that shares a feed is one of them.                     *)
LEMMA SharingFirst ==
  ASSUME NEW pid, Sharing(pid) # {}, mode \in Modes
  PROVE  Min(Sharing(pid)) \in Sharing(pid) /\ Min(Sharing(pid)) \in DevFilters
<1>1. Sharing(pid) \in SUBSET Nat  BY Numbers DEF Sharing, DevFilters
<1>2. Min(Sharing(pid)) \in Sharing(pid)  BY <1>1, MinIn
<1>. QED  BY <1>2 DEF Sharing

(* feed_restart keeps the types, and the owners' fields.                   *)
LEMMA FeedRestartBase ==
  ASSUME Types, NEW d \in Demux, Listed(d), NEW f \in DevFilters, NEW fs \in [DevFilters -> DevFilter],
         fs[f].feed \in 1 .. mode.feednum, NEW then, FeedRestart(d, f, fs, then)
  PROVE  /\ dmx' \in Demux /\ Listed(dmx') /\ dmx'.frontend = d.frontend
         /\ filter' \in [DevFilters -> DevFilter] /\ \A g \in DevFilters : SameOwner(fs, filter', g)
         /\ call' = then \/ call' = [call EXCEPT !.pc = "oops"]
<1>0. mode \in Modes /\ filter \in [DevFilters -> DevFilter]  BY DEF Types
<1>1. PICK S : S = Sharing(filter[f].par.pid)  OBVIOUS
<1>2. CASE S = {}
  <2>1. dmx' = release_section_feed(d, fs[f].feed) /\ filter' = fs /\ call' = then
    BY <1>1, <1>2 DEF FeedRestart
  <2>2. PICK i \in 1 .. mode.feednum : i = fs[f].feed  OBVIOUS
  <2>3. dmx' = release_section_feed(d, i)  BY <2>1, <2>2
  <2>4. dmx' \in Demux /\ Listed(dmx') /\ dmx'.frontend = d.frontend  BY <1>0, <2>3, ReleaseSectionBase
  <2>. QED  BY <2>1, <2>4 DEF SameOwner
<1>3. CASE S # {}
  <2>1. PICK g \in DevFilters : g = Min(S)  BY <1>0, <1>1, <1>3, SharingFirst
  <2>2. /\ filter' = WithState(fs, g, "GO")
        /\ IF filter[g].feed = 0 THEN dmx' = d /\ call' = [call EXCEPT !.pc = "oops"]
           ELSE dmx' = TryStart(d, filter[g].feed) /\ call' = then
    BY <1>1, <1>3, <2>1 DEF FeedRestart, WithState
  <2>3. filter' \in [DevFilters -> DevFilter] /\ \A h \in DevFilters : SameOwner(fs, filter', h)
    BY <2>2, SetState DEF OneFilter
  <2>4. CASE filter[g].feed = 0  BY <2>2, <2>3, <2>4
  <2>5. CASE filter[g].feed # 0
    <3>1. filter[g].feed \in 0 .. mode.feednum  BY <1>0, FilterFields
    <3>2. PICK i \in 1 .. mode.feednum : i = filter[g].feed  BY <1>0, <2>5, <3>1, Numbers
    <3>3. dmx' = TryStart(d, i) /\ call' = then  BY <2>2, <2>5, <3>2
    <3>4. dmx' \in Demux /\ Listed(dmx') /\ dmx'.frontend = d.frontend  BY <3>3, TryStartBase
    <3>. QED  BY <2>3, <3>3, <3>4
  <2>. QED  BY <2>4, <2>5
<1>. QED  BY <1>2, <1>3

(* The feed and the filter of the caller                                   *)
LEMMA CallersFeed ==
  ASSUME Base,
         call.pc \in {"feed_stop", "release", "share_stop", "get_filter", "retry", "start_filtering", "ts_start"}
  PROVE  /\ mode \in Modes /\ Types /\ call.f \in DevFilters /\ dmx \in Demux
         /\ filter \in [DevFilters -> DevFilter] /\ filter[call.f].feed \in 1 .. mode.feednum
         /\ filter[call.f].sec \in 0 .. mode.filternum
         /\ call.pc = "start_filtering" => filter[call.f].sec \in 1 .. mode.filternum
<1>1. mode \in Modes /\ Types /\ call.f \in DevFilters /\ dmx \in Demux /\ filter \in [DevFilters -> DevFilter]
  BY Caller DEF Base, Types
<1>2. filter[call.f] \in DevFilter  BY <1>1
<1>3. filter[call.f].feed \in 0 .. mode.feednum /\ filter[call.f].sec \in 0 .. mode.filternum
  BY <1>2, FilterFields
<1>4. filter[call.f].feed # 0 /\ (call.pc = "start_filtering" => filter[call.f].sec # 0)
  BY DEF Base, CallInv
<1>. QED  BY <1>1, <1>3, <1>4, Numbers

(* feed_stop                                                               *)
LEMMA StopFeedBase ==
  ASSUME Base, StopFeed
  PROVE  Base'
<1>1. /\ mode \in Modes /\ Types /\ call.f \in DevFilters /\ dmx \in Demux
      /\ filter \in [DevFilters -> DevFilter] /\ filter[call.f].feed \in 1 .. mode.feednum
  BY CallersFeed DEF StopFeed
<1>2. PICK d \in Demux, f \in DevFilters, i \in 1 .. mode.feednum :
        d = dmx /\ f = call.f /\ i = filter[f].feed
  BY <1>1
<1>3. /\ opened' = opened /\ reading' = reading /\ past' = past /\ filter' = filter
      /\ mode' = mode /\ dvr' = dvr /\ copies' = copies
  BY DEF StopFeed
<1>4. dmx' \in Demux /\ Listed(dmx') /\ dmx'.frontend = dmx.frontend
  <2>0. Listed(d)  BY <1>2 DEF Base
  <2>1. CASE dmx' = section_stop_filtering(d, i)
    <3>1. dmx' \in Demux /\ Only(d, dmx', i) /\ dmx'.feed[i].state # "FREE"  BY <2>1, SectionStopFacts
    <3>. QED  BY <1>2, <2>0, <3>1, OnlyListed
  <2>2. CASE dmx' = ts_stop_filtering(d, i) /\ d.feed[i].state = "GO"
    <3>1. dmx' \in Demux /\ Only(d, dmx', i) /\ dmx'.feed[i].state # "FREE"  BY <2>2, TsStopFacts
    <3>. QED  BY <1>2, <2>0, <3>1, OnlyListed
  <2>3. CASE dmx' = ts_stop_filtering(d, i) /\ d.feed[i].state # "GO"
    <3>1. dmx' = d  BY <2>3, TsStopFacts
    <3>. QED  BY <1>2, <2>0, <3>1
  <2>. QED  BY <1>2, <2>1, <2>2, <2>3 DEF StopFeed
<1>5. timer' \in [DevFilters -> [armed : BOOLEAN, running : BOOLEAN]]
  <2>1. timer' = [timer EXCEPT ![f].armed = FALSE]  BY <1>2 DEF StopFeed
  <2>. QED  BY <1>1, <2>1 DEF Types
<1>6. PICK s \in Stages : s \in {"release", "get_filter"} /\ call' = [call EXCEPT !.pc = s]
  <2>1. CASE call.pc = "feed_stop"  BY <2>1 DEF StopFeed, Stages
  <2>2. CASE call.pc = "share_stop"  BY <2>2 DEF StopFeed, Stages
  <2>. QED  BY <2>1, <2>2 DEF StopFeed
<1>7. /\ call' \in [pc : Stages, op : Ops, f : opened, par : Pars]
      /\ call'.pc = s /\ call'.op = call.op /\ call'.f = call.f /\ call'.par = call.par
  BY <1>1, <1>6, Moved DEF StopFeed
<1>8. CallInv'
  <2>1. s = "release" => call.pc = "feed_stop"
    <3>1. s = IF call.pc = "feed_stop" THEN "release" ELSE "get_filter"
      BY <1>7 DEF StopFeed
    <3>. QED  BY <3>1
  <2>. QED  BY <1>1, <1>3, <1>6, <1>7, <2>1, Numbers DEF CallInv, Base, StopFeed
<1>. QED  BY <1>1, <1>3, <1>4, <1>5, <1>7, <1>8, BusyStep DEF Types

(* What a call relies on when it goes on.                                  *)
LEMMA GoesOn ==
  ASSUME Base, call.pc \notin {"idle", "lock"}, NEW s \in Stages, call' = [call EXCEPT !.pc = s],
         reading' = reading, mode' = mode, s # "set",
         s \in {"stop", "feed_stop", "release", "stopped"} => call.op \notin {"size0", "size1"},
         s \in {"feed_stop", "release", "share_stop", "get_filter", "retry", "start_filtering", "ts_start"}
           => filter'[call.f].feed # 0,
         s = "start_filtering" => filter'[call.f].sec # 0
  PROVE  CallInv' /\ call' \in [pc : Stages, op : Ops, f : opened, par : Pars]
<1>1. /\ call' \in [pc : Stages, op : Ops, f : opened, par : Pars]
      /\ call'.pc = s /\ call'.op = call.op /\ call'.f = call.f /\ call'.par = call.par
  BY Moved DEF Base
<1>. QED  BY <1>1 DEF CallInv, Base

(* The section filter released                                             *)
LEMMA ReleaseFilterBase ==
  ASSUME mode \in Modes, NEW d \in Demux, NEW i \in 1 .. mode.feednum, NEW k \in 1 .. mode.filternum,
         Listed(d)
  PROVE  LET e == release_filter(d, i, k) IN e \in Demux /\ Listed(e) /\ e.frontend = d.frontend
<1>1. PICK e : e = release_filter(d, i, k)  OBVIOUS
<1>2. CASE d.filter[k].feed # i
  <2>1. e = d  BY <1>1, <1>2, ReleaseFilterFacts
  <2>. QED  BY <1>1, <2>1
<1>3. CASE d.filter[k].feed = i
  <2>1. /\ e \in Demux /\ Others(d, e, i) /\ SameCard(d, e) /\ e.feed_list = d.feed_list
        /\ SameSetting(e.feed[i], d.feed[i])
    BY <1>1, <1>3, ReleaseFilterFacts
  <2>2. i \in e.feed_list => e.feed[i].state # "FREE"  BY <2>1 DEF SameSetting, Listed
  <2>3. Listed(e)  BY <2>1, <2>2, ListedStep
  <2>. QED  BY <1>1, <2>1, <2>3 DEF SameCard
<1>. QED  BY <1>2, <1>3

(* The transport stream feed released                                      *)
LEMMA ReleaseTsBase ==
  ASSUME mode \in Modes, NEW d \in Demux, NEW i \in 1 .. mode.feednum, Listed(d)
  PROVE  LET e == release_ts_feed(d, i) IN e \in Demux /\ Listed(e) /\ e.frontend = d.frontend
<1>1. PICK e : e = release_ts_feed(d, i)  OBVIOUS
<1>2. CASE d.feed[i].state = "FREE"
  <2>1. e = d  BY <1>1, <1>2 DEF release_ts_feed
  <2>. QED  BY <1>1, <2>1
<1>3. CASE d.feed[i].state # "FREE"
  <2>1. e \in Demux /\ Others(d, e, i) /\ SameCard(d, e) /\ e.feed_list = d.feed_list \ {i}
    BY <1>1, <1>3, ReleaseTsFacts
  <2>2. Listed(e)  BY <2>1, ListedStep
  <2>. QED  BY <1>1, <2>1, <2>2 DEF SameCard
<1>. QED  BY <1>2, <1>3

(* The releases of filter_stop                                             *)
LEMMA ReleaseBase ==
  ASSUME Base, Release
  PROVE  Base'
<1>1. /\ mode \in Modes /\ Types /\ call.f \in DevFilters /\ dmx \in Demux
      /\ filter \in [DevFilters -> DevFilter] /\ filter[call.f].feed \in 1 .. mode.feednum
      /\ filter[call.f].sec \in 0 .. mode.filternum
  BY CallersFeed DEF Release
<1>2. PICK d \in Demux, f \in DevFilters, i \in 1 .. mode.feednum, k \in 0 .. mode.filternum :
        d = dmx /\ f = call.f /\ i = filter[f].feed /\ k = filter[f].sec
  BY <1>1
<1>20. Listed(d)  BY <1>2 DEF Base
<1>3. /\ opened' = opened /\ reading' = reading /\ past' = past /\ timer' = timer
      /\ mode' = mode /\ dvr' = dvr /\ copies' = copies /\ call.pc = "release"
  BY DEF Release
<1>30. call.op \notin {"size0", "size1"}  BY <1>3 DEF Base, CallInv
<1>4. ASSUME NEW s \in {"hung", "oops", "stopped"}, call' = [call EXCEPT !.pc = s]
      PROVE  CallInv' /\ call' \in [pc : Stages, op : Ops, f : opened, par : Pars]
  <2>1. s \in Stages  BY DEF Stages
  <2>. QED  BY <1>3, <1>30, <1>4, <2>1, GoesOn
<1>5. CASE filter[f].par.type = "SEC" /\ k # 0 /\ (ReleaseHangs(d, i, k) \/ ReleaseOops(d, i, k))
  <2>1. dmx' = dmx /\ filter' = filter /\ \E s \in {"hung", "oops"} : call' = [call EXCEPT !.pc = s]
    BY <1>2, <1>5 DEF Release
  <2>2. CallInv' /\ call' \in [pc : Stages, op : Ops, f : opened, par : Pars]  BY <1>4, <2>1
  <2>. QED  BY <1>1, <1>2, <1>20, <1>3, <2>1, <2>2, BusyStep DEF Types
<1>6. CASE filter[f].par.type = "SEC" /\ ~(k # 0 /\ (ReleaseHangs(d, i, k) \/ ReleaseOops(d, i, k)))
  <2>1. PICK e : e = IF k = 0 THEN d ELSE release_filter(d, i, k)  OBVIOUS
  <2>2. e \in Demux /\ Listed(e) /\ e.frontend = d.frontend
    <3>1. CASE k = 0  BY <2>1, <3>1, <1>20
    <3>2. CASE k # 0
      <4>1. k \in 1 .. mode.filternum  BY <1>1, <3>2, Numbers
      <4>. QED  BY <1>1, <1>20, <2>1, <3>2, <4>1, ReleaseFilterBase
    <3>. QED  BY <3>1, <3>2
  <2>3. FeedRestart(e, f, filter, [call EXCEPT !.pc = "stopped"])  BY <1>2, <1>6, <2>1 DEF Release
  <2>4. /\ dmx' \in Demux /\ Listed(dmx') /\ dmx'.frontend = e.frontend
        /\ filter' \in [DevFilters -> DevFilter]
        /\ call' = [call EXCEPT !.pc = "stopped"] \/ call' = [call EXCEPT !.pc = "oops"]
    BY <1>1, <1>2, <2>2, <2>3, FeedRestartBase
  <2>5. CallInv' /\ call' \in [pc : Stages, op : Ops, f : opened, par : Pars]  BY <1>4, <2>4
  <2>. QED  BY <1>1, <1>2, <1>3, <2>2, <2>4, <2>5, BusyStep DEF Types
<1>7. CASE filter[f].par.type # "SEC" /\ TsReleaseOops(d, i)
  <2>1. dmx' = dmx /\ filter' = filter /\ call' = [call EXCEPT !.pc = "oops"]
    BY <1>2, <1>7 DEF Release
  <2>2. CallInv' /\ call' \in [pc : Stages, op : Ops, f : opened, par : Pars]  BY <1>4, <2>1
  <2>. QED  BY <1>1, <1>2, <1>20, <1>3, <2>1, <2>2, BusyStep DEF Types
<1>8. CASE filter[f].par.type # "SEC" /\ ~TsReleaseOops(d, i)
  <2>1. dmx' = release_ts_feed(d, i) /\ filter' = filter /\ call' = [call EXCEPT !.pc = "stopped"]
    BY <1>2, <1>8 DEF Release
  <2>2. CallInv' /\ call' \in [pc : Stages, op : Ops, f : opened, par : Pars]  BY <1>4, <2>1
  <2>3. dmx' \in Demux /\ Listed(dmx') /\ dmx'.frontend = d.frontend  BY <1>1, <1>20, <2>1, ReleaseTsBase
  <2>. QED  BY <1>1, <1>2, <1>3, <2>1, <2>2, <2>3, BusyStep DEF Types
<1>. QED  BY <1>5, <1>6, <1>7, <1>8

(* allocate_filter in filter_start                                         *)
LEMMA GetFilterBase ==
  ASSUME Base, GetFilter
  PROVE  Base'
<1>1. /\ mode \in Modes /\ Types /\ call.f \in DevFilters /\ dmx \in Demux
      /\ filter \in [DevFilters -> DevFilter] /\ filter[call.f].feed \in 1 .. mode.feednum
  BY CallersFeed DEF GetFilter
<1>2. PICK d \in Demux, f \in DevFilters, i \in 1 .. mode.feednum :
        d = dmx /\ f = call.f /\ i = filter[f].feed
  BY <1>1
<1>20. Listed(d)  BY <1>2 DEF Base
<1>3. /\ opened' = opened /\ reading' = reading /\ past' = past /\ timer' = timer
      /\ mode' = mode /\ dvr' = dvr /\ copies' = copies /\ call.pc = "get_filter"
  BY DEF GetFilter
<1>31. i # 0  BY <1>1, Numbers
<1>4. CASE CanAllocateFilter(d)
  <2>1. PICK k \in 1 .. mode.filternum : k = filter_alloc(d)
    BY <1>1, <1>4, FilterAlloc DEF CanAllocateFilter
  <2>2. dmx' = allocate_filter(d, i) /\ filter' = WithSec(filter, f, k)
        /\ call' = [call EXCEPT !.pc = "start_filtering"]
    BY <1>2, <1>4, <2>1 DEF GetFilter, WithSec
  <2>3. /\ dmx' \in Demux /\ Others(d, dmx', i) /\ SameCard(d, dmx')
        /\ SameSetting(dmx'.feed[i], d.feed[i]) /\ dmx'.feed_list = d.feed_list
    BY <1>1, <1>4, <2>2, AllocateFilterFacts DEF CanAllocateFilter
  <2>4. i \in dmx'.feed_list => dmx'.feed[i].state # "FREE"  BY <1>20, <2>3 DEF SameSetting, Listed
  <2>5. Listed(dmx')  BY <1>20, <2>3, <2>4, ListedStep
  <2>6. k \in 0 .. mode.filternum /\ k # 0  BY <1>1, Numbers
  <2>7. filter' \in [DevFilters -> DevFilter] /\ filter'[f].sec = k /\ filter'[f].feed = i
    BY <1>1, <1>2, <2>2, <2>6, SetSec DEF OneFilter
  <2>8. "start_filtering" \in Stages  BY DEF Stages
  <2>9. CallInv' /\ call' \in [pc : Stages, op : Ops, f : opened, par : Pars]
    BY <1>2, <1>3, <1>31, <2>2, <2>6, <2>7, <2>8, GoesOn
  <2>. QED  BY <1>1, <1>2, <1>3, <2>3, <2>5, <2>7, <2>9, BusyStep DEF Types, SameCard
<1>5. CASE ~CanAllocateFilter(d)
  <2>1. FeedRestart(d, f, filter, [call EXCEPT !.pc = "retry"])  BY <1>2, <1>5 DEF GetFilter
  <2>2. /\ dmx' \in Demux /\ Listed(dmx') /\ dmx'.frontend = d.frontend
        /\ filter' \in [DevFilters -> DevFilter] /\ \A g \in DevFilters : SameOwner(filter, filter', g)
        /\ call' = [call EXCEPT !.pc = "retry"] \/ call' = [call EXCEPT !.pc = "oops"]
    BY <1>1, <1>2, <1>20, <2>1, FeedRestartBase
  <2>3. filter'[f].feed # 0  BY <1>2, <1>31, <2>2 DEF SameOwner
  <2>4. CallInv' /\ call' \in [pc : Stages, op : Ops, f : opened, par : Pars]
    <3>1. "retry" \in Stages /\ "oops" \in Stages  BY DEF Stages
    <3>2. CASE call' = [call EXCEPT !.pc = "retry"]  BY <3>1, <3>2, <1>2, <1>3, <2>3, GoesOn
    <3>3. CASE call' = [call EXCEPT !.pc = "oops"]  BY <3>1, <3>3, <1>2, <1>3, GoesOn
    <3>. QED  BY <2>2, <3>2, <3>3
  <2>. QED  BY <1>1, <1>2, <1>3, <2>2, <2>4, BusyStep DEF Types
<1>. QED  BY <1>4, <1>5

(* The start after the failure of allocate_filter                          *)
LEMMA RetryBase ==
  ASSUME Base, Retry
  PROVE  Base'
<1>1. /\ mode \in Modes /\ Types /\ dmx \in Demux /\ filter[call.f].feed \in 1 .. mode.feednum
  BY CallersFeed DEF Retry
<1>2. PICK d \in Demux, i \in 1 .. mode.feednum : d = dmx /\ i = filter[call.f].feed  BY <1>1
<1>3. /\ opened' = opened /\ reading' = reading /\ past' = past /\ timer' = timer
      /\ mode' = mode /\ dvr' = dvr /\ copies' = copies /\ filter' = filter /\ call' = Idle
      /\ dmx' = TryStart(d, i)
  BY <1>2 DEF Retry
<1>4. Listed(d)  BY <1>2 DEF Base
<1>5. dmx' \in Demux /\ Listed(dmx') /\ dmx'.frontend = d.frontend  BY <1>3, <1>4, TryStartBase
<1>6. CallInv'  BY <1>3, Returned
<1>. QED  BY <1>1, <1>2, <1>3, <1>5, <1>6, BusyStep DEF Types

(* start_filtering in filter_start                                         *)
LEMMA StartFilteringBase ==
  ASSUME Base, StartFiltering
  PROVE  Base'
<1>1. /\ mode \in Modes /\ Types /\ call.f \in DevFilters /\ dmx \in Demux
      /\ filter \in [DevFilters -> DevFilter] /\ filter[call.f].feed \in 1 .. mode.feednum
      /\ filter[call.f].sec \in 1 .. mode.filternum
  BY CallersFeed DEF StartFiltering
<1>2. PICK d \in Demux, f \in DevFilters, i \in 1 .. mode.feednum, k \in 1 .. mode.filternum :
        d = dmx /\ f = call.f /\ i = filter[f].feed /\ k = filter[f].sec
  BY <1>1
<1>3. /\ opened' = opened /\ reading' = reading /\ past' = past /\ timer' = timer
      /\ mode' = mode /\ dvr' = dvr /\ copies' = copies /\ filter' = filter /\ call.pc = "start_filtering"
  BY DEF StartFiltering
<1>4. PICK e : e = Named(d, k, f)  OBVIOUS
<1>5. f \in 1 .. NDev  BY DEF DevFilters
<1>6. e \in Demux /\ e.feed = d.feed /\ SameCard(d, e) /\ e.feed_list = d.feed_list
  BY <1>1, <1>4, <1>5, NamedFacts
<1>7. Listed(e) /\ e.frontend = d.frontend  BY <1>2, <1>6 DEF Base, Listed, SameCard
<1>8. /\ dmx' = TryStart(e, i)
      /\ call' = IF CanStartSection(e, i) THEN [call EXCEPT !.pc = "arm"] ELSE Idle
  BY <1>2, <1>4 DEF StartFiltering, Named
<1>9. dmx' \in Demux /\ Listed(dmx') /\ dmx'.frontend = e.frontend  BY <1>6, <1>7, <1>8, TryStartBase
<1>10. CallInv' /\ (call' = Idle \/ call' \in [pc : Stages, op : Ops, f : opened, par : Pars])
  <2>1. CASE call' = Idle  BY <2>1, Returned
  <2>2. CASE call' = [call EXCEPT !.pc = "arm"]
    <3>1. "arm" \in Stages  BY DEF Stages
    <3>. QED  BY <2>2, <3>1, <1>3, GoesOn
  <2>. QED  BY <1>8, <2>1, <2>2
<1>. QED  BY <1>1, <1>2, <1>3, <1>7, <1>9, <1>10, BusyStep DEF Types

(* start_filtering of a transport stream feed                              *)
LEMMA StartTsBase ==
  ASSUME Base, StartTs
  PROVE  Base'
<1>1. /\ mode \in Modes /\ Types /\ dmx \in Demux /\ filter[call.f].feed \in 1 .. mode.feednum
  BY CallersFeed DEF StartTs
<1>2. PICK d \in Demux, i \in 1 .. mode.feednum : d = dmx /\ i = filter[call.f].feed  BY <1>1
<1>3. /\ opened' = opened /\ reading' = reading /\ past' = past /\ timer' = timer
      /\ mode' = mode /\ dvr' = dvr /\ copies' = copies /\ filter' = filter /\ call.pc = "ts_start"
  BY DEF StartTs
<1>4. Listed(d)  BY <1>2 DEF Base
<1>5. CASE CanStartTs(d, i)
  <2>1. dmx' = start_filtering(d, i) /\ call' = [call EXCEPT !.pc = "go"]  BY <1>2, <1>5 DEF StartTs
  <2>2. dmx' \in Demux /\ Only(d, dmx', i) /\ dmx'.feed[i].state # "FREE"  BY <2>1, StartFacts
  <2>3. Listed(dmx') /\ dmx'.frontend = d.frontend  BY <1>4, <2>2, OnlyListed
  <2>4. "go" \in Stages  BY DEF Stages
  <2>5. CallInv' /\ call' \in [pc : Stages, op : Ops, f : opened, par : Pars]
    BY <2>1, <2>4, <1>3, GoesOn
  <2>. QED  BY <1>1, <1>2, <1>3, <2>2, <2>3, <2>5, BusyStep DEF Types
<1>6. CASE ~CanStartTs(d, i)
  <2>1. dmx' = release_ts_feed(d, i) /\ call' = Idle  BY <1>2, <1>6 DEF StartTs
  <2>2. dmx' \in Demux /\ Listed(dmx') /\ dmx'.frontend = d.frontend  BY <1>1, <1>4, <2>1, ReleaseTsBase
  <2>3. CallInv'  BY <2>1, Returned
  <2>. QED  BY <1>1, <1>2, <1>3, <2>1, <2>2, <2>3, BusyStep DEF Types
<1>. QED  BY <1>5, <1>6

(* The start of a filter, case by case                                     *)
SectionCase(d, f, fs, pid, i) ==
  LET gs == WithSection(fs, f, i) IN
  \/ /\ i # 0 /\ Sharing(pid) # {} /\ i = filter[Min(Sharing(pid))].feed
     /\ filter' = WithState(gs, f, "SET")
     /\ call' = [call EXCEPT !.pc = "share_stop"] /\ dmx' = dmx
  \/ /\ Sharing(pid) = {} \/ filter[Min(Sharing(pid))].feed = 0
     /\ \/ filter' = gs /\ call' = Idle /\ dmx' = dmx
        \/ /\ FreeFeeds(d) # {} /\ i = feed_alloc(d) /\ CanSetSection(pid)
           /\ dmx' = section_feed_set(allocate_section_feed(d), i, pid)
           /\ filter' = gs /\ call' = [call EXCEPT !.pc = "get_filter"]
        \/ /\ FreeFeeds(d) # {} /\ i = feed_alloc(d) /\ ~CanSetSection(pid)
           /\ FeedRestart(allocate_section_feed(d), f, gs, Idle)

(* The ways through filter_start for a section filter.                     *)
LEMMA StartSectionCases ==
  ASSUME Types, NEW f \in DevFilters, NEW fs \in [DevFilters -> DevFilter], StartSection(f, fs),
         filter[f].par.type = "SEC", NEW d \in Demux, d = dmx, NEW pid, pid = filter[f].par.pid
  PROVE  \E i \in 0 .. mode.feednum : SectionCase(d, f, fs, pid, i)
<1>1. mode \in Modes /\ filter \in [DevFilters -> DevFilter]  BY DEF Types
<1>2. PICK sh : sh = IF Sharing(pid) = {} THEN 0 ELSE filter[Min(Sharing(pid))].feed  OBVIOUS
<1>3. PICK i : i = IF sh # 0 THEN sh ELSE IF CanAllocateSection(d) THEN feed_alloc(d) ELSE 0  OBVIOUS
<1>4. i \in 0 .. mode.feednum
  <2>1. CASE sh # 0
    <3>1. sh = filter[Min(Sharing(pid))].feed /\ Sharing(pid) # {}  BY <1>2, <2>1
    <3>2. PICK g \in DevFilters : g = Min(Sharing(pid))  BY <1>1, <3>1, SharingFirst
    <3>3. filter[g] \in DevFilter  BY <1>1
    <3>. QED  BY <1>3, <2>1, <3>1, <3>2, <3>3, FilterFields
  <2>2. CASE sh = 0 /\ CanAllocateSection(d)
    <3>1. feed_alloc(d) \in 1 .. mode.feednum  BY <1>1, <2>2, FeedAlloc DEF CanAllocateSection
    <3>. QED  BY <1>1, <1>3, <2>2, <3>1, Numbers
  <2>3. CASE sh = 0 /\ ~CanAllocateSection(d)  BY <1>1, <1>3, <2>3, Numbers
  <2>. QED  BY <2>1, <2>2, <2>3
<1>5. PICK gs : gs = WithSection(fs, f, i)  OBVIOUS
<1>6. IF sh # 0
      THEN /\ filter' = WithState(gs, f, "SET")
           /\ call' = [call EXCEPT !.pc = "share_stop"] /\ dmx' = dmx
      ELSE IF i = 0 THEN filter' = gs /\ call' = Idle /\ dmx' = dmx
      ELSE IF CanSetSection(pid)
           THEN /\ dmx' = section_feed_set(allocate_section_feed(d), i, pid)
                /\ filter' = gs /\ call' = [call EXCEPT !.pc = "get_filter"]
           ELSE FeedRestart(allocate_section_feed(d), f, gs, Idle)
  BY <1>2, <1>3, <1>5 DEF StartSection, WithSection, WithState
<1>7. CASE sh # 0
  <2>1. Sharing(pid) # {} /\ i = filter[Min(Sharing(pid))].feed /\ i # 0  BY <1>2, <1>3, <1>7
  <2>2. /\ filter' = WithState(gs, f, "SET")
        /\ call' = [call EXCEPT !.pc = "share_stop"] /\ dmx' = dmx
    BY <1>6, <1>7
  <2>. QED  BY <1>4, <1>5, <2>1, <2>2 DEF SectionCase
<1>8. CASE sh = 0
  <2>0. Sharing(pid) = {} \/ filter[Min(Sharing(pid))].feed = 0  BY <1>2, <1>8
  <2>1. CASE i = 0
    <3>1. filter' = gs /\ call' = Idle /\ dmx' = dmx  BY <1>6, <1>8, <2>1
    <3>. QED  BY <1>4, <1>5, <2>0, <3>1 DEF SectionCase
  <2>2. CASE i # 0
    <3>1. FreeFeeds(d) # {} /\ i = feed_alloc(d)  BY <1>3, <1>8, <2>2 DEF CanAllocateSection
    <3>2. CASE CanSetSection(pid)
      <4>1. /\ dmx' = section_feed_set(allocate_section_feed(d), i, pid)
            /\ filter' = gs /\ call' = [call EXCEPT !.pc = "get_filter"]
        BY <1>6, <1>8, <2>2, <3>2
      <4>. QED  BY <1>4, <1>5, <2>0, <3>1, <3>2, <4>1 DEF SectionCase
    <3>3. CASE ~CanSetSection(pid)
      <4>1. FeedRestart(allocate_section_feed(d), f, gs, Idle)  BY <1>6, <1>8, <2>2, <3>3
      <4>. QED  BY <1>4, <1>5, <2>0, <3>1, <3>3, <4>1 DEF SectionCase
    <3>. QED  BY <3>2, <3>3
  <2>. QED  BY <2>1, <2>2
<1>. QED  BY <1>7, <1>8

(* What the filter was set to.                                             *)
LEMMA ChosenPar ==
  ASSUME Types, NEW f \in DevFilters, filter[f].par.type \in {"SEC", "PES"}
  PROVE  filter[f].par \in mode.params
<1>1. filter[f] \in DevFilter  BY DEF Types
<1>2. filter[f].par \in Pars  BY <1>1, FilterFields
<1>3. NoParam.type = "NONE"  BY DEF NoParam
<1>. QED  BY <1>2, <1>3 DEF Pars

(* The new section feed                                                    *)
LEMMA SectionFeedFacts ==
  ASSUME mode \in Modes, NEW d \in Demux, Listed(d), FreeFeeds(d) # {},
         NEW i, i = feed_alloc(d), NEW pid \in {par.pid : par \in mode.params}
  PROVE  LET e == section_feed_set(allocate_section_feed(d), i, pid) IN
         /\ i \in 1 .. mode.feednum /\ d.feed[i].state = "FREE"
         /\ e \in Demux /\ Others(d, e, i) /\ SameCard(d, e) /\ Listed(e)
         /\ e.feed[i].state = "READY" /\ e.feed[i].type = "SEC" /\ e.feed[i].pid = pid
         /\ ~e.feed[i].filtering /\ e.feed[i].filters = << >>
         /\ e.filter = d.filter /\ e.feed_list = d.feed_list \cup {i} /\ e.pesfilter = d.pesfilter
<1>1. i \in 1 .. mode.feednum /\ d.feed[i].state = "FREE"  BY FeedAlloc
<1>2. PICK a : a = allocate_section_feed(d)  OBVIOUS
<1>3. /\ a \in Demux /\ Only(d, a, i) /\ a.feeds = d.feeds /\ a.dma = d.dma
      /\ a.feed[i].type = "SEC" /\ a.feed[i].filtering = FALSE /\ a.feed[i].filters = << >>
  BY <1>2, AllocateSectionFacts
<1>4. PICK e : e = section_feed_set(a, i, pid)  OBVIOUS
<1>5. /\ e \in Demux /\ Others(a, e, i) /\ SameCard(a, e)
      /\ e.feed[i].state = "READY" /\ e.feed[i].pid = pid
      /\ e.feed[i].type = a.feed[i].type /\ e.feed[i].filters = a.feed[i].filters
      /\ e.feed[i].filtering = a.feed[i].filtering
      /\ e.filter = a.filter /\ e.feed_list = a.feed_list \cup {i} /\ e.pesfilter = a.pesfilter
  BY <1>1, <1>3, <1>4, SectionSetFacts
<1>6. Others(d, e, i) /\ SameCard(d, e)  BY <1>3, <1>5 DEF Others, Only, SameCard
<1>7. e.filter = d.filter /\ e.feed_list = d.feed_list \cup {i} /\ e.pesfilter = d.pesfilter
  BY <1>3, <1>5 DEF Only
<1>8. Listed(e)  BY <1>1, <1>5, <1>6, <1>7, ListedStep
<1>. QED  BY <1>1, <1>2, <1>3, <1>4, <1>5, <1>6, <1>7, <1>8

(* One that is released at once                                            *)
LEMMA SectionRefusedFacts ==
  ASSUME mode \in Modes, NEW d \in Demux, Listed(d), FreeFeeds(d) # {}, NEW i, i = feed_alloc(d)
  PROVE  LET e == release_section_feed(allocate_section_feed(d), i) IN
         /\ i \in 1 .. mode.feednum /\ d.feed[i].state = "FREE"
         /\ e \in Demux /\ Others(d, e, i) /\ SameCard(d, e)
         /\ e.feed[i].state = "FREE" /\ ~e.feed[i].filtering
         /\ e.filter = d.filter /\ e.feed_list = d.feed_list /\ e.pesfilter = d.pesfilter
<1>1. i \in 1 .. mode.feednum /\ d.feed[i].state = "FREE"  BY FeedAlloc
<1>2. PICK a : a = allocate_section_feed(d)  OBVIOUS
<1>3. /\ a \in Demux /\ Only(d, a, i) /\ a.feeds = d.feeds /\ a.dma = d.dma
      /\ a.feed[i].state # "FREE" /\ a.feed[i].filtering = FALSE
  BY <1>2, AllocateSectionFacts
<1>4. PICK e : e = release_section_feed(a, i)  OBVIOUS
<1>5. /\ e \in Demux /\ Others(a, e, i) /\ SameCard(a, e)
      /\ e.feed[i].state = "FREE" /\ e.feed[i].filtering = a.feed[i].filtering
      /\ e.filter = a.filter /\ e.feed_list = a.feed_list \ {i} /\ e.pesfilter = a.pesfilter
  BY <1>1, <1>3, <1>4, ReleaseSectionFacts
<1>6. Others(d, e, i) /\ SameCard(d, e)  BY <1>3, <1>5 DEF Others, Only, SameCard
<1>7. e.filter = d.filter /\ e.feed_list = d.feed_list /\ e.pesfilter = d.pesfilter
  <2>1. i \notin d.feed_list  BY <1>1 DEF Listed
  <2>. QED  BY <1>3, <1>5, <2>1 DEF Only
<1>. QED  BY <1>1, <1>2, <1>3, <1>4, <1>5, <1>6, <1>7

Lone(e, i, k) == e.feed[i].filters = <<k>>

Entered(d, e, i) == e.feed_list = d.feed_list \cup {i}

(* The new TS feed                                                         *)
LEMMA TsFeedFacts ==
  ASSUME mode \in Modes, NEW d \in Demux, Listed(d), FreeFeeds(d) # {}, FreeFilters(d) # {},
         NEW i, i = feed_alloc(d), NEW k, k = filter_alloc(d), NEW f \in DevFilters, NEW par \in mode.params
  PROVE  LET a == allocate_ts_feed(d, f)
             e == ts_feed_set(a, i, par.pid, par.dec, par.out)
         IN
         /\ i \in 1 .. mode.feednum /\ d.feed[i].state = "FREE"
         /\ k \in 1 .. mode.filternum /\ d.filter[k].free /\ a.pesfilter = d.pesfilter
         /\ e \in Demux /\ Others(d, e, i) /\ SameCard(d, e) /\ Listed(e)
         /\ e.feed[i].state = "READY" /\ e.feed[i].type = "TS" /\ e.feed[i].pid = par.pid
         /\ ~e.feed[i].filtering /\ Lone(e, i, k) /\ e.feed[i].priv = f
         /\ e.feed[i].dec = par.dec
         /\ Entered(d, e, i)
         /\ \A q \in 1 .. mode.filternum : q # k => e.filter[q] = d.filter[q]
         /\ ~e.filter[k].free /\ e.filter[k].feed = i
         /\ \A p \in Pes : e.pesfilter[p] = IF p = par.dec THEN i ELSE d.pesfilter[p]
<1>1. /\ i \in 1 .. mode.feednum /\ d.feed[i].state = "FREE"
      /\ k \in 1 .. mode.filternum /\ d.filter[k].free
  BY FeedAlloc, FilterAlloc
<1>2. PICK a : a = allocate_ts_feed(d, f)  OBVIOUS
<1>20. f \in 1 .. NDev  BY DEF DevFilters
<1>3. /\ a \in Demux /\ Others(d, a, i) /\ SameCard(d, a)
      /\ a.feed[i].type = "TS" /\ a.feed[i].filtering = FALSE
      /\ a.feed[i].filters = <<k>> /\ a.feed[i].priv = f
      /\ a.feed_list = d.feed_list /\ a.pesfilter = d.pesfilter
      /\ (\A j \in 1 .. mode.filternum : j # k => a.filter[j] = d.filter[j])
      /\ a.filter[k].free = FALSE /\ a.filter[k].feed = i
  <2>1. /\ a \in Demux /\ Others(d, a, i) /\ SameCard(d, a)
        /\ a.feed[i].type = "TS" /\ a.feed[i].filtering = FALSE
    BY <1>2, <1>20, AllocateTsFacts
  <2>2. /\ a.feed[i].filters = <<k>> /\ a.feed[i].priv = f
        /\ a.feed_list = d.feed_list /\ a.pesfilter = d.pesfilter
    BY <1>2, <1>20, AllocateTsFacts
  <2>3. \A j \in 1 .. mode.filternum : j # k => a.filter[j] = d.filter[j]
    BY <1>2, <1>20, AllocateTsFacts
  <2>4. a.filter[k].free = FALSE /\ a.filter[k].feed = i  BY <1>2, <1>20, AllocateTsFacts
  <2>. QED  BY <2>1, <2>2, <2>3, <2>4
<1>4. PICK e : e = ts_feed_set(a, i, par.pid, par.dec, par.out)  OBVIOUS
<1>30. a \in Demux  BY <1>3
<1>31. /\ e \in Demux /\ Others(a, e, i) /\ SameCard(a, e)
       /\ e.feed[i].state = "READY" /\ e.feed[i].pid = par.pid /\ e.feed[i].dec = par.dec
  BY <1>1, <1>30, <1>4, TsSetFacts
<1>32. /\ e.feed[i].type = a.feed[i].type /\ e.feed[i].filters = a.feed[i].filters
       /\ e.feed[i].filtering = a.feed[i].filtering /\ e.feed[i].priv = a.feed[i].priv
  BY <1>1, <1>30, <1>4, TsSetFacts
<1>33. e.filter = a.filter /\ e.feed_list = a.feed_list \cup {i}
  BY <1>1, <1>30, <1>4, TsSetFacts
<1>34. ASSUME NEW p \in Pes
       PROVE  e.pesfilter[p] = IF p = par.dec THEN i ELSE a.pesfilter[p]
  BY <1>1, <1>30, <1>4, TsSetFacts
<1>5. /\ e \in Demux /\ Others(a, e, i) /\ SameCard(a, e)
      /\ e.feed[i].state = "READY" /\ e.feed[i].pid = par.pid /\ e.feed[i].dec = par.dec
      /\ e.feed[i].type = a.feed[i].type /\ e.feed[i].filters = a.feed[i].filters
      /\ e.feed[i].filtering = a.feed[i].filtering /\ e.feed[i].priv = a.feed[i].priv
      /\ e.filter = a.filter /\ e.feed_list = a.feed_list \cup {i}
      /\ \A p \in Pes : e.pesfilter[p] = IF p = par.dec THEN i ELSE a.pesfilter[p]
  BY <1>31, <1>32, <1>33, <1>34
<1>6. Others(d, e, i) /\ SameCard(d, e)  BY <1>3, <1>5 DEF Others, SameCard
<1>7. e.feed_list = d.feed_list \cup {i}  BY <1>3, <1>5
<1>8. Listed(e)  BY <1>1, <1>5, <1>6, <1>7, ListedStep
<1>9. /\ ~e.feed[i].filtering /\ ~e.filter[k].free /\ e.filter[k].feed = i
      /\ e.feed[i].filters = <<k>> /\ e.feed[i].priv = f /\ e.feed[i].type = "TS"
  BY <1>3, <1>32, <1>33
<1>90. Lone(e, i, k) /\ Entered(d, e, i)  BY <1>7, <1>9 DEF Lone, Entered
<1>10. \A q \in 1 .. mode.filternum : q # k => e.filter[q] = d.filter[q]  BY <1>3, <1>33
<1>11. \A p \in Pes : e.pesfilter[p] = IF p = par.dec THEN i ELSE d.pesfilter[p]  BY <1>3, <1>34
<1>. QED
  BY <1>1, <1>2, <1>3, <1>4, <1>31, <1>6, <1>8, <1>9, <1>90, <1>10, <1>11

(* One that is released at once                                            *)
LEMMA TsRefusedFacts ==
  ASSUME mode \in Modes, NEW d \in Demux, Listed(d), FreeFeeds(d) # {}, FreeFilters(d) # {},
         NEW i, i = feed_alloc(d), NEW f \in DevFilters
  PROVE  LET a == allocate_ts_feed(d, f)
             e == release_ts_feed(a, i)
         IN
         /\ i \in 1 .. mode.feednum /\ d.feed[i].state = "FREE"
         /\ e \in Demux /\ Others(d, e, i) /\ SameCard(d, e)
         /\ e.feed[i].state = "FREE" /\ ~e.feed[i].filtering
         /\ e.feed_list = d.feed_list
         /\ \A q \in 1 .. mode.filternum : e.filter[q] = d.filter[q] \/ (d.filter[q].free /\ e.filter[q].free)
         /\ \A p \in Pes : e.pesfilter[p] = IF p = a.feed[i].dec THEN 0 ELSE d.pesfilter[p]
<1>1. PICK k : k = filter_alloc(d)  OBVIOUS
<1>11. /\ i \in 1 .. mode.feednum /\ d.feed[i].state = "FREE"
      /\ k \in 1 .. mode.filternum /\ d.filter[k].free
  BY <1>1, FeedAlloc, FilterAlloc
<1>2. PICK a : a = allocate_ts_feed(d, f)  OBVIOUS
<1>20. f \in 1 .. NDev  BY DEF DevFilters
<1>3. /\ a \in Demux /\ Others(d, a, i) /\ SameCard(d, a)
      /\ a.feed[i].state # "FREE" /\ a.feed[i].filtering = FALSE /\ a.feed[i].filters = <<k>>
      /\ a.feed_list = d.feed_list /\ a.pesfilter = d.pesfilter
      /\ \A j \in 1 .. mode.filternum : j # k => a.filter[j] = d.filter[j]
  <2>1. /\ a \in Demux /\ Others(d, a, i) /\ SameCard(d, a)
        /\ a.feed[i].state # "FREE" /\ a.feed[i].filtering = FALSE
    BY <1>1, <1>2, <1>20, AllocateTsFacts
  <2>2. /\ a.feed[i].filters = <<k>>
        /\ a.feed_list = d.feed_list /\ a.pesfilter = d.pesfilter
    BY <1>1, <1>2, <1>20, AllocateTsFacts
  <2>3. \A j \in 1 .. mode.filternum : j # k => a.filter[j] = d.filter[j]
    BY <1>1, <1>2, <1>20, AllocateTsFacts
  <2>. QED  BY <2>1, <2>2, <2>3
<1>4. PICK e : e = release_ts_feed(a, i)  OBVIOUS
<1>5. /\ e \in Demux /\ Others(a, e, i) /\ SameCard(a, e)
      /\ e.feed[i].state = "FREE" /\ e.feed[i].filtering = a.feed[i].filtering
      /\ e.feed_list = a.feed_list \ {i}
      /\ \A p \in Pes : e.pesfilter[p] = IF p = a.feed[i].dec THEN 0 ELSE a.pesfilter[p]
      /\ \A j \in 1 .. mode.filternum :
           e.filter[j] = IF j = Head(a.feed[i].filters) THEN NoFilter ELSE a.filter[j]
  BY <1>11, <1>3, <1>4, ReleaseTsFacts
<1>6. Others(d, e, i) /\ SameCard(d, e)  BY <1>3, <1>5 DEF Others, SameCard
<1>7. e.feed_list = d.feed_list
  <2>1. i \notin d.feed_list  BY <1>11 DEF Listed
  <2>. QED  BY <1>3, <1>5, <2>1
<1>8. Head(a.feed[i].filters) = k  BY <1>3
<1>9. ASSUME NEW q \in 1 .. mode.filternum
      PROVE  e.filter[q] = d.filter[q] \/ (d.filter[q].free /\ e.filter[q].free)
  <2>1. CASE q = k
    <3>1. e.filter[q] = NoFilter  BY <2>1, <1>5, <1>8
    <3>. QED  BY <3>1, <2>1, <1>11 DEF NoFilter
  <2>2. CASE q # k  BY <2>2, <1>3, <1>5, <1>8
  <2>. QED  BY <2>1, <2>2
<1>. QED  BY <1>11, <1>2, <1>3, <1>4, <1>5, <1>6, <1>7, <1>9

(* What a start can come to: it returns as it was, joins a feed, has a new *)
(* section feed or one that is refused, a new TS feed or one refused.      *)
Prepared(gs, f, i) ==
  /\ OneFilter(filter, gs, f) /\ gs[f].mem = TRUE /\ gs[f].feed = i
  /\ gs[f].par = filter[f].par /\ gs[f].state = filter[f].state

StartReturns(f) ==
  /\ call' = Idle /\ dmx' = dmx /\ past' = past /\ OneFilter(filter, filter', f)
  /\ filter'[f].par = filter[f].par /\ filter'[f].state = filter[f].state

StartShares(f) ==
  \E i \in 1 .. mode.feednum :
    /\ Sharing(filter[f].par.pid) # {} /\ i = filter[Min(Sharing(filter[f].par.pid))].feed
    /\ OneFilter(filter, filter', f) /\ filter'[f].mem = TRUE /\ filter'[f].feed = i
    /\ filter'[f].par = filter[f].par /\ filter'[f].state = "SET"
    /\ call' = [call EXCEPT !.pc = "share_stop"] /\ dmx' = dmx /\ past' = past

Alone(f) ==
  Sharing(filter[f].par.pid) = {} \/ filter[Min(Sharing(filter[f].par.pid))].feed = 0

StartNew(d, f) ==
  \E i \in 1 .. mode.feednum :
    /\ FreeFeeds(d) # {} /\ i = feed_alloc(d) /\ CanSetSection(filter[f].par.pid)
    /\ dmx' = section_feed_set(allocate_section_feed(d), i, filter[f].par.pid)
    /\ Prepared(filter', f, i) /\ call' = [call EXCEPT !.pc = "get_filter"] /\ past' = past

StartRefused(d, f) ==
  \E i \in 1 .. mode.feednum, gs \in [DevFilters -> DevFilter] :
    /\ FreeFeeds(d) # {} /\ i = feed_alloc(d)
    /\ Prepared(gs, f, i) /\ FeedRestart(allocate_section_feed(d), f, gs, Idle) /\ past' = past

StartTsNew(d, f) ==
  \E i \in 1 .. mode.feednum :
    /\ FreeFeeds(d) # {} /\ FreeFilters(d) # {} /\ i = feed_alloc(d) /\ Prepared(filter', f, i)
    /\ CanSetTs(allocate_ts_feed(d, f), i, filter[f].par.pid, filter[f].par.dec)
    /\ dmx' = ts_feed_set(allocate_ts_feed(d, f), i, filter[f].par.pid, filter[f].par.dec, filter[f].par.out)
    /\ call' = [call EXCEPT !.pc = "ts_start"] /\ past' = past

StartTsRefused(d, f) ==
  \E i \in 1 .. mode.feednum :
    /\ FreeFeeds(d) # {} /\ FreeFilters(d) # {} /\ i = feed_alloc(d) /\ Prepared(filter', f, i)
    /\ dmx' = release_ts_feed(allocate_ts_feed(d, f), i)
    /\ call' = Idle /\ past' = [past EXCEPT !.refused = TRUE]

(* The ways through filter_start up to the feed.                           *)
LEMMA StartCases ==
  ASSUME Base, Start, NEW d \in Demux, d = dmx, NEW f \in DevFilters, f = call.f
  PROVE  \/ StartReturns(f)
         \/ /\ filter[f].par.type = "SEC"
            /\ StartShares(f) \/ (Alone(f) /\ (StartNew(d, f) \/ StartRefused(d, f)))
         \/ filter[f].par.type = "PES" /\ (StartTsNew(d, f) \/ StartTsRefused(d, f))
<1>1. mode \in Modes /\ filter \in [DevFilters -> DevFilter] /\ Types  BY DEF Types, Base
<1>2. PICK mem \in StartMemory(f) :
        LET fs == WithBuffer(filter, f, mem)
        IN IF ~mem THEN call' = Idle /\ UNCHANGED <<dmx, filter, past>>
           ELSE CASE filter[f].par.type = "SEC" -> StartSection(f, fs) /\ UNCHANGED past
                  [] filter[f].par.type = "PES" -> StartPes(f, fs)
                  [] OTHER -> filter' = fs /\ call' = Idle /\ UNCHANGED <<dmx, past>>
  BY DEF Start, WithBuffer
<1>3. mem \in BOOLEAN
  <2>1. filter[f] \in DevFilter  BY <1>1
  <2>2. filter[f].sized \in BOOLEAN  BY <2>1, FilterFields
  <2>. QED  BY <1>2, <2>2 DEF StartMemory
<1>4. CASE mem = FALSE
  <2>1. call' = Idle /\ dmx' = dmx /\ filter' = filter /\ past' = past  BY <1>2, <1>4
  <2>. QED  BY <1>1, <2>1 DEF StartReturns, OneFilter
<1>5. CASE mem = TRUE
  <2>1. PICK fs : fs = WithBuffer(filter, f, mem)  OBVIOUS
  <2>2. Prepared(fs, f, filter[f].feed)
    <3>1. LET gs == WithBuffer(filter, f, mem) IN
          /\ OneFilter(filter, gs, f) /\ gs[f].mem = mem /\ gs[f].state = filter[f].state
          /\ gs[f].par = filter[f].par /\ gs[f].feed = filter[f].feed /\ gs[f].sec = filter[f].sec
      BY <1>1, <1>3, SetMem
    <3>. QED  BY <1>5, <2>1, <3>1 DEF Prepared
  <2>3. fs \in [DevFilters -> DevFilter]  BY <2>2 DEF Prepared, OneFilter
  <2>4. CASE filter[f].par.type = "SEC"
    <3>1. StartSection(f, fs) /\ past' = past  BY <1>2, <1>5, <2>1, <2>4
    <3>2. PICK pid : pid = filter[f].par.pid  OBVIOUS
    <3>3. \E i \in 0 .. mode.feednum : SectionCase(d, f, fs, pid, i)
      BY <1>1, <2>3, <2>4, <3>1, <3>2, StartSectionCases
    <3>30. PICK i \in 0 .. mode.feednum : SectionCase(d, f, fs, pid, i)  BY <3>3
    <3>4. PICK gs : gs = WithSection(fs, f, i)  OBVIOUS
    <3>5. Prepared(gs, f, i)
      <4>0. LET hs == WithSection(fs, f, i) IN
            /\ OneFilter(fs, hs, f) /\ hs[f].sec = 0 /\ hs[f].feed = i
            /\ hs[f].state = fs[f].state /\ hs[f].par = fs[f].par /\ hs[f].mem = fs[f].mem
        BY <1>1, <2>3, SetSection
      <4>1. /\ OneFilter(fs, gs, f) /\ gs[f].feed = i
            /\ gs[f].state = fs[f].state /\ gs[f].par = fs[f].par /\ gs[f].mem = fs[f].mem
        BY <3>4, <4>0
      <4>. QED  BY <2>2, <4>1 DEF Prepared, OneFilter
    <3>50. gs \in [DevFilters -> DevFilter]  BY <3>5 DEF Prepared, OneFilter
    <3>6. CASE i # 0 /\ Sharing(pid) # {} /\ i = filter[Min(Sharing(pid))].feed
              /\ filter' = WithState(gs, f, "SET")
              /\ call' = [call EXCEPT !.pc = "share_stop"] /\ dmx' = dmx
      <4>1. i \in 1 .. mode.feednum  BY <1>1, <3>6, Numbers
      <4>20. PICK hs \in [DevFilters -> DevFilter] : hs = gs  BY <3>50
      <4>21. filter' = WithState(hs, f, "SET")  BY <3>6, <4>20
      <4>22. OneFilter(hs, filter', f) /\ filter'[f].state = "SET" /\ SameOwner(hs, filter', f)
        BY <4>21, SetState DEF OneFilter
      <4>2. OneFilter(gs, filter', f) /\ filter'[f].state = "SET" /\ SameOwner(gs, filter', f)
        BY <4>20, <4>22
      <4>3. /\ OneFilter(filter, filter', f) /\ filter'[f].mem = TRUE /\ filter'[f].feed = i
            /\ filter'[f].par = filter[f].par
        BY <3>5, <4>2 DEF Prepared, OneFilter, SameOwner
      <4>4. StartShares(f)  BY <3>1, <3>2, <3>6, <4>1, <4>2, <4>3 DEF StartShares
      <4>. QED  BY <2>4, <4>4
    <3>7. CASE filter' = gs /\ call' = Idle /\ dmx' = dmx
      BY <3>1, <3>5, <3>7 DEF StartReturns, Prepared
    <3>8. CASE /\ Sharing(pid) = {} \/ filter[Min(Sharing(pid))].feed = 0
               /\ FreeFeeds(d) # {} /\ i = feed_alloc(d) /\ CanSetSection(pid)
               /\ dmx' = section_feed_set(allocate_section_feed(d), i, pid)
               /\ filter' = gs /\ call' = [call EXCEPT !.pc = "get_filter"]
      <4>1. i \in 1 .. mode.feednum  BY <1>1, <3>8, FeedAlloc
      <4>2. Alone(f)  BY <3>2, <3>8 DEF Alone
      <4>3. StartNew(d, f)  BY <3>1, <3>2, <3>5, <3>8, <4>1 DEF StartNew
      <4>. QED  BY <2>4, <4>2, <4>3
    <3>9. CASE /\ Sharing(pid) = {} \/ filter[Min(Sharing(pid))].feed = 0
               /\ FreeFeeds(d) # {} /\ i = feed_alloc(d)
               /\ FeedRestart(allocate_section_feed(d), f, gs, Idle)
      <4>1. i \in 1 .. mode.feednum  BY <1>1, <3>9, FeedAlloc
      <4>2. Alone(f)  BY <3>2, <3>9 DEF Alone
      <4>3. StartRefused(d, f)  BY <3>1, <3>2, <3>5, <3>50, <3>9, <4>1 DEF StartRefused
      <4>. QED  BY <2>4, <4>2, <4>3
    <3>. QED  BY <3>30, <3>4, <3>6, <3>7, <3>8, <3>9 DEF SectionCase
  <2>5. CASE filter[f].par.type = "PES"
    <3>1. StartPes(f, fs)  BY <1>2, <1>5, <2>1, <2>5
    <3>2. ASSUME NEW i \in 0 .. mode.feednum, filter' = WithTs(fs, f, i)
          PROVE  Prepared(filter', f, i)
      <4>0. LET hs == WithTs(fs, f, i) IN
            /\ OneFilter(fs, hs, f) /\ hs[f].feed = i
            /\ hs[f].state = fs[f].state /\ hs[f].par = fs[f].par /\ hs[f].mem = fs[f].mem
        BY <2>3, SetTs
      <4>1. /\ OneFilter(fs, filter', f) /\ filter'[f].feed = i
            /\ filter'[f].state = fs[f].state /\ filter'[f].par = fs[f].par /\ filter'[f].mem = fs[f].mem
        BY <3>2, <4>0
      <4>. QED  BY <2>2, <4>1 DEF Prepared, OneFilter
    <3>3. CASE ~CanAllocateTs(d)
      <4>1. filter' = WithTs(fs, f, 0) /\ call' = Idle /\ dmx' = dmx /\ past' = past
        BY <3>1, <3>3 DEF StartPes, WithTs
      <4>2. 0 \in 0 .. mode.feednum  BY <1>1, Numbers
      <4>3. Prepared(filter', f, 0)  BY <3>2, <4>1, <4>2
      <4>. QED  BY <4>1, <4>3 DEF StartReturns, Prepared
    <3>4. CASE CanAllocateTs(d)
      <4>1. FreeFeeds(d) # {} /\ FreeFilters(d) # {}  BY <3>4 DEF CanAllocateTs
      <4>2. PICK i \in 1 .. mode.feednum : i = feed_alloc(d)  BY <1>1, <4>1, FeedAlloc
      <4>3. PICK a : a = allocate_ts_feed(d, f)  OBVIOUS
      <4>4. /\ filter' = WithTs(fs, f, i)
            /\ IF CanSetTs(a, i, filter[f].par.pid, filter[f].par.dec)
               THEN /\ dmx' = ts_feed_set(a, i, filter[f].par.pid, filter[f].par.dec, filter[f].par.out)
                    /\ call' = [call EXCEPT !.pc = "ts_start"] /\ past' = past
               ELSE /\ dmx' = release_ts_feed(a, i) /\ call' = Idle
                    /\ past' = [past EXCEPT !.refused = TRUE]
        BY <3>1, <3>4, <4>2, <4>3 DEF StartPes, WithTs
      <4>5. i \in 0 .. mode.feednum  BY <1>1, Numbers
      <4>6. Prepared(filter', f, i)  BY <3>2, <4>4, <4>5
      <4>7. CASE CanSetTs(a, i, filter[f].par.pid, filter[f].par.dec)
        <5>1. StartTsNew(d, f)  BY <4>1, <4>2, <4>3, <4>4, <4>6, <4>7 DEF StartTsNew
        <5>. QED  BY <2>5, <5>1
      <4>8. CASE ~CanSetTs(a, i, filter[f].par.pid, filter[f].par.dec)
        <5>1. StartTsRefused(d, f)  BY <4>1, <4>2, <4>3, <4>4, <4>6, <4>8 DEF StartTsRefused
        <5>. QED  BY <2>5, <5>1
      <4>. QED  BY <4>7, <4>8
    <3>. QED  BY <3>3, <3>4
  <2>6. CASE filter[f].par.type \notin {"SEC", "PES"}
    <3>1. filter' = fs /\ call' = Idle /\ dmx' = dmx /\ past' = past  BY <1>2, <1>5, <2>1, <2>6
    <3>. QED  BY <2>2, <3>1 DEF StartReturns, Prepared
  <2>. QED  BY <2>4, <2>5, <2>6
<1>. QED  BY <1>3, <1>4, <1>5

(* filter_start up to the feed                                             *)
LEMMA StartBase ==
  ASSUME Base, Start
  PROVE  Base'
<1>1. mode \in Modes /\ Types /\ dmx \in Demux /\ filter \in [DevFilters -> DevFilter]  BY DEF Types, Base
<1>2. /\ opened' = opened /\ reading' = reading /\ timer' = timer
      /\ mode' = mode /\ dvr' = dvr /\ copies' = copies /\ call.pc = "alloc"
  BY DEF Start
<1>3. PICK d \in Demux, f \in DevFilters : d = dmx /\ f = call.f  BY <1>1, <1>2, Caller
<1>4. Listed(d)  BY <1>3 DEF Base
<1>5. past \in [late : BOOLEAN, refused : BOOLEAN]  BY <1>1 DEF Types
<1>6. ASSUME NEW s \in {"share_stop", "get_filter", "ts_start"}, call' = [call EXCEPT !.pc = s],
             NEW i \in 1 .. mode.feednum, filter'[f].feed = i
      PROVE  CallInv' /\ call' \in [pc : Stages, op : Ops, f : opened, par : Pars]
  <2>1. s \in Stages  BY DEF Stages
  <2>2. i # 0  BY <1>1, Numbers
  <2>. QED  BY <1>2, <1>3, <1>6, <2>1, <2>2, GoesOn
<1>7. CASE StartReturns(f)
  <2>1. call' = Idle /\ dmx' = d /\ past' = past /\ filter' \in [DevFilters -> DevFilter]
    BY <1>3, <1>7 DEF StartReturns, OneFilter
  <2>2. CallInv'  BY <2>1, Returned
  <2>. QED  BY <1>1, <1>2, <1>3, <1>4, <1>5, <2>1, <2>2, BusyStep DEF Types
<1>8. CASE StartShares(f)
  <2>1. PICK i \in 1 .. mode.feednum :
          /\ OneFilter(filter, filter', f) /\ filter'[f].feed = i
          /\ call' = [call EXCEPT !.pc = "share_stop"] /\ dmx' = dmx /\ past' = past
    BY <1>8 DEF StartShares
  <2>2. CallInv' /\ call' \in [pc : Stages, op : Ops, f : opened, par : Pars]  BY <1>6, <2>1
  <2>. QED  BY <1>1, <1>2, <1>3, <1>4, <1>5, <2>1, <2>2, BusyStep DEF Types, OneFilter
<1>9. CASE filter[f].par.type = "SEC" /\ StartNew(d, f)
  <2>1. PICK i \in 1 .. mode.feednum :
          /\ FreeFeeds(d) # {} /\ i = feed_alloc(d)
          /\ dmx' = section_feed_set(allocate_section_feed(d), i, filter[f].par.pid)
          /\ Prepared(filter', f, i) /\ call' = [call EXCEPT !.pc = "get_filter"] /\ past' = past
    BY <1>9 DEF StartNew
  <2>2. PICK pid \in {par.pid : par \in mode.params} : pid = filter[f].par.pid
    BY <1>1, <1>9, ChosenPar
  <2>3. dmx' = section_feed_set(allocate_section_feed(d), i, pid)  BY <2>1, <2>2
  <2>4. dmx' \in Demux /\ SameCard(d, dmx') /\ Listed(dmx')
    BY <1>1, <1>4, <2>1, <2>3, SectionFeedFacts
  <2>5. filter'[f].feed = i /\ filter' \in [DevFilters -> DevFilter]
    BY <2>1 DEF Prepared, OneFilter
  <2>6. CallInv' /\ call' \in [pc : Stages, op : Ops, f : opened, par : Pars]  BY <1>6, <2>1, <2>5
  <2>. QED  BY <1>1, <1>2, <1>3, <1>5, <2>1, <2>4, <2>5, <2>6, BusyStep DEF Types, SameCard
<1>10. CASE StartRefused(d, f)
  <2>1. PICK i \in 1 .. mode.feednum, gs \in [DevFilters -> DevFilter] :
          /\ FreeFeeds(d) # {} /\ i = feed_alloc(d)
          /\ Prepared(gs, f, i) /\ FeedRestart(allocate_section_feed(d), f, gs, Idle) /\ past' = past
    BY <1>10 DEF StartRefused
  <2>2. PICK a : a = allocate_section_feed(d)  OBVIOUS
  <2>3. a \in Demux /\ Only(d, a, i) /\ a.feed[i].state # "FREE"
    BY <1>1, <2>1, <2>2, AllocateSectionFacts
  <2>4. Listed(a) /\ a.frontend = d.frontend  BY <1>4, <2>3, OnlyListed
  <2>5. gs[f].feed \in 1 .. mode.feednum  BY <2>1 DEF Prepared
  <2>6. FeedRestart(a, f, gs, Idle)  BY <2>1, <2>2
  <2>7. /\ dmx' \in Demux /\ Listed(dmx') /\ dmx'.frontend = a.frontend
        /\ filter' \in [DevFilters -> DevFilter]
        /\ call' = Idle \/ call' = [call EXCEPT !.pc = "oops"]
    BY <1>1, <2>3, <2>4, <2>5, <2>6, FeedRestartBase
  <2>8. CallInv' /\ (call' = Idle \/ call' \in [pc : Stages, op : Ops, f : opened, par : Pars])
    <3>1. CASE call' = Idle  BY <3>1, Returned
    <3>2. CASE call' = [call EXCEPT !.pc = "oops"]
      <4>1. "oops" \in Stages  BY DEF Stages
      <4>. QED  BY <3>2, <4>1, <1>2, GoesOn
    <3>. QED  BY <2>7, <3>1, <3>2
  <2>. QED  BY <1>1, <1>2, <1>3, <1>5, <2>1, <2>4, <2>7, <2>8, BusyStep DEF Types
<1>11. CASE filter[f].par.type = "PES" /\ StartTsNew(d, f)
  <2>1. PICK i \in 1 .. mode.feednum :
          /\ FreeFeeds(d) # {} /\ FreeFilters(d) # {} /\ i = feed_alloc(d) /\ Prepared(filter', f, i)
          /\ dmx' = ts_feed_set(allocate_ts_feed(d, f), i, filter[f].par.pid, filter[f].par.dec, filter[f].par.out)
          /\ call' = [call EXCEPT !.pc = "ts_start"] /\ past' = past
    BY <1>11 DEF StartTsNew
  <2>2. PICK par \in mode.params : par = filter[f].par  BY <1>1, <1>11, ChosenPar
  <2>3. dmx' = ts_feed_set(allocate_ts_feed(d, f), i, par.pid, par.dec, par.out)  BY <2>1, <2>2
  <2>4. dmx' \in Demux /\ SameCard(d, dmx') /\ Listed(dmx')
    BY <1>1, <1>4, <2>1, <2>3, TsFeedFacts
  <2>5. filter'[f].feed = i /\ filter' \in [DevFilters -> DevFilter]
    BY <2>1 DEF Prepared, OneFilter
  <2>6. CallInv' /\ call' \in [pc : Stages, op : Ops, f : opened, par : Pars]  BY <1>6, <2>1, <2>5
  <2>. QED  BY <1>1, <1>2, <1>3, <1>5, <2>1, <2>4, <2>5, <2>6, BusyStep DEF Types, SameCard
<1>12. CASE StartTsRefused(d, f)
  <2>1. PICK i \in 1 .. mode.feednum :
          /\ FreeFeeds(d) # {} /\ FreeFilters(d) # {} /\ i = feed_alloc(d) /\ Prepared(filter', f, i)
          /\ dmx' = release_ts_feed(allocate_ts_feed(d, f), i)
          /\ call' = Idle /\ past' = [past EXCEPT !.refused = TRUE]
    BY <1>12 DEF StartTsRefused
  <2>2. PICK e : e = release_ts_feed(allocate_ts_feed(d, f), i)  OBVIOUS
  <2>3. e \in Demux /\ Others(d, e, i) /\ SameCard(d, e) /\ e.feed_list = d.feed_list
        /\ d.feed[i].state = "FREE"
    BY <1>1, <1>4, <2>1, <2>2, TsRefusedFacts
  <2>4. Listed(e)
    <3>1. i \notin d.feed_list  BY <1>4, <2>3 DEF Listed
    <3>. QED  BY <1>4, <2>3, <3>1, ListedStep
  <2>5. filter' \in [DevFilters -> DevFilter]  BY <2>1 DEF Prepared, OneFilter
  <2>6. past' \in [late : BOOLEAN, refused : BOOLEAN]  BY <1>5, <2>1
  <2>7. CallInv'  BY <2>1, Returned
  <2>8. dmx' \in Demux /\ dmx'.frontend = dmx.frontend /\ Listed(dmx')
    BY <1>3, <2>1, <2>2, <2>3, <2>4 DEF SameCard
  <2>. QED  BY <1>1, <1>2, <1>3, <2>1, <2>5, <2>6, <2>7, <2>8, BusyStep DEF Types
<1>. QED  BY <1>3, <1>7, <1>8, <1>9, <1>10, <1>11, <1>12, StartCases

-----------------------------------------------------------------------------
(* What holds as long as no timeout came late                              *)

Act(fs) == {g \in DevFilters : fs[g].state \in {"GO", "DONE", "TIMEDOUT"}}

Owning == {"feed_stop", "release", "arm", "ts_start", "go"}

(* Who has a feed: the started filters, and the one whose call is between  *)
(* a feed's set and its release.                                           *)
LEMMA HoldingIs ==
  /\ Holding = Act(filter) \cup (IF call.pc \in Owning THEN {call.f} ELSE {})
  /\ Holding' = Act(filter') \cup (IF call'.pc \in Owning THEN {call'.f} ELSE {})
  /\ \A f \in DevFilters : Active(f) <=> f \in Act(filter)
BY DEF Holding, Act, Owning, Active

(* A step that changes one filter changes whether that one is started.     *)
LEMMA ActStep ==
  ASSUME NEW fs, NEW gs, NEW f \in DevFilters, OneFilter(fs, gs, f)
  PROVE  /\ f \notin Act(gs) => Act(gs) = Act(fs) \ {f}
         /\ f \in Act(gs) => Act(gs) = Act(fs) \cup {f}
         /\ \A g \in Act(fs) \ {f} : SameOwner(fs, gs, g)
BY DEF Act, OneFilter, SameOwner

(* A call at rest relies on nothing.                                       *)
LEMMA RestStage ==
  ASSUME call'.pc \in {"idle", "lock", "size"}
  PROVE  StageInv' /\ Worked' = 0 /\ Nameless' = 0
BY DEF StageInv, Worked, Nameless

(* No call is running.                                                     *)
LEMMA IdlePc == Idle.pc = "idle" /\ Idle.f = 0
BY DEF Idle

(* What a step of the caller has to establish.                             *)
LEMMA TidyStep ==
  ASSUME Base, Tidy, NEW f \in DevFilters, f \in opened, OneFilter(filter, filter', f),
         mode' = mode, opened' = opened,
         NEW H, NEW w, NEW b, H = Holding', w = Worked', b = Nameless',
         Live(dmx', filter', H, w, b), Decoders(dmx', past'.refused), StageInv',
         filter'[f].state = "SET" => filter'[f].par # NoParam
  PROVE  Tidy'
<1>1. SetInv'  BY DEF Tidy, SetInv, OneFilter
<1>2. OpenInv'  BY DEF Tidy, OpenInv, OneFilter
<1>3. Live(dmx, filter, Holding, Worked, Nameless)'  OBVIOUS
<1>4. Decoders(dmx, past.refused)'  OBVIOUS
<1>. QED  BY <1>1, <1>2, <1>3, <1>4 DEF Tidy

(* Steps that leave the call where it is, and every filter as much started *)
(* as it was                                                               *)
LEMMA QuietTidy ==
  ASSUME Base, Tidy, mode' = mode, opened' = opened, call' = call, past'.refused = past.refused,
         dmx' \in Demux, dmx'.feed = dmx.feed, dmx'.filter = dmx.filter, dmx'.feed_list = dmx.feed_list,
         dmx'.pesfilter = dmx.pesfilter, dmx'.feeds = dmx.feeds, dmx'.dma = dmx.dma,
         \A g \in DevFilters : SameOwner(filter, filter', g),
         \A g \in DevFilters :
           \/ filter'[g].state = filter[g].state
           \/ /\ g \in Act(filter') /\ g \in Act(filter)
              /\ filter[g].state = "GO" \/ filter'[g].state = "TIMEDOUT"
           \/ call.pc = "go" /\ g = call.f /\ filter'[g].state = "TIMEDOUT"
  PROVE  Tidy'
<1>1. dmx \in Demux /\ filter \in [DevFilters -> DevFilter] /\ Listed(dmx) /\ Types  BY DEF Base, Types
<1>2. PICK d \in Demux, e \in Demux : d = dmx /\ e = dmx'  BY <1>1
<1>3. PICK fs, gs, H, w, b :
        fs = filter /\ gs = filter' /\ H = Holding /\ w = Worked /\ b = Nameless
  OBVIOUS
<1>4. call.pc # "idle" => call.f \in DevFilters  BY <1>1, Caller
<1>5. Holding' = H
  <2>1. ASSUME NEW g \in DevFilters  PROVE  g \in Holding' <=> g \in Holding
    BY HoldingIs DEF Act, Owning
  <2>2. Holding' \subseteq DevFilters /\ Holding \subseteq DevFilters
    BY <1>4, HoldingIs DEF Act, Owning
  <2>. QED  BY <1>3, <2>1, <2>2
<1>6. Worked' = w /\ Nameless' = b  BY <1>3, <1>4 DEF Worked, Nameless, SameOwner
<1>7. Live(d, fs, H, w, b) /\ Decoders(d, past.refused) /\ Listed(d)
  BY <1>1, <1>2, <1>3 DEF Tidy
<1>8. Live(e, fs, H, w, b)
  <2>1. \A i \in 1 .. mode.feednum : e.feed[i] = d.feed[i]  BY <1>2
  <2>2. \A k \in 1 .. mode.filternum : e.filter[k] = d.filter[k]  BY <1>2
  <2>3. e.feed_list = d.feed_list /\ e.feeds = d.feeds /\ e.dma = d.dma  BY <1>2
  <2>. QED  BY <1>7, <2>1, <2>2, <2>3, SameLive
<1>9. \A g \in H : SameOwner(fs, gs, g)
  <2>1. H \subseteq DevFilters  BY <1>3, <1>4, HoldingIs DEF Act, Owning
  <2>. QED  BY <1>3, <2>1
<1>10. Live(e, gs, H, w, b)  BY <1>8, <1>9, LiveSame
<1>11. Decoders(e, past'.refused)
  <2>1. PICK r : r = past.refused  OBVIOUS
  <2>2. \A i \in 1 .. mode.feednum :
           (TsUsed(e, i) <=> TsUsed(d, i)) /\ (TsUsed(d, i) => e.feed[i].dec = d.feed[i].dec)
    BY <1>2 DEF TsUsed
  <2>3. e.pesfilter = d.pesfilter  BY <1>2
  <2>4. Decoders(e, r)  BY <1>7, <2>1, <2>2, <2>3, SameDecoders
  <2>. QED  BY <2>1, <2>4
<1>12. StageInv'
  <2>1. CASE call.pc = "idle"  BY <2>1, RestStage
  <2>2. CASE call.pc # "idle"
    <3>1. PICK f \in DevFilters : f = call.f  BY <2>2, <1>4
    <3>2. SameOwner(filter, filter', f)  BY <3>1
    <3>3. DOMAIN dmx'.feed = DOMAIN dmx.feed  OBVIOUS
    <3>4. \/ filter'[f].state = filter[f].state
          \/ /\ f \in Act(filter') /\ f \in Act(filter)
             /\ filter[f].state = "GO" \/ filter'[f].state = "TIMEDOUT"
          \/ call.pc = "go" /\ filter'[f].state = "TIMEDOUT"
      BY <3>1
    <3>5. StageInv  BY DEF Tidy
    <3>6. /\ filter'[f].feed = filter[f].feed /\ filter'[f].sec = filter[f].sec
          /\ filter'[f].par = filter[f].par /\ filter'[f].mem = filter[f].mem
      BY <3>2 DEF SameOwner
    <3>7. CASE filter'[f].state = filter[f].state  BY <3>1, <3>3, <3>5, <3>6, <3>7 DEF StageInv, Active
    <3>8. CASE /\ f \in Act(filter') /\ f \in Act(filter)
               /\ filter[f].state = "GO" \/ filter'[f].state = "TIMEDOUT"
      <4>1. filter[f].state # "SET" /\ Active(f) /\ filter'[f].state \notin {"FREE", "ALLOCATED"}
        BY <3>8 DEF Act, Active
      <4>2. call.pc = "go" => filter'[f].state \in {"SET", "TIMEDOUT"}
        BY <3>1, <3>5, <3>8 DEF StageInv
      <4>. QED  BY <3>1, <3>3, <3>5, <3>6, <4>1, <4>2 DEF StageInv
    <3>9. CASE call.pc = "go" /\ filter'[f].state = "TIMEDOUT"  BY <3>1, <3>9 DEF StageInv
    <3>. QED  BY <3>4, <3>7, <3>8, <3>9
  <2>. QED  BY <2>1, <2>2
<1>13. SetInv'
  <2>1. ASSUME NEW g \in DevFilters, filter'[g].state = "SET"  PROVE  filter'[g].par # NoParam
    <3>1. filter[g].state = "SET"  BY <2>1 DEF Act
    <3>. QED  BY <3>1 DEF Tidy, SetInv, SameOwner
  <2>. QED  BY <2>1 DEF SetInv
<1>14. OpenInv'
  <2>1. ASSUME NEW g \in DevFilters \ opened, filter[g].state = "FREE"  PROVE  filter'[g].state = "FREE"
    <3>1. call.pc = "go" => call.f \in opened  BY <1>1, Caller
    <3>2. g \notin Act(filter)  BY <2>1 DEF Act
    <3>. QED  BY <2>1, <3>1, <3>2
  <2>. QED  BY <2>1 DEF Tidy, OpenInv
<1>15. Live(dmx, filter, Holding, Worked, Nameless)'  BY <1>2, <1>3, <1>5, <1>6, <1>10
<1>16. Decoders(dmx, past.refused)'  BY <1>2, <1>11
<1>. QED  BY <1>12, <1>13, <1>14, <1>15, <1>16 DEF Tidy

(* A packet                                                                *)
LEMMA PacketTidy ==
  ASSUME Base, Tidy, NEW pid, Packet(pid)
  PROVE  Tidy'
<1>1. Types /\ dmx \in Demux  BY DEF Base, Types
<1>2. mode' = mode /\ opened' = opened /\ call' = call /\ past' = past /\ dmx' = dmx  BY DEF Packet
<1>3. \A g \in DevFilters :
        /\ SameOwner(filter, filter', g)
        /\ filter'[g].state = filter[g].state \/ (filter[g].state = "GO" /\ filter'[g].state = "DONE")
  BY <1>1, PacketFilters
<1>4. \A g \in DevFilters :
        \/ filter'[g].state = filter[g].state
        \/ /\ g \in Act(filter') /\ g \in Act(filter)
           /\ filter[g].state = "GO" \/ filter'[g].state = "TIMEDOUT"
  BY <1>3 DEF Act
<1>. QED  BY <1>1, <1>2, <1>3, <1>4, QuietTidy

(* A buffer changed                                                        *)
LEMMA BufTidy ==
  ASSUME Base, Tidy, NEW f \in DevFilters, NEW b \in {"empty", "data", "error"},
         filter' = WithBuf(filter, f, b) \/ filter' = filter,
         mode' = mode, opened' = opened, call' = call, past' = past, dmx' = dmx
  PROVE  Tidy'
<1>1. dmx \in Demux /\ filter \in [DevFilters -> DevFilter]  BY DEF Base, Types
<1>2. \A g \in DevFilters : SameOwner(filter, filter', g) /\ filter'[g].state = filter[g].state
  <2>1. CASE filter' = filter  BY <2>1 DEF SameOwner
  <2>2. CASE filter' = WithBuf(filter, f, b)  BY <2>2, <1>1, SetBuf
  <2>. QED  BY <2>1, <2>2
<1>. QED  BY <1>1, <1>2, QuietTidy

(* dvb_demux_read                                                          *)
LEMMA ReadTidy ==
  ASSUME Base, Tidy, NEW f \in DevFilters, Read(f) \/ ReadWakes(f)
  PROVE  Tidy'
<1>1. mode' = mode /\ opened' = opened /\ call' = call /\ past' = past /\ dmx' = dmx
  BY DEF Read, ReadWakes
<1>2. PICK b \in {"empty", "data", "error"} : filter' = WithBuf(filter, f, b) \/ filter' = filter
  BY DEF Read, ReadWakes, Took, WithBuf
<1>. QED  BY <1>1, <1>2, BufTidy

(* A timeout that is not late                                              *)
LEMMA TimerTidy ==
  ASSUME Base, Tidy, NEW f \in DevFilters, TimerExpires(f) \/ TimerState(f), ~past'.late
  PROVE  Tidy'
<1>1. dmx \in Demux /\ filter \in [DevFilters -> DevFilter] /\ past \in [late : BOOLEAN, refused : BOOLEAN]
  BY DEF Base, Types
<1>2. mode' = mode /\ opened' = opened /\ call' = call /\ dmx' = dmx  BY DEF TimerExpires, TimerState
<1>3. CASE TimerExpires(f)
  <2>1. filter' = WithBuf(filter, f, "error") /\ past' = past  BY <1>3 DEF TimerExpires, WithBuf
  <2>. QED  BY <1>2, <2>1, BufTidy
<1>4. CASE TimerState(f)
  <2>1. filter' = WithState(filter, f, "TIMEDOUT")  BY <1>4 DEF TimerState, WithState
  <2>2. OneFilter(filter, filter', f) /\ filter'[f].state = "TIMEDOUT"
        /\ \A g \in DevFilters : SameOwner(filter, filter', g)
    BY <1>1, <2>1, SetState
  <2>3. PICK x \in BOOLEAN : x = (past.late \/ (~Active(f) /\ ~(call.f = f /\ call.pc = "go")))  BY Zenon
  <2>4. past' = [past EXCEPT !.late = x]  BY <1>4, <2>3, Zenon DEF TimerState
  <2>5. past'.late = x /\ past'.refused = past.refused  BY <1>1, <2>4
  <2>6. x = FALSE  BY <2>5
  <2>7. Active(f) \/ (call.f = f /\ call.pc = "go")  BY <2>3, <2>6
  <2>8. \A g \in DevFilters :
           \/ filter'[g].state = filter[g].state
           \/ /\ g \in Act(filter') /\ g \in Act(filter)
              /\ filter[g].state = "GO" \/ filter'[g].state = "TIMEDOUT"
           \/ call.pc = "go" /\ g = call.f /\ filter'[g].state = "TIMEDOUT"
    BY <2>2, <2>7 DEF OneFilter, Act, Active
  <2>. QED  BY <1>1, <1>2, <2>2, <2>5, <2>8, QuietTidy
<1>. QED  BY <1>3, <1>4

(* dvb_dvr_open and dvb_dvr_release                                        *)
LEMMA DvrTidy ==
  ASSUME Base, Base', Tidy, DvrOpenRead \/ DvrCloseRead \/ DvrOpenWrite \/ DvrCloseWrite
  PROVE  Tidy'
<1>1. dmx \in Demux /\ Types /\ Types'  BY DEF Base, Types
<1>2. mode' = mode /\ opened' = opened /\ call' = call /\ past' = past /\ filter' = filter
  BY DEF DvrOpenRead, DvrCloseRead, DvrOpenWrite, DvrCloseWrite
<1>3. dmx' \in Demux  BY <1>1, <1>2, ModeSame DEF Types
<1>4. /\ dmx'.feed = dmx.feed /\ dmx'.filter = dmx.filter /\ dmx'.feed_list = dmx.feed_list
      /\ dmx'.pesfilter = dmx.pesfilter /\ dmx'.feeds = dmx.feeds /\ dmx'.dma = dmx.dma
  <2>1. dmx' = dmx \/ \E x : dmx' = [dmx EXCEPT !.frontend = x]
    BY DEF DvrOpenRead, DvrCloseRead, DvrOpenWrite, DvrCloseWrite
  <2>. QED  BY <1>1, <2>1 DEF Demux
<1>5. \A g \in DevFilters : SameOwner(filter, filter', g) /\ filter'[g].state = filter[g].state
  BY <1>2 DEF SameOwner
<1>. QED  BY <1>2, <1>3, <1>4, <1>5, QuietTidy

(* Steps of calls that leave the demux alone                               *)
LEMMA KeepTidy ==
  ASSUME Base, Tidy, NEW f \in DevFilters, OneFilter(filter, filter', f), dmx' = dmx, past' = past,
         Holding' = Holding, Worked' = Worked, Nameless' = Nameless,
         f \in Holding => SameOwner(filter, filter', f),
         StageInv', SetInv', OpenInv'
  PROVE  Tidy'
<1>1. dmx \in Demux /\ Types  BY DEF Base, Types
<1>2. PICK d \in Demux : d = dmx  BY <1>1
<1>3. PICK fs, gs, H, w, b :
        fs = filter /\ gs = filter' /\ H = Holding /\ w = Worked /\ b = Nameless
  OBVIOUS
<1>4. Live(d, fs, H, w, b) /\ Decoders(d, past.refused)  BY <1>2, <1>3 DEF Tidy
<1>5. \A g \in H : SameOwner(fs, gs, g)
  <2>1. H \subseteq DevFilters
    <3>1. call.pc # "idle" => call.f \in DevFilters  BY <1>1, Caller
    <3>. QED  BY <1>3, <3>1, HoldingIs DEF Act, Owning
  <2>2. ASSUME NEW g \in H  PROVE  SameOwner(fs, gs, g)
    <3>1. CASE g = f  BY <3>1, <1>3
    <3>2. CASE g # f  BY <3>2, <2>1, <1>3 DEF OneFilter, SameOwner
    <3>. QED  BY <3>1, <3>2
  <2>. QED  BY <2>2
<1>6. Live(d, gs, H, w, b)  BY <1>4, <1>5, LiveSame
<1>7. Live(dmx, filter, Holding, Worked, Nameless)'  BY <1>2, <1>3, <1>6
<1>8. Decoders(dmx, past.refused)'  BY <1>2, <1>4
<1>. QED  BY <1>7, <1>8 DEF Tidy

(* A filter that is set has parameters.                                    *)
LEMMA KeepSet ==
  ASSUME Tidy, NEW f \in DevFilters, OneFilter(filter, filter', f),
         filter'[f].state = "SET" => filter'[f].par # NoParam
  PROVE  SetInv'
BY DEF Tidy, SetInv, OneFilter

(* A filter that is not open is free.                                      *)
LEMMA KeepOpen ==
  ASSUME Tidy, NEW f \in DevFilters, OneFilter(filter, filter', f), mode' = mode,
         opened' = opened, f \in opened
  PROVE  OpenInv'
BY DEF Tidy, OpenInv, OneFilter

(* A filter that a call does not own and that is not started.              *)
LEMMA NotHolding ==
  ASSUME NEW f \in DevFilters, OneFilter(filter, filter', f), f \notin Act(filter), f \notin Act(filter'),
         call.pc \notin Owning, call'.pc \notin Owning
  PROVE  Holding' = Holding /\ f \notin Holding
BY HoldingIs, ActStep

(* The filters left alone.                                                 *)
LEMMA SameFilter ==
  ASSUME Base, filter' = filter
  PROVE  /\ \A f \in DevFilters : OneFilter(filter, filter', f) /\ SameOwner(filter, filter', f)
         /\ Act(filter') = Act(filter)
<1>1. filter \in [DevFilters -> DevFilter]  BY DEF Base, Types
<1>. QED  BY <1>1 DEF OneFilter, SameOwner

(* A filter that has a feed is served by it.                               *)
LEMMA StartedServed ==
  ASSUME Base, Tidy, NEW f \in Holding
  PROVE  /\ Served(dmx, filter, f, Nameless) /\ filter[f].feed \in dmx.feed_list
         /\ filter[f].feed \in Used(dmx) /\ filter[f].feed \in 1 .. mode.feednum
         /\ filter[f].feed # 0 /\ filter[f].par # NoParam
<1>1. dmx \in Demux /\ mode \in Modes /\ Listed(dmx)  BY DEF Base, Types
<1>2. PICK d \in Demux : d = dmx  BY <1>1
<1>20. PICK b : b = Nameless  OBVIOUS
<1>3. Served(d, filter, f, b)  BY <1>2, <1>20 DEF Tidy, Live
<1>4. filter[f].feed \in Used(d) /\ filter[f].feed \in 1 .. mode.feednum  BY <1>1, <1>2, <1>3, ServedUsed
<1>5. filter[f].feed # 0  BY <1>1, <1>4, Numbers
<1>6. filter[f].par.type \in {"SEC", "PES"} /\ filter[f].feed \in d.feed_list  BY <1>3 DEF Served
<1>7. filter[f].par # NoParam  BY <1>6 DEF NoParam
<1>. QED  BY <1>2, <1>20, <1>3, <1>4, <1>5, <1>6, <1>7

(* dvb_demux_open takes a free filter, which has no feed.                  *)
LEMMA OpenTidy ==
  ASSUME Base, Tidy, NEW f \in DevFilters, Open(f)
  PROVE  Tidy'
<1>1. filter \in [DevFilters -> DevFilter] /\ call.pc = "idle" /\ mode \in Modes  BY DEF Base, Types, Open
<1>2. mode' = mode /\ dmx' = dmx /\ past' = past /\ call' = call /\ opened' = opened \cup {f}  BY DEF Open
<1>3. filter[f].state = "FREE"
  <2>1. PICK S : S = {g \in DevFilters : filter[g].state = "FREE"} \cup {NDev + 1}  OBVIOUS
  <2>2. NDev \in Nat  BY <1>1, Numbers
  <2>3. S \subseteq Nat /\ S # {}  BY <2>1, <2>2 DEF DevFilters
  <2>4. Min(S) \in S  BY <2>3, MinIn
  <2>5. f \in S  BY <2>1, <2>4 DEF Open
  <2>. QED  BY <2>1, <2>2, <2>5 DEF DevFilters
<1>4. OneFilter(filter, filter', f) /\ filter'[f].state = "ALLOCATED"
  <2>1. PICK y : y = [filter[f] EXCEPT !.state = "ALLOCATED", !.par = NoParam, !.feed = 0,
                                       !.mem = FALSE, !.sized = TRUE, !.buf = "empty"]
    OBVIOUS
  <2>2. 0 \in 0 .. mode.feednum  BY <1>1, Numbers
  <2>3. y \in DevFilter /\ y.state = "ALLOCATED"  BY <1>1, <2>1, <2>2 DEF DevFilter, Pars
  <2>4. filter' = [filter EXCEPT ![f] = y]  BY <2>1 DEF Open
  <2>. QED  BY <1>1, <2>3, <2>4, PutFilter
<1>5. Holding' = Holding /\ f \notin Holding
  <2>1. f \notin Act(filter) /\ f \notin Act(filter')  BY <1>3, <1>4 DEF Act
  <2>2. call.pc \notin Owning /\ call'.pc \notin Owning  BY <1>1, <1>2 DEF Owning
  <2>. QED  BY <1>4, <2>1, <2>2, NotHolding
<1>6. StageInv' /\ Worked' = Worked /\ Nameless' = Nameless
  BY <1>1, <1>2, RestStage DEF Worked, Nameless
<1>7. SetInv'  BY <1>4, KeepSet
<1>8. OpenInv'  BY <1>2, <1>4 DEF Tidy, OpenInv, OneFilter
<1>. QED  BY <1>2, <1>4, <1>5, <1>6, <1>7, <1>8, KeepTidy

(* A step before the filter's mutex is held.                               *)
LEMMA QuietCallTidy ==
  ASSUME Base, Tidy, filter' = filter, dmx' = dmx, past' = past, mode' = mode,
         opened' = opened \/ "signals" \in mode.faults,
         call.pc \in {"idle", "lock"}, call'.pc \notin Owning, StageInv', Worked' = 0, Nameless' = 0
  PROVE  Tidy'
<1>1. NDev \in Nat /\ NDev > 0  BY Numbers DEF Base, Types
<1>2. PICK f \in DevFilters : TRUE  BY <1>1 DEF DevFilters
<1>3. OneFilter(filter, filter', f) /\ SameOwner(filter, filter', f)  BY SameFilter
<1>4. Holding' = Holding
  <2>1. call.pc \notin Owning  BY DEF Owning
  <2>. QED  BY <2>1, HoldingIs
<1>5. Worked = 0 /\ Nameless = 0  BY DEF Worked, Nameless
<1>6. SetInv' /\ OpenInv'  BY DEF Tidy, SetInv, OpenInv
<1>. QED  BY <1>3, <1>4, <1>5, <1>6, KeepTidy

(* The beginning of a call                                                 *)
LEMMA CallTidy ==
  ASSUME Base, Tidy, NEW f \in DevFilters, NEW op, NEW par, Call(f, op, par)
  PROVE  Tidy'
<1>1. call'.pc = "lock"  BY DEF Call
<1>2. StageInv' /\ Worked' = 0 /\ Nameless' = 0 /\ call'.pc \notin Owning  BY <1>1, RestStage DEF Owning
<1>. QED  BY <1>2, QuietCallTidy DEF Call

(* A close that a signal interrupts                                        *)
LEMMA CloseInterruptedTidy ==
  ASSUME Base, Tidy, CloseInterrupted
  PROVE  Tidy'
<1>1. call'.pc = "idle"  BY IdlePc DEF CloseInterrupted
<1>2. StageInv' /\ Worked' = 0 /\ Nameless' = 0 /\ call'.pc \notin Owning  BY <1>1, RestStage DEF Owning
<1>. QED  BY <1>2, QuietCallTidy DEF CloseInterrupted

(* The filter's mutex taken                                                *)
LEMMA LockTidy ==
  ASSUME Base, Tidy, Lock
  PROVE  Tidy'
<1>1. call.pc = "lock" /\ Types  BY DEF Lock, Base
<1>2. CASE call' = Idle
  <2>1. call'.pc = "idle"  BY <1>2, IdlePc
  <2>2. StageInv' /\ Worked' = 0 /\ Nameless' = 0 /\ call'.pc \notin Owning  BY <2>1, RestStage DEF Owning
  <2>. QED  BY <2>2, QuietCallTidy DEF Lock
<1>3. CASE call' # Idle
  <2>1. PICK s \in {"size", "stop"} : s = Enter(call.op)  BY DEF Enter
  <2>2. call' = [call EXCEPT !.pc = s] /\ ~(call.op = "start" /\ filter[call.f].state \in {"FREE", "ALLOCATED"})
    BY <1>3, <2>1 DEF Lock
  <2>3. s \in Stages  BY DEF Stages
  <2>4. call'.pc = s /\ call'.op = call.op /\ call'.f = call.f  BY <1>1, <2>2, <2>3, Moved
  <2>5. filter' = filter  BY DEF Lock
  <2>6. StageInv'
    <3>1. CASE s = "size"  BY <2>4, <3>1, RestStage
    <3>2. CASE s = "stop"  BY <2>2, <2>4, <2>5, <3>2 DEF StageInv
    <3>. QED  BY <3>1, <3>2
  <2>7. Worked' = 0 /\ Nameless' = 0 /\ call'.pc \notin Owning  BY <2>4 DEF Worked, Nameless, Owning
  <2>. QED  BY <2>6, <2>7, QuietCallTidy DEF Lock
<1>. QED  BY <1>2, <1>3

(* filter_stop returns with the filter stopped.                            *)
LEMMA AfterStopTidy ==
  ASSUME Base, Tidy, call.pc \in {"stop", "stopped"}, call' = AfterStop, dmx' = dmx, past' = past,
         mode' = mode, opened' = opened, NEW f \in DevFilters, f = call.f,
         OneFilter(filter, filter', f), f \notin Act(filter), filter'[f].state = filter[f].state,
         filter'[f].par = filter[f].par
  PROVE  Tidy'
<1>1. Types /\ call.pc # "idle"  BY DEF Base
<1>2. f \in opened  BY <1>1, Caller
<1>3. call'.pc \in {"idle", "alloc", "free", "set"} /\ (call'.pc # "idle" => call'.f = f)
      /\ (call'.pc = "alloc" => call.op = "start")
  <2>1. CASE call' = Idle  BY <2>1, IdlePc
  <2>2. CASE call' # Idle
    <3>1. /\ call'.pc = (CASE call.op = "start" -> "alloc" [] call.op = "free" -> "free" [] OTHER -> "set")
          /\ call'.f = call.f
      BY <2>2, AfterStopFacts
    <3>. QED  BY <3>1
  <2>. QED  BY <2>1, <2>2
<1>4. f \notin Act(filter') /\ call.pc \notin Owning /\ call'.pc \notin Owning  BY <1>3 DEF Act, Owning
<1>5. Holding' = Holding /\ f \notin Holding  BY <1>4, NotHolding
<1>6. Worked' = Worked /\ Nameless' = Nameless  BY <1>3 DEF Worked, Nameless
<1>7. StageInv'
  <2>1. CASE call'.pc = "idle"  BY <2>1, RestStage
  <2>2. CASE call'.pc = "alloc"
    <3>1. filter[f].state = "SET"
      <4>1. CASE call.pc = "stopped"  BY <4>1 DEF Tidy, StageInv
      <4>2. CASE call.pc = "stop"
        <5>1. filter[f].state \notin {"FREE", "ALLOCATED"}  BY <1>3, <2>2, <4>2 DEF Tidy, StageInv
        <5>2. filter[f] \in DevFilter  BY <1>1 DEF Types
        <5>3. filter[f].state \in {"FREE", "ALLOCATED", "SET", "GO", "DONE", "TIMEDOUT"}  BY <5>2, FilterFields
        <5>. QED  BY <5>1, <5>3 DEF Act
      <4>. QED  BY <4>1, <4>2
    <3>. QED  BY <1>3, <2>2, <3>1 DEF StageInv
  <2>3. CASE call'.pc \in {"free", "set"}
    <3>1. ~Active(f)'  BY <1>4, HoldingIs DEF Active, Act
    <3>. QED  BY <1>3, <2>3, <3>1 DEF StageInv, Active
  <2>. QED  BY <1>3, <2>1, <2>2, <2>3
<1>8. SetInv'  BY KeepSet DEF Tidy, SetInv
<1>9. OpenInv'  BY <1>2, KeepOpen
<1>. QED  BY <1>5, <1>6, <1>7, <1>8, <1>9, KeepTidy

(* The beginning of filter_stop: the filter keeps its feed until the       *)
(* release.                                                                *)
LEMMA StopTidy ==
  ASSUME Base, Tidy, Stop
  PROVE  Tidy'
<1>1. Types /\ call.pc = "stop" /\ filter \in [DevFilters -> DevFilter]  BY DEF Base, Types, Stop
<1>2. PICK f \in DevFilters : f = call.f  BY <1>1, Caller
<1>3. dmx' = dmx /\ past' = past /\ mode' = mode /\ opened' = opened  BY DEF Stop
<1>4. CASE ~Active(f)
  <2>1. call' = AfterStop /\ filter' = filter  BY <1>2, <1>4 DEF Stop
  <2>2. OneFilter(filter, filter', f)  BY <2>1, SameFilter
  <2>3. f \notin Act(filter)  BY <1>4, HoldingIs
  <2>. QED  BY <1>1, <1>2, <1>3, <2>1, <2>2, <2>3, AfterStopTidy
<1>5. CASE Active(f)
  <2>1. f \in Holding /\ f \in Act(filter)  BY <1>5, HoldingIs
  <2>2. filter[f].feed # 0 /\ filter[f].par # NoParam  BY <2>1, StartedServed
  <2>3. call' = [call EXCEPT !.pc = "feed_stop"] /\ filter' = WithState(filter, f, "SET")
    BY <1>2, <1>5, <2>2 DEF Stop, WithState
  <2>4. OneFilter(filter, filter', f) /\ filter'[f].state = "SET" /\ SameOwner(filter, filter', f)
    BY <1>1, <2>3, SetState
  <2>5. "feed_stop" \in Stages  BY DEF Stages
  <2>6. call'.pc = "feed_stop" /\ call'.f = f  BY <1>1, <1>2, <2>3, <2>5, Moved
  <2>7. Holding' = Holding
    <3>1. f \notin Act(filter')  BY <2>4 DEF Act
    <3>2. Act(filter') = Act(filter) \ {f}  BY <2>4, <3>1, ActStep
    <3>3. call.pc \notin Owning /\ call'.pc \in Owning  BY <1>1, <2>6 DEF Owning
    <3>. QED  BY <2>1, <2>6, <3>2, <3>3, HoldingIs
  <2>8. Worked' = Worked /\ Nameless' = Nameless  BY <1>1, <2>6 DEF Worked, Nameless
  <2>9. StageInv'  BY <2>4, <2>6 DEF StageInv
  <2>10. filter'[f].par # NoParam  BY <2>2, <2>4 DEF SameOwner
  <2>11. SetInv'  BY <2>4, <2>10, KeepSet
  <2>12. f \in opened  BY <1>1, <1>2, Caller
  <2>13. OpenInv'  BY <1>3, <2>4, <2>12, KeepOpen
  <2>. QED  BY <1>3, <2>4, <2>7, <2>8, <2>9, <2>11, <2>13, KeepTidy
<1>. QED  BY <1>4, <1>5

(* The end of filter_stop                                                  *)
LEMMA StoppedTidy ==
  ASSUME Base, Tidy, Stopped
  PROVE  Tidy'
<1>1. Types /\ mode \in Modes /\ call.pc = "stopped" /\ filter \in [DevFilters -> DevFilter]
  BY DEF Base, Types, Stopped
<1>2. PICK f \in DevFilters : f = call.f  BY <1>1, Caller
<1>3. dmx' = dmx /\ past' = past /\ mode' = mode /\ opened' = opened /\ call' = AfterStop  BY DEF Stopped
<1>4. filter' = WithStopped(filter, f)  BY <1>2 DEF Stopped, WithStopped
<1>5. OneFilter(filter, filter', f) /\ filter'[f].state = filter[f].state /\ filter'[f].par = filter[f].par
  BY <1>1, <1>4, SetStopped
<1>6. f \notin Act(filter)  BY <1>1, <1>2 DEF Tidy, StageInv, Act
<1>. QED  BY <1>1, <1>2, <1>3, <1>5, <1>6, AfterStopTidy

(* filter_set and pes_filter_set change a stopped filter only.             *)
LEMMA SetTidy ==
  ASSUME Base, Tidy, Set
  PROVE  Tidy'
<1>1. Types /\ mode \in Modes /\ call.pc = "set" /\ filter \in [DevFilters -> DevFilter]
  BY DEF Base, Types, Set
<1>2. PICK f \in DevFilters : f = call.f  BY <1>1, Caller
<1>3. dmx' = dmx /\ past' = past /\ mode' = mode /\ opened' = opened  BY DEF Set
<1>4. call.par \in mode.params  BY <1>1 DEF Base, CallInv
<1>5. f \notin Act(filter) /\ f \in opened  BY <1>1, <1>2, Caller DEF Tidy, StageInv, Act, Active
<1>6. /\ OneFilter(filter, filter', f)
      /\ (filter' = filter /\ call' = Idle) \/ (filter'[f].state = "SET" /\ filter'[f].par = call.par)
      /\ call' = Idle \/ (call' = [call EXCEPT !.pc = "alloc"] /\ filter'[f].state = "SET")
  <2>1. CASE call' = Idle /\ filter' = filter  BY <2>1, SameFilter
  <2>2. CASE ~(call' = Idle /\ filter' = filter)
    <3>1. PICK par \in Pars : par = call.par  BY <1>4 DEF Pars
    <3>2. /\ filter' = WithPar(filter, f, par)
          /\ call' = Idle \/ call' = [call EXCEPT !.pc = "alloc"]
      BY <1>2, <2>2, <3>1 DEF Set, WithPar
    <3>3. OneFilter(filter, filter', f) /\ filter'[f].par = par /\ filter'[f].state = "SET"
      BY <1>1, <3>2, SetPar
    <3>. QED  BY <3>1, <3>2, <3>3
  <2>. QED  BY <2>1, <2>2
<1>7. f \notin Act(filter')  BY <1>5, <1>6 DEF Act
<1>8. call'.pc = "idle" \/ (call'.pc = "alloc" /\ call'.f = f /\ filter'[f].state = "SET")
  <2>1. CASE call' = Idle  BY <2>1, IdlePc
  <2>2. CASE call' = [call EXCEPT !.pc = "alloc"] /\ filter'[f].state = "SET"
    <3>1. "alloc" \in Stages  BY DEF Stages
    <3>. QED  BY <1>1, <1>2, <2>2, <3>1, Moved
  <2>. QED  BY <1>6, <2>1, <2>2
<1>9. Holding' = Holding /\ f \notin Holding
  <2>1. call.pc \notin Owning /\ call'.pc \notin Owning  BY <1>1, <1>8 DEF Owning
  <2>. QED  BY <1>5, <1>6, <1>7, <2>1, NotHolding
<1>10. Worked' = Worked /\ Nameless' = Nameless  BY <1>1, <1>8 DEF Worked, Nameless
<1>11. StageInv'
  <2>1. CASE call'.pc = "idle"  BY <2>1, RestStage
  <2>2. CASE call'.pc = "alloc" /\ call'.f = f /\ filter'[f].state = "SET"  BY <2>2 DEF StageInv
  <2>. QED  BY <1>8, <2>1, <2>2
<1>12. SetInv'
  <2>1. call.par # NoParam
    <3>1. call.par \in Param  BY <1>1, <1>4, Numbers
    <3>2. call.par.type \in {"SEC", "PES"}  BY <3>1 DEF Param
    <3>. QED  BY <3>2 DEF NoParam
  <2>. QED  BY <1>6, <2>1, KeepSet DEF Tidy, SetInv
<1>13. OpenInv'  BY <1>3, <1>5, <1>6, KeepOpen
<1>. QED  BY <1>3, <1>6, <1>9, <1>10, <1>11, <1>12, <1>13, KeepTidy

(* set_buffer_size leaves a started filter its buffer.                     *)
LEMMA SetSizeTidy ==
  ASSUME Base, Tidy, SetSize
  PROVE  Tidy'
<1>1. Types /\ mode \in Modes /\ call.pc = "size" /\ filter \in [DevFilters -> DevFilter]
  BY DEF Base, Types, SetSize
<1>2. PICK f \in DevFilters : f = call.f  BY <1>1, Caller
<1>3. dmx' = dmx /\ past' = past /\ mode' = mode /\ opened' = opened /\ call'.pc = "idle"
  BY IdlePc DEF SetSize
<1>4. /\ OneFilter(filter, filter', f) /\ filter'[f].state = filter[f].state /\ filter'[f].par = filter[f].par
      /\ filter' = filter \/ f \notin Act(filter)
  <2>1. CASE filter' = filter  BY <2>1, SameFilter
  <2>2. CASE filter' # filter
    <3>1. PICK want \in BOOLEAN : want = (call.op = "size1")  BY Zenon
    <3>2. f \notin Act(filter)  BY <1>2, <2>2, HoldingIs DEF SetSize
    <3>3. PICK mem \in {want} \cup (IF "memory" \in mode.faults THEN {FALSE} ELSE {}) :
            filter' = [filter EXCEPT ![f] = [@ EXCEPT !.sized = want, !.mem = mem, !.buf = "empty"]]
      BY <1>2, <2>2, <3>1 DEF SetSize
    <3>4. mem \in BOOLEAN  BY <3>1, <3>3
    <3>5. PICK y : y = [filter[f] EXCEPT !.sized = want, !.mem = mem, !.buf = "empty"]  OBVIOUS
    <3>6. y \in DevFilter /\ y.state = filter[f].state /\ y.par = filter[f].par
      BY <1>1, <3>4, <3>5 DEF DevFilter
    <3>7. filter' = [filter EXCEPT ![f] = y]  BY <3>3, <3>5
    <3>8. OneFilter(filter, filter', f) /\ filter'[f] = y  BY <1>1, <3>6, <3>7, PutFilter
    <3>. QED  BY <3>2, <3>6, <3>8
  <2>. QED  BY <2>1, <2>2
<1>5. Holding' = Holding /\ (f \in Holding => SameOwner(filter, filter', f))
  <2>0. call.pc \notin Owning /\ call'.pc \notin Owning  BY <1>1, <1>3 DEF Owning
  <2>1. CASE filter' = filter  BY <2>0, <2>1, SameFilter, HoldingIs
  <2>2. CASE f \notin Act(filter)
    <3>1. f \notin Act(filter')  BY <1>4, <2>2 DEF Act
    <3>. QED  BY <1>4, <2>0, <2>2, <3>1, NotHolding
  <2>. QED  BY <1>4, <2>1, <2>2
<1>6. Worked' = Worked /\ Nameless' = Nameless  BY <1>1, <1>3 DEF Worked, Nameless
<1>7. StageInv'  BY <1>3, RestStage
<1>8. SetInv'  BY <1>4, KeepSet DEF Tidy, SetInv
<1>9. f \in opened  BY <1>1, <1>2, Caller
<1>10. OpenInv'  BY <1>3, <1>4, <1>9, KeepOpen
<1>. QED  BY <1>3, <1>4, <1>5, <1>6, <1>7, <1>8, <1>10, KeepTidy

(* filter_free frees a stopped filter.                                     *)
LEMMA FreeTidy ==
  ASSUME Base, Tidy, Free
  PROVE  Tidy'
<1>1. Types /\ mode \in Modes /\ call.pc = "free" /\ filter \in [DevFilters -> DevFilter]
  BY DEF Base, Types, Free
<1>2. PICK f \in DevFilters : f = call.f  BY <1>1, Caller
<1>3. dmx' = dmx /\ past' = past /\ mode' = mode /\ opened' = opened \ {f} /\ call'.pc = "idle"
  BY <1>2, IdlePc DEF Free
<1>4. OneFilter(filter, filter', f) /\ filter'[f].state = "FREE"
  <2>1. PICK y : y = [filter[f] EXCEPT !.state = "FREE", !.mem = FALSE, !.par = NoParam, !.sec = 0]  OBVIOUS
  <2>2. 0 \in 0 .. mode.filternum  BY <1>1, Numbers
  <2>3. y \in DevFilter /\ y.state = "FREE"  BY <1>1, <2>1, <2>2 DEF DevFilter, Pars
  <2>4. filter' = [filter EXCEPT ![f] = y]  BY <1>2, <2>1 DEF Free
  <2>. QED  BY <1>1, <2>3, <2>4, PutFilter
<1>5. f \notin Act(filter)  BY <1>1, <1>2 DEF Tidy, StageInv, Act, Active
<1>6. Holding' = Holding /\ f \notin Holding
  <2>1. f \notin Act(filter')  BY <1>4 DEF Act
  <2>2. call.pc \notin Owning /\ call'.pc \notin Owning  BY <1>1, <1>3 DEF Owning
  <2>. QED  BY <1>4, <1>5, <2>1, <2>2, NotHolding
<1>7. Worked' = Worked /\ Nameless' = Nameless  BY <1>1, <1>3 DEF Worked, Nameless
<1>8. StageInv'  BY <1>3, RestStage
<1>9. SetInv'  BY <1>4, KeepSet
<1>10. OpenInv'  BY <1>3, <1>4 DEF Tidy, OpenInv, OneFilter
<1>. QED  BY <1>3, <1>4, <1>6, <1>7, <1>8, <1>9, <1>10, KeepTidy

(* filter_timer                                                            *)
LEMMA ArmTimerTidy ==
  ASSUME Base, Tidy, ArmTimer
  PROVE  Tidy'
<1>1. Types /\ call.pc = "arm"  BY DEF Base, ArmTimer
<1>2. PICK f \in DevFilters : f = call.f  BY <1>1, Caller
<1>3. dmx' = dmx /\ past' = past /\ mode' = mode /\ opened' = opened /\ filter' = filter
      /\ call' = [call EXCEPT !.pc = "go"]
  BY DEF ArmTimer
<1>4. "go" \in Stages  BY DEF Stages
<1>5. call'.pc = "go" /\ call'.f = f  BY <1>1, <1>2, <1>3, <1>4, Moved
<1>6. OneFilter(filter, filter', f) /\ SameOwner(filter, filter', f)  BY <1>3, SameFilter
<1>7. Holding' = Holding  BY <1>1, <1>2, <1>3, <1>5, HoldingIs DEF Owning
<1>8. Worked' = Worked /\ Nameless' = Nameless  BY <1>1, <1>5 DEF Worked, Nameless
<1>9. filter[f].state = "SET"  BY <1>1, <1>2 DEF Tidy, StageInv
<1>10. StageInv'  BY <1>3, <1>5, <1>9 DEF StageInv
<1>11. SetInv' /\ OpenInv'  BY <1>3 DEF Tidy, SetInv, OpenInv
<1>. QED  BY <1>3, <1>6, <1>7, <1>8, <1>10, <1>11, KeepTidy

(* The end of filter_start: the filter that has the feed is started.       *)
LEMMA GoTidy ==
  ASSUME Base, Tidy, Go
  PROVE  Tidy'
<1>1. Types /\ call.pc = "go" /\ filter \in [DevFilters -> DevFilter]  BY DEF Base, Go, Types
<1>2. PICK f \in DevFilters : f = call.f  BY <1>1, Caller
<1>3. dmx' = dmx /\ past' = past /\ mode' = mode /\ opened' = opened /\ call'.pc = "idle"
  BY IdlePc DEF Go
<1>4. filter' = WithState(filter, f, "GO")  BY <1>2 DEF Go, WithState
<1>5. OneFilter(filter, filter', f) /\ filter'[f].state = "GO" /\ SameOwner(filter, filter', f)
  BY <1>1, <1>4, SetState
<1>6. Holding' = Holding
  <2>1. f \in Act(filter')  BY <1>5 DEF Act
  <2>2. Act(filter') = Act(filter) \cup {f}  BY <1>5, <2>1, ActStep
  <2>3. call.pc \in Owning /\ call'.pc \notin Owning  BY <1>1, <1>3 DEF Owning
  <2>. QED  BY <1>2, <2>2, <2>3, HoldingIs
<1>7. Worked' = Worked /\ Nameless' = Nameless  BY <1>1, <1>3 DEF Worked, Nameless
<1>8. StageInv'  BY <1>3, RestStage
<1>9. SetInv'  BY <1>5, KeepSet
<1>10. f \in opened  BY <1>1, <1>2, Caller
<1>11. OpenInv'  BY <1>3, <1>5, <1>10, KeepOpen
<1>. QED  BY <1>3, <1>5, <1>6, <1>7, <1>8, <1>9, <1>11, KeepTidy

(* Steps of calls that change the demux                                    *)
LEMMA StopFeedTidy ==
  ASSUME Base, Tidy, StopFeed
  PROVE  Tidy'
<1>1. /\ Types /\ mode \in Modes /\ dmx \in Demux /\ Listed(dmx) /\ filter \in [DevFilters -> DevFilter]
      /\ call.pc \in {"feed_stop", "share_stop"}
  BY DEF Base, Types, StopFeed
<1>2. filter[call.f].feed \in 1 .. mode.feednum  BY <1>1, CallersFeed
<1>3. PICK d \in Demux, f \in DevFilters, i \in 1 .. mode.feednum : d = dmx /\ f = call.f /\ i = filter[f].feed
  BY <1>1, <1>2, Caller
<1>4. PICK s \in {"release", "get_filter"} : s = IF call.pc = "feed_stop" THEN "release" ELSE "get_filter"
  OBVIOUS
<1>5. /\ past' = past /\ mode' = mode /\ opened' = opened /\ filter' = filter
      /\ call' = [call EXCEPT !.pc = s]
      /\ dmx' = IF filter[f].par.type = "SEC" THEN section_stop_filtering(d, i) ELSE ts_stop_filtering(d, i)
  BY <1>3, <1>4 DEF StopFeed
<1>6. s \in Stages  BY DEF Stages
<1>7. call'.pc = s /\ call'.f = f /\ f \in opened  BY <1>1, <1>3, <1>5, <1>6, Moved
<1>8. PICK H : H = Holding  OBVIOUS
<1>9. Holding' = H
  <2>1. call.pc \in Owning <=> call'.pc \in Owning  BY <1>1, <1>4, <1>7 DEF Owning
  <2>. QED  BY <1>3, <1>5, <1>7, <1>8, <2>1, HoldingIs
<1>10. Live(d, filter, H, 0, 0) /\ Decoders(d, past.refused) /\ Listed(d)
  <2>1. Worked = 0 /\ Nameless = 0  BY <1>1 DEF Worked, Nameless
  <2>. QED  BY <1>1, <1>3, <1>8, <2>1 DEF Tidy
<1>11. i \in d.feed_list /\ i \in Used(d)
  <2>1. CASE call.pc = "feed_stop"
    <3>1. f \in Holding  BY <1>3, <2>1, HoldingIs DEF Owning
    <3>. QED  BY <1>3, <3>1, StartedServed
  <2>2. CASE call.pc = "share_stop"
    <3>1. i \in d.feed_list  BY <1>3, <2>2 DEF Tidy, StageInv
    <3>2. d.feed[i].state # "FREE"  BY <1>10, <3>1 DEF Listed
    <3>. QED  BY <3>1, <3>2, Tables
  <2>. QED  BY <1>1, <2>1, <2>2
<1>12. d.feed[i].state = "GO"
  <2>1. i \in DOMAIN d.feed /\ d.feed[i].state # "FREE"  BY <1>11, Tables
  <2>2. d.feed[i].state \in FeedStates
    <3>1. d.feed[i] \in FeedRec  BY DemuxFields
    <3>. QED  BY <3>1, FeedFields
  <2>3. i # 0  BY <1>1, Numbers
  <2>4. d.feed[i].state \notin {"ALLOCATED", "READY"}  BY <1>10, <2>1, <2>3 DEF Live, Runs
  <2>. QED  BY <2>1, <2>2, <2>4 DEF FeedStates
<1>13. PICK e : e = dmx'  OBVIOUS
<1>14. /\ e \in Demux /\ Only(d, e, i) /\ SameUse(e.feed[i], d.feed[i])
       /\ e.feed[i].state \in {"ALLOCATED", "READY"} /\ e.feed[i].filtering = FALSE
       /\ e.feeds = d.feeds - 1 /\ e.dma = (d.dma /\ d.feeds # 1)
  <2>1. CASE filter[f].par.type = "SEC"
    <3>1. e = section_stop_filtering(d, i)  BY <1>5, <1>13, <2>1
    <3>. QED  BY <3>1, SectionStopFacts
  <2>2. CASE filter[f].par.type # "SEC"
    <3>1. e = ts_stop_filtering(d, i)  BY <1>5, <1>13, <2>2
    <3>. QED  BY <1>12, <3>1, TsStopFacts
  <2>. QED  BY <2>1, <2>2
<1>15. Live(e, filter, H, i, 0)  BY <1>1, <1>10, <1>12, <1>14, Halt
<1>16. Worked' = i /\ Nameless' = 0  BY <1>3, <1>4, <1>5, <1>7 DEF Worked, Nameless
<1>17. Decoders(e, past.refused)
  <2>1. PICK r : r = past.refused  OBVIOUS
  <2>2. \A j \in 1 .. mode.feednum :
          (TsUsed(e, j) <=> TsUsed(d, j)) /\ (TsUsed(d, j) => e.feed[j].dec = d.feed[j].dec)
    <3>1. ASSUME NEW j \in 1 .. mode.feednum
          PROVE  (TsUsed(e, j) <=> TsUsed(d, j)) /\ (TsUsed(d, j) => e.feed[j].dec = d.feed[j].dec)
      <4>1. CASE j = i  BY <4>1, <1>12, <1>14 DEF TsUsed, SameUse
      <4>2. CASE j # i  BY <4>2, <1>14 DEF TsUsed, Only
      <4>. QED  BY <4>1, <4>2
    <3>. QED  BY <3>1
  <2>3. e.pesfilter = d.pesfilter  BY <1>14 DEF Only
  <2>. QED  BY <1>10, <1>14, <2>1, <2>2, <2>3, SameDecoders
<1>18. filter[f].state = "SET"  BY <1>1, <1>3 DEF Tidy, StageInv
<1>19. StageInv'
  <2>1. CASE s = "release"  BY <1>5, <1>7, <1>18, <2>1 DEF StageInv
  <2>2. CASE s = "get_filter"
    <3>1. call.pc = "share_stop"  BY <1>1, <1>4, <2>2
    <3>2. filter[f].mem /\ filter[f].par.type = "SEC" /\ i \in d.feed_list
          /\ d.feed[i].type = "SEC" /\ d.feed[i].pid = filter[f].par.pid
      BY <1>3, <3>1 DEF Tidy, StageInv
    <3>3. i \in e.feed_list /\ e.feed[i].type = "SEC" /\ e.feed[i].pid = filter[f].par.pid
      BY <1>14, <3>2 DEF Only, SameUse
    <3>. QED  BY <1>3, <1>5, <1>7, <1>13, <1>18, <2>2, <3>2, <3>3 DEF StageInv
  <2>. QED  BY <2>1, <2>2
<1>20. OneFilter(filter, filter', f) /\ (filter'[f].state = "SET" => filter'[f].par # NoParam)
  BY <1>5, SameFilter DEF Tidy, SetInv
<1>21. Live(dmx', filter', H, i, 0) /\ Decoders(dmx', past'.refused)  BY <1>5, <1>13, <1>15, <1>17
<1>. QED  BY <1>5, <1>7, <1>9, <1>16, <1>19, <1>20, <1>21, TidyStep

(* Two started filters of one PID have the same feed; a section feed of    *)
(* which nobody else is a user is empty.                                   *)
LEMMA OneFeed ==
  ASSUME NEW d \in Demux, Listed(d), NEW fs, NEW H, NEW w, NEW b, Live(d, fs, H, w, b),
         NEW i \in Used(d), d.feed[i].type = "SEC",
         NEW g \in H, fs[g].par.type = "SEC", fs[g].par.pid = d.feed[i].pid
  PROVE  fs[g].feed = i /\ d.feed[i].filters # << >>
<1>1. Served(d, fs, g, b)  BY DEF Live
<1>2. PICK j : j = fs[g].feed  OBVIOUS
<1>3. j \in Used(d)  BY <1>1, <1>2, ServedUsed
<1>4. d.feed[j].type = "SEC" /\ d.feed[j].pid = fs[g].par.pid /\ fs[g].sec \in Range(d.feed[j].filters)
  BY <1>1, <1>2 DEF Served
<1>5. j = i  BY <1>3, <1>4 DEF Live, SecFeeds
<1>6. d.feed[i].filters # << >>
  <2>1. Range(d.feed[i].filters) # {}  BY <1>4, <1>5
  <2>2. Range(<< >>) = {}  BY DEF Range
  <2>. QED  BY <2>1, <2>2
<1>. QED  BY <1>2, <1>5, <1>6

(* A section feed with filters has a started filter of its PID.            *)
LEMMA NobodyLeft ==
  ASSUME mode \in Modes, NEW d \in Demux, Listed(d), NEW fs, NEW H, NEW w, Live(d, fs, H, w, 0),
         NEW i \in Used(d), d.feed[i].type = "SEC", d.feed[i].filters # << >>
  PROVE  \E g \in H : fs[g].par.type = "SEC" /\ fs[g].par.pid = d.feed[i].pid
<1>1. i \in 1 .. mode.feednum  BY Tables
<1>2. d.feed[i].filters \in Seq(1 .. mode.filternum) /\ Range(d.feed[i].filters) \subseteq 1 .. mode.filternum
  BY <1>1, FeedLists
<1>3. PICK k \in Range(d.feed[i].filters) : TRUE
  <2>1. PICK q : q = d.feed[i].filters  OBVIOUS
  <2>2. q \in Seq(1 .. mode.filternum) /\ q # << >>  BY <1>2, <2>1
  <2>3. 1 \in DOMAIN q  BY <2>2
  <2>4. q[1] \in Range(q)  BY <2>3 DEF Range
  <2>. QED  BY <2>1, <2>4
<1>4. k # 0  BY <1>2, <1>3, Numbers
<1>5. k \in Range(d.feed[i].filters) \ {0}  BY <1>3, <1>4
<1>6. PICK g : g = d.filter[k].priv  OBVIOUS
<1>7. g \in H /\ fs[g].par.type = "SEC" /\ fs[g].feed = i  BY <1>5, <1>6 DEF Live, SecFeeds
<1>8. Served(d, fs, g, 0)  BY <1>7 DEF Live
<1>9. d.feed[i].pid = fs[g].par.pid  BY <1>7, <1>8 DEF Served
<1>. QED  BY <1>7, <1>9

(* A section feed that can be started is started.                          *)
LEMMA StartOne ==
  ASSUME mode \in Modes, NEW d \in Demux, Listed(d), NEW fs, NEW H, NEW i \in 1 .. mode.feednum,
         Live(d, fs, H, i, 0), d.feed[i].filters # << >>, NEW e, e = TryStart(d, i)
  PROVE  /\ e \in Demux /\ Live(e, fs, H, 0, 0) /\ e.feed[i].state = "GO" /\ CanStartSection(d, i)
         /\ Only(d, e, i) /\ SameUse(e.feed[i], d.feed[i])
<1>1. d.feed[i].filtering = FALSE
  <2>1. i \in DOMAIN d.feed  BY Tables
  <2>2. d.feed[i].state \in {"ALLOCATED", "READY"}  BY <2>1 DEF Live, Runs
  <2>3. d.feed[i].filtering <=> d.feed[i].state = "GO"  BY <2>1 DEF Live, Runs
  <2>4. d.feed[i].filtering \in BOOLEAN
    <3>1. d.feed[i] \in FeedRec  BY DemuxFields
    <3>. QED  BY <3>1, FeedFields
  <2>. QED  BY <2>2, <2>3, <2>4
<1>2. d.frontend # "none"  BY DemuxFields
<1>3. CanStartSection(d, i)  BY <1>1, <1>2 DEF CanStartSection
<1>4. e = start_filtering(d, i)  BY <1>3 DEF TryStart
<1>5. /\ e \in Demux /\ Only(d, e, i) /\ SameUse(e.feed[i], d.feed[i])
      /\ e.feed[i].state = "GO" /\ e.feed[i].filtering = TRUE
      /\ e.feeds = d.feeds + 1 /\ e.dma = (d.dma \/ d.feeds = 0)
  BY <1>4, StartFacts
<1>6. Live(e, fs, H, 0, 0)  BY <1>5, Resume
<1>. QED  BY <1>3, <1>5, <1>6

(* Feeds of sections have no part in the decoder streams.                  *)
LEMMA SectionDecoders ==
  ASSUME NEW d \in Demux, NEW e \in Demux, NEW r, Decoders(d, r), NEW i \in 1 .. mode.feednum,
         Others(d, e, i), e.pesfilter = d.pesfilter,
         d.feed[i].type = "SEC" \/ d.feed[i].state = "FREE",
         e.feed[i].type = "SEC" \/ e.feed[i].state = "FREE"
  PROVE  Decoders(e, r)
<1>1. ASSUME NEW j \in 1 .. mode.feednum
      PROVE  (TsUsed(e, j) <=> TsUsed(d, j)) /\ (TsUsed(d, j) => e.feed[j].dec = d.feed[j].dec)
  <2>1. CASE j = i  BY <2>1 DEF TsUsed
  <2>2. CASE j # i  BY <2>2 DEF TsUsed, Others
  <2>. QED  BY <2>1, <2>2
<1>. QED  BY <1>1, SameDecoders

(* dvb_dmxdev_feed_restart keeps a feed as long as it has a started user,  *)
(* and gives it back with the last one.                                    *)
LEMMA RestartLive ==
  ASSUME Base, NEW d \in Demux, Listed(d), NEW f \in DevFilters, NEW i \in 1 .. mode.feednum,
         Live(d, filter, Act(filter), i, 0), NEW r, Decoders(d, r),
         f \notin Act(filter), filter[f].feed = i, d.feed[i].type = "SEC",
         d.feed[i].pid = filter[f].par.pid, NEW then, FeedRestart(d, f, filter, then)
  PROVE  /\ call' = then /\ dmx' \in Demux
         /\ Live(dmx', filter', Act(filter), 0, 0) /\ Decoders(dmx', r)
         /\ Act(filter') = Act(filter)
         /\ \A g \in DevFilters :
              /\ SameOwner(filter, filter', g)
              /\ filter'[g].state = filter[g].state \/ (g \in Act(filter) /\ g \in Act(filter'))
         /\ dmx'.feed[i].state = "GO" \/ (dmx'.feed[i].state = "FREE" /\ dmx'.feed[i].filters = << >>)
<1>1. mode \in Modes /\ filter \in [DevFilters -> DevFilter]  BY DEF Base, Types
<1>2. PICK H : H = Act(filter)  OBVIOUS
<1>3. PICK pid : pid = filter[f].par.pid  OBVIOUS
<1>4. PICK S : S = Sharing(pid)  OBVIOUS
<1>5. S = {g \in H : filter[g].par.type = "SEC" /\ filter[g].par.pid = pid}
  BY <1>2, <1>4 DEF Sharing, Act, Active
<1>6. Live(d, filter, H, i, 0)  BY <1>2
<1>7. i \in Used(d) /\ d.feed[i].state # "FREE"
  <2>1. i \in DOMAIN d.feed  BY Tables
  <2>2. d.feed[i].state \in {"ALLOCATED", "READY"}  BY <1>6, <2>1 DEF Live, Runs
  <2>. QED  BY <2>2, Tables
<1>8. CASE S = {}
  <2>1. dmx' = release_section_feed(d, i) /\ filter' = filter /\ call' = then
    BY <1>3, <1>4, <1>8 DEF FeedRestart
  <2>2. d.feed[i].filters = << >>
    <3>1. SUFFICES ASSUME d.feed[i].filters # << >>  PROVE  FALSE  OBVIOUS
    <3>2. \E g \in H : filter[g].par.type = "SEC" /\ filter[g].par.pid = d.feed[i].pid
      BY <1>1, <1>6, <1>7, <3>1, NobodyLeft
    <3>. QED  BY <1>3, <1>5, <1>8, <3>2
  <2>3. PICK e : e = dmx'  OBVIOUS
  <2>4. /\ e \in Demux /\ Others(d, e, i) /\ SameCard(d, e)
        /\ e.feed[i].state = "FREE" /\ e.feed[i].filters = d.feed[i].filters
        /\ e.feed[i].filtering = d.feed[i].filtering
        /\ e.filter = d.filter /\ e.feed_list = d.feed_list \ {i} /\ e.pesfilter = d.pesfilter
    BY <1>1, <1>7, <2>1, <2>3, ReleaseSectionFacts
  <2>5. Live(e, filter, H, 0, 0)  BY <1>1, <1>6, <2>2, <2>4, DropFeed
  <2>6. Decoders(e, r)  BY <2>4, SectionDecoders
  <2>7. \A g \in DevFilters : SameOwner(filter, filter', g) /\ filter'[g].state = filter[g].state
    BY <2>1 DEF SameOwner
  <2>8. Live(dmx', filter', Act(filter), 0, 0) /\ Decoders(dmx', r) /\ Act(filter') = Act(filter)
    BY <1>2, <2>1, <2>3, <2>5, <2>6
  <2>9. dmx' \in Demux /\ dmx'.feed[i].state = "FREE" /\ dmx'.feed[i].filters = << >>
    BY <2>2, <2>3, <2>4
  <2>. QED  BY <2>1, <2>7, <2>8, <2>9
<1>9. CASE S # {}
  <2>1. PICK g \in DevFilters : g = Min(S) /\ g \in S  BY <1>1, <1>4, <1>9, SharingFirst
  <2>2. g \in H /\ filter[g].par.type = "SEC" /\ filter[g].par.pid = d.feed[i].pid
    BY <1>3, <1>5, <2>1
  <2>3. filter[g].feed = i /\ d.feed[i].filters # << >>  BY <1>6, <1>7, <2>2, OneFeed
  <2>4. i # 0  BY <1>1, Numbers
  <2>5. filter' = WithState(filter, g, "GO") /\ dmx' = TryStart(d, i) /\ call' = then
    BY <1>3, <1>4, <1>9, <2>1, <2>3, <2>4 DEF FeedRestart, WithState
  <2>6. /\ OneFilter(filter, filter', g) /\ filter'[g].state = "GO"
        /\ \A h \in DevFilters : SameOwner(filter, filter', h)
    BY <1>1, <2>5, SetState
  <2>7. Act(filter') = H
    <3>1. g \in Act(filter')  BY <2>6 DEF Act
    <3>. QED  BY <1>2, <2>2, <2>6, <3>1, ActStep
  <2>8. PICK e : e = dmx'  OBVIOUS
  <2>9. /\ e \in Demux /\ Live(e, filter, H, 0, 0) /\ e.feed[i].state = "GO"
        /\ Only(d, e, i) /\ SameUse(e.feed[i], d.feed[i])
    BY <1>1, <1>6, <2>3, <2>5, <2>8, StartOne
  <2>10. Decoders(e, r)
    <3>1. Others(d, e, i) /\ e.pesfilter = d.pesfilter /\ e.feed[i].type = "SEC"
      BY <2>9 DEF Only, Others, SameUse
    <3>. QED  BY <2>9, <3>1, SectionDecoders
  <2>11. Live(e, filter', H, 0, 0)
    <3>1. PICK gs : gs = filter'  OBVIOUS
    <3>2. \A h \in H : SameOwner(filter, gs, h)  BY <1>2, <2>6, <3>1 DEF Act
    <3>3. Live(e, gs, H, 0, 0)  BY <2>9, <3>2, LiveSame
    <3>. QED  BY <3>1, <3>3
  <2>12. \A h \in DevFilters : filter'[h].state = filter[h].state \/ (h \in Act(filter) /\ h \in Act(filter'))
    BY <1>2, <2>2, <2>6, <2>7 DEF OneFilter
  <2>13. Live(dmx', filter', Act(filter), 0, 0) /\ Decoders(dmx', r) /\ Act(filter') = Act(filter)
    BY <1>2, <2>7, <2>8, <2>10, <2>11
  <2>. QED  BY <2>5, <2>6, <2>8, <2>9, <2>12, <2>13
<1>. QED  BY <1>8, <1>9

(* The parts of the invariant in the next state.                           *)
LEMMA TidyNext ==
  ASSUME NEW H, NEW w, NEW b, H = Holding', w = Worked', b = Nameless',
         Live(dmx', filter', H, w, b), Decoders(dmx', past'.refused), StageInv', SetInv', OpenInv'
  PROVE  Tidy'
<1>1. Live(dmx, filter, Holding, Worked, Nameless)'  OBVIOUS
<1>2. Decoders(dmx, past.refused)'  OBVIOUS
<1>. QED  BY <1>1, <1>2 DEF Tidy

(* feed_restart starts no filter that was stopped.                         *)
LEMMA RestartRest ==
  ASSUME Tidy, mode' = mode, opened' = opened,
         \A g \in DevFilters :
           /\ SameOwner(filter, filter', g)
           /\ filter'[g].state = filter[g].state \/ (g \in Act(filter) /\ g \in Act(filter'))
  PROVE  SetInv' /\ OpenInv'
<1>1. SetInv'
  <2>1. ASSUME NEW g \in DevFilters, filter'[g].state = "SET"  PROVE  filter'[g].par # NoParam
    <3>1. filter[g].state = "SET" /\ filter'[g].par = filter[g].par  BY <2>1 DEF Act, SameOwner
    <3>. QED  BY <3>1 DEF Tidy, SetInv
  <2>. QED  BY <2>1 DEF SetInv
<1>2. OpenInv'
  <2>1. ASSUME NEW g \in DevFilters \ opened, filter[g].state = "FREE"  PROVE  filter'[g].state = "FREE"
    BY <2>1 DEF Act
  <2>. QED  BY <2>1 DEF Tidy, OpenInv
<1>. QED  BY <1>1, <1>2

(* The releases of filter_stop: the feed is restarted for those who share  *)
(* it, or freed.                                                           *)
LEMMA ReleaseTidy ==
  ASSUME Base, Tidy, Release
  PROVE  Tidy'
<1>1. /\ mode \in Modes /\ Types /\ call.f \in DevFilters /\ dmx \in Demux
      /\ filter \in [DevFilters -> DevFilter] /\ filter[call.f].feed \in 1 .. mode.feednum
      /\ filter[call.f].sec \in 0 .. mode.filternum
  BY CallersFeed DEF Release
<1>2. PICK d \in Demux, f \in DevFilters, i \in 1 .. mode.feednum, k \in 0 .. mode.filternum :
        d = dmx /\ f = call.f /\ i = filter[f].feed /\ k = filter[f].sec
  BY <1>1
<1>3. past' = past /\ mode' = mode /\ opened' = opened /\ call.pc = "release"  BY DEF Release
<1>4. filter[f].state = "SET" /\ f \notin Act(filter)  BY <1>2, <1>3 DEF Tidy, StageInv, Act
<1>5. PICK H : H = Holding  OBVIOUS
<1>6. H = Act(filter) \cup {f} /\ H \ {f} = Act(filter) /\ f \in H
  BY <1>2, <1>3, <1>4, <1>5, HoldingIs DEF Owning
<1>7. Live(d, filter, H, i, 0) /\ Decoders(d, past.refused) /\ Listed(d)
  <2>1. Worked = i /\ Nameless = 0  BY <1>2, <1>3 DEF Worked, Nameless
  <2>. QED  BY <1>2, <1>5, <2>1 DEF Tidy, Base
<1>8. Served(d, filter, f, 0)  BY <1>6, <1>7 DEF Live
<1>9. i \in Used(d) /\ i \in DOMAIN d.feed /\ d.feed[i].state \in {"ALLOCATED", "READY"}
  <2>1. i \in DOMAIN d.feed  BY Tables
  <2>2. d.feed[i].state \in {"ALLOCATED", "READY"}  BY <1>7, <2>1 DEF Live, Runs
  <2>. QED  BY <2>1, <2>2, Tables
<1>10. "stopped" \in Stages  BY DEF Stages
<1>11. ASSUME call' = [call EXCEPT !.pc = "stopped"], filter'[f].state = "SET", Act(filter') = Act(filter)
       PROVE  StageInv' /\ Worked' = 0 /\ Nameless' = 0 /\ Holding' = Act(filter)
  <2>1. call'.pc = "stopped" /\ call'.f = f  BY <1>1, <1>2, <1>3, <1>10, <1>11, Moved
  <2>2. StageInv'  BY <1>11, <2>1 DEF StageInv
  <2>3. Holding' = Act(filter)  BY <1>11, <2>1, HoldingIs DEF Owning
  <2>. QED  BY <2>1, <2>2, <2>3 DEF Worked, Nameless
<1>12. CASE filter[f].par.type = "SEC"
  <2>1. /\ d.feed[i].type = "SEC" /\ d.feed[i].pid = filter[f].par.pid
        /\ k \in Range(d.feed[i].filters) /\ k # 0
    BY <1>2, <1>8, <1>12 DEF Served
  <2>2. k \in 1 .. mode.filternum  BY <1>1, <2>1, Numbers
  <2>3. d.filter[k].feed = i  BY <1>7, <1>9, <2>1 DEF Live, Lists
  <2>4. ~ReleaseHangs(d, i, k) /\ ~ReleaseOops(d, i, k)
    <3>1. ~d.feed[i].filtering  BY <1>7, <1>9 DEF Live, Runs
    <3>. QED  BY <2>1, <3>1 DEF ReleaseHangs, ReleaseOops
  <2>5. PICK a : a = release_filter(d, i, k)  OBVIOUS
  <2>6. /\ a \in Demux /\ Others(d, a, i) /\ SameCard(d, a)
        /\ SameSetting(a.feed[i], d.feed[i]) /\ a.feed[i].filters = RemoveFirst(d.feed[i].filters, k)
        /\ a.feed_list = d.feed_list /\ a.pesfilter = d.pesfilter
        /\ (\A j \in 1 .. mode.filternum : j # k => a.filter[j] = d.filter[j])
        /\ a.filter[k] = NoFilter
    BY <1>1, <2>2, <2>3, <2>5, ReleaseFilterFacts
  <2>7. Listed(a)  BY <1>1, <1>7, <2>2, <2>5, ReleaseFilterBase
  <2>8. Live(a, filter, Act(filter), i, 0)
    <3>1. Live(a, filter, H \ {f}, i, 0)  BY <1>1, <1>2, <1>6, <1>7, <1>12, <2>2, <2>6, DropFilter
    <3>. QED  BY <1>6, <3>1
  <2>9. a.feed[i].type = "SEC" /\ a.feed[i].pid = filter[f].par.pid  BY <2>1, <2>6 DEF SameSetting
  <2>10. Decoders(a, past.refused)
    <3>1. PICK r : r = past.refused  OBVIOUS
    <3>2. Decoders(a, r)  BY <1>7, <2>1, <2>6, <2>9, <3>1, SectionDecoders
    <3>. QED  BY <3>1, <3>2
  <2>11. FeedRestart(a, f, filter, [call EXCEPT !.pc = "stopped"])
    BY <1>2, <1>12, <2>1, <2>4, <2>5 DEF Release
  <2>12. /\ call' = [call EXCEPT !.pc = "stopped"]
         /\ Live(dmx', filter', Act(filter), 0, 0) /\ Decoders(dmx', past.refused)
         /\ Act(filter') = Act(filter)
         /\ \A g \in DevFilters :
              /\ SameOwner(filter, filter', g)
              /\ filter'[g].state = filter[g].state \/ (g \in Act(filter) /\ g \in Act(filter'))
    <3>1. PICK r, then : r = past.refused /\ then = [call EXCEPT !.pc = "stopped"]  OBVIOUS
    <3>2. FeedRestart(a, f, filter, then) /\ Decoders(a, r)  BY <2>10, <2>11, <3>1
    <3>3. PICK c \in Demux : c = a  BY <2>6
    <3>4. /\ FeedRestart(c, f, filter, then) /\ Decoders(c, r) /\ Listed(c)
          /\ Live(c, filter, Act(filter), i, 0)
          /\ c.feed[i].type = "SEC" /\ c.feed[i].pid = filter[f].par.pid
      BY <2>7, <2>8, <2>9, <3>2, <3>3
    <3>5. /\ call' = then
          /\ Live(dmx', filter', Act(filter), 0, 0) /\ Decoders(dmx', r)
          /\ Act(filter') = Act(filter)
          /\ \A g \in DevFilters :
               /\ SameOwner(filter, filter', g)
               /\ filter'[g].state = filter[g].state \/ (g \in Act(filter) /\ g \in Act(filter'))
      BY <1>2, <1>4, <3>4, RestartLive
    <3>. QED  BY <3>1, <3>5
  <2>13. SetInv' /\ OpenInv'  BY <1>3, <2>12, RestartRest
  <2>14. filter'[f].state = "SET"  BY <1>4, <2>12
  <2>15. StageInv' /\ Worked' = 0 /\ Nameless' = 0 /\ Holding' = Act(filter)  BY <1>11, <2>12, <2>14
  <2>. QED  BY <1>3, <2>12, <2>13, <2>15, TidyNext
<1>13. CASE filter[f].par.type # "SEC"
  <2>1. d.feed[i].type = "TS" /\ d.feed[i].priv = f  BY <1>2, <1>8, <1>13 DEF Served
  <2>2. Len(d.feed[i].filters) = 1  BY <1>7, <1>9, <2>1 DEF Live, TsFeeds
  <2>3. ~TsReleaseOops(d, i)
    <3>1. Len(<< >>) = 0  OBVIOUS
    <3>2. d.feed[i].filters # << >>
      <4>1. PICK q : q = d.feed[i].filters  OBVIOUS
      <4>2. Len(q) = 1  BY <2>2, <4>1
      <4>3. 0 # 1  OBVIOUS
      <4>4. q # << >>  BY <3>1, <4>2, <4>3, Zenon
      <4>. QED  BY <4>1, <4>4
    <3>. QED  BY <3>2 DEF TsReleaseOops
  <2>4. dmx' = release_ts_feed(d, i) /\ filter' = filter /\ call' = [call EXCEPT !.pc = "stopped"]
    BY <1>2, <1>13, <2>3 DEF Release
  <2>5. PICK e : e = dmx'  OBVIOUS
  <2>6. /\ e \in Demux /\ Others(d, e, i) /\ SameCard(d, e)
        /\ e.feed[i].state = "FREE" /\ e.feed[i].filtering = d.feed[i].filtering
        /\ e.feed_list = d.feed_list \ {i}
        /\ (\A p \in Pes : e.pesfilter[p] = IF p = d.feed[i].dec THEN 0 ELSE d.pesfilter[p])
        /\ \A j \in 1 .. mode.filternum :
             e.filter[j] = IF j = Head(d.feed[i].filters) THEN NoFilter ELSE d.filter[j]
    BY <1>1, <1>9, <2>4, <2>5, ReleaseTsFacts
  <2>7. Live(e, filter, Act(filter), 0, 0)
    <3>1. Live(e, filter, H \ {f}, 0, 0)  BY <1>1, <1>7, <2>1, <2>6, DropTs
    <3>. QED  BY <1>6, <3>1
  <2>8. Decoders(e, past.refused)
    <3>1. PICK r : r = past.refused  OBVIOUS
    <3>2. TsUsed(d, i)  BY <1>9, <2>1 DEF TsUsed
    <3>3. Decoders(e, r)  BY <1>7, <2>6, <3>1, <3>2, DropDecoder
    <3>. QED  BY <3>1, <3>3
  <2>9. StageInv' /\ Worked' = 0 /\ Nameless' = 0 /\ Holding' = Act(filter)  BY <1>4, <1>11, <2>4
  <2>10. SetInv' /\ OpenInv'  BY <1>3, <2>4 DEF Tidy, SetInv, OpenInv
  <2>. QED  BY <1>3, <2>4, <2>5, <2>7, <2>8, <2>9, <2>10, TidyNext
<1>. QED  BY <1>12, <1>13

(* allocate_filter, and feed_restart when it fails.                        *)
LEMMA GetFilterTidy ==
  ASSUME Base, Tidy, GetFilter
  PROVE  Tidy'
<1>1. /\ mode \in Modes /\ Types /\ call.f \in DevFilters /\ dmx \in Demux
      /\ filter \in [DevFilters -> DevFilter] /\ filter[call.f].feed \in 1 .. mode.feednum
  BY CallersFeed DEF GetFilter
<1>2. PICK d \in Demux, f \in DevFilters, i \in 1 .. mode.feednum :
        d = dmx /\ f = call.f /\ i = filter[f].feed
  BY <1>1
<1>3. past' = past /\ mode' = mode /\ opened' = opened /\ call.pc = "get_filter"  BY DEF GetFilter
<1>4. filter[f].state = "SET" /\ f \notin Act(filter)  BY <1>2, <1>3 DEF Tidy, StageInv, Act
<1>5. /\ filter[f].mem /\ filter[f].par.type = "SEC" /\ i \in d.feed_list
      /\ d.feed[i].type = "SEC" /\ d.feed[i].pid = filter[f].par.pid
  BY <1>2, <1>3 DEF Tidy, StageInv
<1>6. Live(d, filter, Act(filter), i, 0) /\ Decoders(d, past.refused) /\ Listed(d)
  <2>1. Worked = i /\ Nameless = 0  BY <1>2, <1>3 DEF Worked, Nameless
  <2>2. Holding = Act(filter)  BY <1>3, HoldingIs DEF Owning
  <2>. QED  BY <1>2, <2>1, <2>2 DEF Tidy, Base
<1>7. CASE CanAllocateFilter(d)
  <2>1. FreeFilters(d) # {}  BY <1>7 DEF CanAllocateFilter
  <2>2. PICK k \in 1 .. mode.filternum : k = filter_alloc(d) /\ d.filter[k].free  BY <1>1, <2>1, FilterAlloc
  <2>3. dmx' = allocate_filter(d, i) /\ filter' = WithSec(filter, f, k)
        /\ call' = [call EXCEPT !.pc = "start_filtering"]
    BY <1>2, <1>7, <2>2 DEF GetFilter, WithSec
  <2>4. PICK e, gs : e = dmx' /\ gs = filter'  OBVIOUS
  <2>5. /\ e \in Demux /\ Others(d, e, i) /\ SameCard(d, e)
        /\ SameSetting(e.feed[i], d.feed[i]) /\ e.feed[i].filters = <<k>> \o d.feed[i].filters
        /\ e.feed_list = d.feed_list /\ e.pesfilter = d.pesfilter
    BY <1>1, <2>1, <2>2, <2>3, <2>4, AllocateFilterFacts
  <2>60. OtherFilters(d, e, k)
    <3>1. \A j \in 1 .. mode.filternum :
            j # filter_alloc(d) => allocate_filter(d, i).filter[j] = d.filter[j]
      BY <1>1, <2>1, AllocateFilterFacts
    <3>2. OtherFilters(d, allocate_filter(d, i), filter_alloc(d))  BY <3>1 DEF OtherFilters
    <3>. QED  BY <2>2, <2>3, <2>4, <3>2
  <2>61. e.filter[k].free = FALSE /\ e.filter[k].feed = i
    BY <1>1, <2>1, <2>2, <2>3, <2>4, AllocateFilterFacts
  <2>6. ~e.filter[k].free  BY <2>61
  <2>7. PICK H : H = Act(filter)  OBVIOUS
  <2>8. Live(e, filter, H, i, k) /\ Range(e.feed[i].filters) = {k} \cup Range(d.feed[i].filters)
    <3>1. Live(d, filter, H, i, 0)  BY <1>6, <2>7
    <3>2. PICK c \in Demux : c = e  BY <2>5
    <3>3. /\ Others(d, c, i) /\ SameCard(d, c) /\ SameSetting(c.feed[i], d.feed[i])
          /\ HeadAdded(d, c, i, k) /\ c.feed_list = d.feed_list
      BY <2>5, <3>2 DEF HeadAdded
    <3>4. OtherFilters(d, c, k) /\ ~c.filter[k].free /\ c.filter[k].feed = i
      BY <2>6, <2>60, <2>61, <3>2
    <3>50. Listed(d) /\ d.feed[i].type = "SEC" /\ d.filter[k].free /\ mode \in Modes
      BY <1>1, <1>5, <1>6, <2>2
    <3>5. PICK fs : fs = filter  OBVIOUS
    <3>6. Live(d, fs, H, i, 0)  BY <3>1, <3>5
    <3>7. Live(c, fs, H, i, k) /\ Range(c.feed[i].filters) = {k} \cup Range(d.feed[i].filters)
      BY <3>3, <3>4, <3>50, <3>6, NewEntry
    <3>. QED  BY <3>2, <3>5, <3>7
  <2>9. k \in 0 .. mode.filternum  BY <1>1, Numbers
  <2>10. /\ OneFilter(filter, gs, f) /\ gs[f].sec = k /\ gs[f].feed = i
         /\ gs[f].state = filter[f].state /\ gs[f].par = filter[f].par /\ gs[f].mem = filter[f].mem
    BY <1>1, <1>2, <2>3, <2>4, <2>9, SetSec
  <2>11. Act(gs) = H /\ \A g \in H : SameOwner(filter, gs, g)
    <3>1. f \notin Act(gs)  BY <1>4, <2>10 DEF Act
    <3>. QED  BY <1>4, <2>7, <2>10, <3>1, ActStep
  <2>12. Live(e, gs, H, i, k)  BY <2>5, <2>8, <2>11, LiveSame
  <2>13. Decoders(e, past.refused)
    <3>1. PICK r : r = past.refused  OBVIOUS
    <3>2. e.feed[i].type = "SEC"  BY <1>5, <2>5 DEF SameSetting
    <3>3. Decoders(e, r)  BY <1>5, <1>6, <2>5, <3>1, <3>2, SectionDecoders
    <3>. QED  BY <3>1, <3>3
  <2>14. "start_filtering" \in Stages  BY DEF Stages
  <2>15. call'.pc = "start_filtering" /\ call'.f = f /\ f \in opened
    BY <1>1, <1>2, <1>3, <2>3, <2>14, Moved
  <2>16. H = Holding' /\ i = Worked' /\ k = Nameless'
    BY <2>4, <2>10, <2>11, <2>15, HoldingIs DEF Worked, Nameless, Owning
  <2>17. StageInv'
    <3>1. i \in e.feed_list /\ e.feed[i].type = "SEC" /\ e.feed[i].pid = filter[f].par.pid
      BY <1>5, <2>5 DEF SameSetting
    <3>2. k \in Range(e.feed[i].filters)  BY <2>8
    <3>. QED  BY <1>4, <1>5, <2>4, <2>10, <2>15, <3>1, <3>2 DEF StageInv
  <2>18. filter'[f].state = "SET" => filter'[f].par # NoParam  BY <2>4, <2>10 DEF Tidy, SetInv
  <2>19. Live(dmx', filter', H, i, k) /\ Decoders(dmx', past'.refused) /\ OneFilter(filter, filter', f)
    BY <1>3, <2>4, <2>10, <2>12, <2>13
  <2>. QED  BY <1>3, <2>15, <2>16, <2>17, <2>18, <2>19, TidyStep
<1>8. CASE ~CanAllocateFilter(d)
  <2>1. FeedRestart(d, f, filter, [call EXCEPT !.pc = "retry"])  BY <1>2, <1>8 DEF GetFilter
  <2>2. PICK r, then : r = past.refused /\ then = [call EXCEPT !.pc = "retry"]  OBVIOUS
  <2>3. FeedRestart(d, f, filter, then) /\ Decoders(d, r)  BY <1>6, <2>1, <2>2
  <2>4. /\ call' = then /\ dmx' \in Demux
        /\ Live(dmx', filter', Act(filter), 0, 0) /\ Decoders(dmx', r)
        /\ Act(filter') = Act(filter)
        /\ \A g \in DevFilters :
             /\ SameOwner(filter, filter', g)
             /\ filter'[g].state = filter[g].state \/ (g \in Act(filter) /\ g \in Act(filter'))
        /\ dmx'.feed[i].state = "GO" \/ (dmx'.feed[i].state = "FREE" /\ dmx'.feed[i].filters = << >>)
    BY <1>2, <1>4, <1>5, <1>6, <2>3, RestartLive
  <2>5. SetInv' /\ OpenInv'  BY <1>3, <2>4, RestartRest
  <2>6. "retry" \in Stages  BY DEF Stages
  <2>7. call'.pc = "retry" /\ call'.f = f  BY <1>1, <1>2, <1>3, <2>2, <2>4, <2>6, Moved
  <2>8. filter'[f].state = "SET" /\ filter'[f].feed = i  BY <1>2, <1>4, <2>4 DEF SameOwner
  <2>9. i \in DOMAIN dmx'.feed
    <3>1. PICK e \in Demux : e = dmx'  BY <2>4
    <3>2. DOMAIN e.feed = 1 .. mode.feednum  BY Tables
    <3>. QED  BY <3>1, <3>2
  <2>10. StageInv'  BY <2>4, <2>7, <2>8, <2>9 DEF StageInv
  <2>11. Act(filter) = Holding' /\ Worked' = 0 /\ Nameless' = 0
    BY <2>4, <2>7, HoldingIs DEF Worked, Nameless, Owning
  <2>. QED  BY <1>3, <2>2, <2>4, <2>5, <2>10, <2>11, TidyNext
<1>. QED  BY <1>7, <1>8

(* After that failure the feed is running or free: the second start does   *)
(* nothing.                                                                *)
LEMMA RetryTidy ==
  ASSUME Base, Tidy, Retry
  PROVE  Tidy'
<1>1. mode \in Modes /\ dmx \in Demux /\ filter[call.f].feed \in 1 .. mode.feednum /\ Types
  BY CallersFeed DEF Retry
<1>2. PICK d \in Demux, i \in 1 .. mode.feednum : d = dmx /\ i = filter[call.f].feed  BY <1>1
<1>3. past' = past /\ mode' = mode /\ opened' = opened /\ call.pc = "retry" /\ filter' = filter
      /\ call'.pc = "idle" /\ dmx' = TryStart(d, i)
  BY <1>2, IdlePc DEF Retry
<1>4. ~CanStartSection(d, i)
  <2>1. /\ i \in DOMAIN d.feed
        /\ d.feed[i].state = "GO" \/ (d.feed[i].state = "FREE" /\ d.feed[i].filters = << >>)
    BY <1>2, <1>3 DEF Tidy, StageInv
  <2>2. d.feed[i].filtering <=> d.feed[i].state = "GO"
    <3>1. Runs(d, Worked)  BY <1>2 DEF Tidy, Live
    <3>. QED  BY <2>1, <3>1 DEF Runs
  <2>. QED  BY <2>1, <2>2 DEF CanStartSection
<1>5. dmx' = dmx  BY <1>2, <1>3, <1>4 DEF TryStart
<1>6. PICK f \in DevFilters : f = call.f  BY <1>1, <1>3, Caller
<1>7. OneFilter(filter, filter', f) /\ SameOwner(filter, filter', f)  BY <1>3, SameFilter
<1>8. Holding' = Holding  BY <1>3, HoldingIs DEF Owning
<1>9. Worked' = Worked /\ Nameless' = Nameless  BY <1>3 DEF Worked, Nameless
<1>10. StageInv'  BY <1>3, RestStage
<1>11. SetInv' /\ OpenInv'  BY <1>3 DEF Tidy, SetInv, OpenInv
<1>. QED  BY <1>3, <1>5, <1>7, <1>8, <1>9, <1>10, <1>11, KeepTidy

(* The section filter gets its owner and its feed is started.              *)
LEMMA StartFilteringTidy ==
  ASSUME Base, Tidy, StartFiltering
  PROVE  Tidy'
<1>1. /\ mode \in Modes /\ Types /\ call.f \in DevFilters /\ dmx \in Demux
      /\ filter \in [DevFilters -> DevFilter] /\ filter[call.f].feed \in 1 .. mode.feednum
      /\ filter[call.f].sec \in 1 .. mode.filternum
  BY CallersFeed DEF StartFiltering
<1>2. PICK d \in Demux, f \in DevFilters, i \in 1 .. mode.feednum, k \in 1 .. mode.filternum :
        d = dmx /\ f = call.f /\ i = filter[f].feed /\ k = filter[f].sec
  BY <1>1
<1>3. past' = past /\ mode' = mode /\ opened' = opened /\ filter' = filter /\ call.pc = "start_filtering"
  BY DEF StartFiltering
<1>4. filter[f].state = "SET"  BY <1>2, <1>3 DEF Tidy, StageInv
<1>5. /\ filter[f].mem /\ filter[f].par.type = "SEC" /\ i \in d.feed_list
      /\ d.feed[i].type = "SEC" /\ d.feed[i].pid = filter[f].par.pid /\ k \in Range(d.feed[i].filters)
  BY <1>2, <1>3 DEF Tidy, StageInv
<1>6. PICK H : H = Act(filter)  OBVIOUS
<1>7. Live(d, filter, H, i, k) /\ Decoders(d, past.refused) /\ Listed(d)
  <2>1. Worked = i /\ Nameless = k  BY <1>2, <1>3 DEF Worked, Nameless
  <2>2. Holding = H  BY <1>3, <1>6, HoldingIs DEF Owning
  <2>. QED  BY <1>2, <2>1, <2>2 DEF Tidy, Base
<1>8. f \in 1 .. NDev  BY DEF DevFilters
<1>9. PICK a \in Demux : a = Named(d, k, f)  BY <1>1, <1>8, NamedFacts
<1>10. /\ a.feed = d.feed /\ SameCard(d, a) /\ a.feed_list = d.feed_list /\ a.pesfilter = d.pesfilter
  BY <1>1, <1>8, <1>9, NamedFacts
<1>11. /\ OtherFilters(d, a, k)
       /\ a.filter[k].free = d.filter[k].free /\ a.filter[k].feed = d.filter[k].feed /\ a.filter[k].priv = f
  <2>1. \A j \in 1 .. mode.filternum : j # k => Named(d, k, f).filter[j] = d.filter[j]
    BY <1>1, <1>8, NamedFacts
  <2>2. OtherFilters(d, Named(d, k, f), k)  BY <2>1 DEF OtherFilters
  <2>3. /\ a.filter[k].free = d.filter[k].free /\ a.filter[k].feed = d.filter[k].feed
        /\ a.filter[k].priv = f
    BY <1>1, <1>8, <1>9, NamedFacts
  <2>. QED  BY <1>9, <2>2, <2>3
<1>12. Live(a, filter, H \cup {f}, i, 0)
  <2>1. PICK fs : fs = filter  OBVIOUS
  <2>2. Live(d, fs, H, i, k) /\ Listed(d) /\ d.feed[i].type = "SEC" /\ k \in Range(d.feed[i].filters)
    BY <1>5, <1>7, <2>1
  <2>3. /\ fs[f].mem /\ fs[f].feed = i /\ fs[f].sec = k /\ fs[f].par.type = "SEC" /\ i \in d.feed_list
        /\ d.feed[i].pid = fs[f].par.pid
    BY <1>2, <1>5, <2>1
  <2>4. Live(a, fs, H \cup {f}, i, 0)  BY <1>1, <1>10, <1>11, <2>2, <2>3, NewOwner
  <2>. QED  BY <2>1, <2>4
<1>13. Listed(a)  BY <1>7, <1>10 DEF Listed
<1>14. a.feed[i].filters # << >>
  <2>1. Range(<< >>) = {}  BY DEF Range
  <2>. QED  BY <1>5, <1>10, <2>1
<1>15. PICK e : e = TryStart(a, i)  OBVIOUS
<1>16. /\ e \in Demux /\ Live(e, filter, H \cup {f}, 0, 0) /\ CanStartSection(a, i)
       /\ Only(a, e, i) /\ SameUse(e.feed[i], a.feed[i])
  <2>1. PICK G : G = H \cup {f}  OBVIOUS
  <2>2. Live(a, filter, G, i, 0)  BY <1>12, <2>1
  <2>3. /\ e \in Demux /\ Live(e, filter, G, 0, 0) /\ CanStartSection(a, i)
        /\ Only(a, e, i) /\ SameUse(e.feed[i], a.feed[i])
    BY <1>1, <1>13, <1>14, <1>15, <2>2, StartOne
  <2>. QED  BY <2>1, <2>3
<1>17. dmx' = e /\ call' = [call EXCEPT !.pc = "arm"]
  BY <1>2, <1>9, <1>15, <1>16 DEF StartFiltering, Named
<1>18. Decoders(e, past.refused)
  <2>1. PICK r : r = past.refused  OBVIOUS
  <2>2. Others(d, e, i) /\ e.pesfilter = d.pesfilter /\ e.feed[i].type = "SEC"
    BY <1>5, <1>10, <1>16 DEF Only, Others, SameUse
  <2>3. Decoders(e, r)  BY <1>5, <1>7, <1>16, <2>1, <2>2, SectionDecoders
  <2>. QED  BY <2>1, <2>3
<1>19. "arm" \in Stages  BY DEF Stages
<1>20. call'.pc = "arm" /\ call'.f = f  BY <1>1, <1>2, <1>3, <1>17, <1>19, Moved
<1>21. H \cup {f} = Holding' /\ Worked' = 0 /\ Nameless' = 0
  BY <1>3, <1>6, <1>20, HoldingIs DEF Worked, Nameless, Owning
<1>22. StageInv'  BY <1>3, <1>4, <1>5, <1>20 DEF StageInv
<1>23. SetInv' /\ OpenInv'  BY <1>3 DEF Tidy, SetInv, OpenInv
<1>24. Live(dmx', filter', H \cup {f}, 0, 0) /\ Decoders(dmx', past'.refused)
  BY <1>3, <1>16, <1>17, <1>18
<1>. QED  BY <1>21, <1>22, <1>23, <1>24, TidyNext

(* The transport stream feed is started.                                   *)
LEMMA StartTsTidy ==
  ASSUME Base, Tidy, StartTs
  PROVE  Tidy'
<1>1. /\ mode \in Modes /\ Types /\ call.f \in DevFilters /\ dmx \in Demux
      /\ filter \in [DevFilters -> DevFilter] /\ filter[call.f].feed \in 1 .. mode.feednum
  BY CallersFeed DEF StartTs
<1>2. PICK d \in Demux, f \in DevFilters, i \in 1 .. mode.feednum : d = dmx /\ f = call.f /\ i = filter[f].feed
  BY <1>1
<1>3. past' = past /\ mode' = mode /\ opened' = opened /\ filter' = filter /\ call.pc = "ts_start"
  BY DEF StartTs
<1>4. filter[f].state = "SET" /\ filter[f].par.type = "PES" /\ d.feed[i].state = "READY"
  BY <1>2, <1>3 DEF Tidy, StageInv
<1>5. PICK H : H = Holding  OBVIOUS
<1>6. f \in H  BY <1>2, <1>3, <1>5, HoldingIs DEF Owning
<1>7. Live(d, filter, H, i, 0) /\ Decoders(d, past.refused) /\ Listed(d)
  <2>1. Worked = i /\ Nameless = 0  BY <1>2, <1>3 DEF Worked, Nameless
  <2>. QED  BY <1>2, <1>5, <2>1 DEF Tidy, Base
<1>8. d.feed[i].type = "TS"
  <2>1. Served(d, filter, f, 0)  BY <1>6, <1>7 DEF Live
  <2>. QED  BY <1>2, <1>4, <2>1 DEF Served
<1>9. d.feed[i].filters # << >>
  <2>1. i \in Used(d)  BY <1>4, Tables
  <2>2. Len(d.feed[i].filters) = 1  BY <1>7, <1>8, <2>1 DEF Live, TsFeeds
  <2>3. Len(<< >>) = 0  OBVIOUS
  <2>. QED  BY <2>2, <2>3
<1>10. CanStartTs(d, i)  BY <1>4, <1>8, DemuxFields DEF CanStartTs
<1>11. PICK e : e = start_filtering(d, i)  OBVIOUS
<1>12. dmx' = e /\ call' = [call EXCEPT !.pc = "go"]  BY <1>2, <1>10, <1>11 DEF StartTs
<1>13. /\ e \in Demux /\ Only(d, e, i) /\ SameUse(e.feed[i], d.feed[i])
       /\ e.feed[i].state = "GO" /\ e.feed[i].filtering = TRUE
       /\ e.feeds = d.feeds + 1 /\ e.dma = (d.dma \/ d.feeds = 0)
  BY <1>11, StartFacts
<1>14. Live(e, filter, H, 0, 0)  BY <1>1, <1>7, <1>9, <1>13, Resume
<1>15. Decoders(e, past.refused)
  <2>1. PICK r : r = past.refused  OBVIOUS
  <2>2. ASSUME NEW j \in 1 .. mode.feednum
        PROVE  (TsUsed(e, j) <=> TsUsed(d, j)) /\ (TsUsed(d, j) => e.feed[j].dec = d.feed[j].dec)
    <3>1. CASE j = i  BY <3>1, <1>4, <1>13 DEF TsUsed, SameUse
    <3>2. CASE j # i  BY <3>2, <1>13 DEF TsUsed, Only
    <3>. QED  BY <3>1, <3>2
  <2>3. e.pesfilter = d.pesfilter  BY <1>13 DEF Only
  <2>4. Decoders(e, r)  BY <1>7, <1>13, <2>1, <2>2, <2>3, SameDecoders
  <2>. QED  BY <2>1, <2>4
<1>16. "go" \in Stages  BY DEF Stages
<1>17. call'.pc = "go" /\ call'.f = f  BY <1>1, <1>2, <1>3, <1>12, <1>16, Moved
<1>18. H = Holding' /\ Worked' = 0 /\ Nameless' = 0
  BY <1>2, <1>3, <1>5, <1>17, HoldingIs DEF Worked, Nameless, Owning
<1>19. StageInv'  BY <1>3, <1>4, <1>17 DEF StageInv
<1>20. SetInv' /\ OpenInv'  BY <1>3 DEF Tidy, SetInv, OpenInv
<1>21. Live(dmx', filter', H, 0, 0) /\ Decoders(dmx', past'.refused)  BY <1>3, <1>12, <1>14, <1>15
<1>. QED  BY <1>18, <1>19, <1>20, <1>21, TidyNext

(* Where filter_start begins: the filter is set, nothing is half done.     *)
LEMMA StartShape ==
  ASSUME Base, Tidy, Start, NEW d \in Demux, d = dmx, NEW f \in DevFilters, f = call.f
  PROVE  /\ mode \in Modes /\ Types /\ mode' = mode /\ opened' = opened /\ call.pc = "alloc" /\ f \in opened
         /\ filter[f].state = "SET" /\ f \notin Act(filter) /\ filter[f].par # NoParam
         /\ Live(d, filter, Act(filter), 0, 0) /\ Decoders(d, past.refused) /\ Listed(d)
<1>1. mode \in Modes /\ Types  BY DEF Base, Types
<1>2. mode' = mode /\ opened' = opened /\ call.pc = "alloc"  BY DEF Start
<1>3. f \in opened  BY <1>1, <1>2, Caller
<1>4. filter[f].state = "SET"  BY <1>2 DEF Tidy, StageInv
<1>5. f \notin Act(filter)  BY <1>4 DEF Act
<1>6. filter[f].par # NoParam  BY <1>4 DEF Tidy, SetInv
<1>7. Holding = Act(filter) /\ Worked = 0 /\ Nameless = 0
  BY <1>2, HoldingIs DEF Owning, Worked, Nameless
<1>8. Live(d, filter, Act(filter), 0, 0) /\ Decoders(d, past.refused) /\ Listed(d)
  BY <1>7 DEF Tidy, Base
<1>. QED  BY <1>1, <1>2, <1>3, <1>4, <1>5, <1>6, <1>8

(* filter_start leaves the other filters, and the state of its own, alone. *)
LEMMA StartRest ==
  ASSUME Base, Tidy, Start, NEW f \in DevFilters, f = call.f,
         OneFilter(filter, filter', f), filter'[f].par = filter[f].par, filter'[f].state = "SET"
  PROVE  /\ Act(filter') = Act(filter) /\ \A g \in Act(filter) : SameOwner(filter, filter', g)
         /\ SetInv' /\ OpenInv' /\ (call'.pc \notin Owning => Holding' = Act(filter))
<1>0. PICK d \in Demux : d = dmx  BY DEF Base, Types
<1>1. /\ mode' = mode /\ opened' = opened /\ f \in opened
      /\ f \notin Act(filter) /\ filter[f].par # NoParam
  BY <1>0, StartShape
<1>2. f \notin Act(filter')  BY DEF Act
<1>3. Act(filter') = Act(filter) /\ \A g \in Act(filter) : SameOwner(filter, filter', g)
  BY <1>1, <1>2, ActStep
<1>4. SetInv'  BY <1>1, KeepSet
<1>5. OpenInv'  BY <1>1, KeepOpen
<1>6. call'.pc \notin Owning => Holding' = Act(filter)  BY <1>3, HoldingIs
<1>. QED  BY <1>3, <1>4, <1>5, <1>6

(* A filter that is found started has a feed.                              *)
LEMMA AloneIs ==
  ASSUME Base, Tidy, Start, NEW f \in DevFilters, Alone(f)
  PROVE  Sharing(filter[f].par.pid) = {}
<1>. PICK pid : pid = filter[f].par.pid  OBVIOUS
<1>1. ASSUME Sharing(pid) # {}  PROVE  FALSE
  <2>1. mode \in Modes  BY DEF Base, Types
  <2>2. PICK g \in DevFilters : g = Min(Sharing(pid)) /\ g \in Sharing(pid)  BY <1>1, <2>1, SharingFirst
  <2>3. g \in Holding  BY <2>2 DEF Sharing, Holding
  <2>4. filter[g].feed # 0  BY <2>3, StartedServed
  <2>. QED  BY <1>1, <2>2, <2>4 DEF Alone
<1>. QED  BY <1>1

(* filter_start returns without a feed.                                    *)
LEMMA StartReturnsTidy ==
  ASSUME Base, Tidy, Start, NEW d \in Demux, d = dmx, NEW f \in DevFilters, f = call.f, StartReturns(f)
  PROVE  Tidy'
<1>1. /\ call' = Idle /\ dmx' = d /\ past' = past /\ OneFilter(filter, filter', f)
      /\ filter'[f].par = filter[f].par /\ filter'[f].state = filter[f].state
  BY DEF StartReturns
<1>2. /\ filter[f].state = "SET" /\ Live(d, filter, Act(filter), 0, 0) /\ Decoders(d, past.refused)
  BY StartShape
<1>3. call'.pc = "idle" /\ call'.pc \notin Owning  BY <1>1, IdlePc DEF Owning
<1>4. /\ \A g \in Act(filter) : SameOwner(filter, filter', g)
      /\ SetInv' /\ OpenInv' /\ Holding' = Act(filter)
  BY <1>1, <1>2, <1>3, StartRest
<1>5. StageInv' /\ Worked' = 0 /\ Nameless' = 0  BY <1>3, RestStage
<1>6. Live(dmx', filter', Act(filter), 0, 0)
  <2>1. PICK H, gs, fs : H = Act(filter) /\ gs = filter' /\ fs = filter  OBVIOUS
  <2>2. Live(d, fs, H, 0, 0) /\ \A g \in H : SameOwner(fs, gs, g)  BY <1>2, <1>4, <2>1
  <2>3. Live(d, gs, H, 0, 0)  BY <2>2, LiveSame
  <2>. QED  BY <1>1, <2>1, <2>3
<1>7. Decoders(dmx', past'.refused)  BY <1>1, <1>2
<1>. QED  BY <1>4, <1>5, <1>6, <1>7, TidyNext

(* filter_start joins the feed of another filter.                          *)
LEMMA StartSharesTidy ==
  ASSUME Base, Tidy, Start, NEW d \in Demux, d = dmx, NEW f \in DevFilters, f = call.f,
         filter[f].par.type = "SEC", StartShares(f)
  PROVE  Tidy'
<1>1. PICK i \in 1 .. mode.feednum :
        /\ Sharing(filter[f].par.pid) # {} /\ i = filter[Min(Sharing(filter[f].par.pid))].feed
        /\ OneFilter(filter, filter', f) /\ filter'[f].mem = TRUE /\ filter'[f].feed = i
        /\ filter'[f].par = filter[f].par /\ filter'[f].state = "SET"
        /\ call' = [call EXCEPT !.pc = "share_stop"] /\ dmx' = dmx /\ past' = past
  BY DEF StartShares
<1>2. /\ mode \in Modes /\ Types /\ call.pc = "alloc"
      /\ Live(d, filter, Act(filter), 0, 0) /\ Decoders(d, past.refused)
  BY StartShape
<1>3. "share_stop" \in Stages  BY DEF Stages
<1>4. call'.pc = "share_stop" /\ call'.f = f /\ call'.pc \notin Owning
  BY <1>1, <1>2, <1>3, Moved DEF Owning
<1>5. /\ \A g \in Act(filter) : SameOwner(filter, filter', g)
      /\ SetInv' /\ OpenInv' /\ Holding' = Act(filter)
  BY <1>1, <1>4, StartRest
<1>6. Worked' = 0 /\ Nameless' = 0  BY <1>4 DEF Worked, Nameless
<1>7. i \in d.feed_list /\ d.feed[i].type = "SEC" /\ d.feed[i].pid = filter[f].par.pid
  <2>1. PICK pid : pid = filter[f].par.pid  OBVIOUS
  <2>2. Sharing(pid) # {} /\ i = filter[Min(Sharing(pid))].feed  BY <1>1, <2>1
  <2>3. PICK g \in DevFilters : g = Min(Sharing(pid)) /\ g \in Sharing(pid)
    BY <1>2, <2>2, SharingFirst
  <2>4. g \in Holding /\ filter[g].par.type = "SEC" /\ filter[g].par.pid = pid
    BY <2>3 DEF Sharing, Holding
  <2>5. Served(dmx, filter, g, Nameless)  BY <2>4, StartedServed
  <2>. QED  BY <2>1, <2>2, <2>3, <2>4, <2>5 DEF Served
<1>8. StageInv'  BY <1>1, <1>4, <1>7 DEF StageInv
<1>9. Live(dmx', filter', Act(filter), 0, 0)
  <2>1. PICK H, gs, fs : H = Act(filter) /\ gs = filter' /\ fs = filter  OBVIOUS
  <2>2. Live(d, fs, H, 0, 0) /\ \A g \in H : SameOwner(fs, gs, g)  BY <1>2, <1>5, <2>1
  <2>3. Live(d, gs, H, 0, 0)  BY <2>2, LiveSame
  <2>. QED  BY <1>1, <2>1, <2>3
<1>10. Decoders(dmx', past'.refused)  BY <1>1, <1>2
<1>. QED  BY <1>5, <1>6, <1>8, <1>9, <1>10, TidyNext

(* filter_start takes a new section feed: no other is of its PID.          *)
LEMMA StartNewTidy ==
  ASSUME Base, Tidy, Start, NEW d \in Demux, d = dmx, NEW f \in DevFilters, f = call.f,
         filter[f].par.type = "SEC", Alone(f), StartNew(d, f)
  PROVE  Tidy'
<1>1. PICK i \in 1 .. mode.feednum :
        /\ FreeFeeds(d) # {} /\ i = feed_alloc(d)
        /\ dmx' = section_feed_set(allocate_section_feed(d), i, filter[f].par.pid)
        /\ Prepared(filter', f, i) /\ call' = [call EXCEPT !.pc = "get_filter"] /\ past' = past
  BY DEF StartNew
<1>2. /\ mode \in Modes /\ Types /\ call.pc = "alloc" /\ filter[f].state = "SET"
      /\ Live(d, filter, Act(filter), 0, 0) /\ Decoders(d, past.refused) /\ Listed(d)
  BY StartShape
<1>3. "get_filter" \in Stages  BY DEF Stages
<1>4. call'.pc = "get_filter" /\ call'.f = f /\ call'.pc \notin Owning
  BY <1>1, <1>2, <1>3, Moved DEF Owning
<1>5. /\ OneFilter(filter, filter', f) /\ filter'[f].mem = TRUE /\ filter'[f].feed = i
      /\ filter'[f].par = filter[f].par /\ filter'[f].state = "SET"
  BY <1>1, <1>2 DEF Prepared
<1>6. /\ \A g \in Act(filter) : SameOwner(filter, filter', g)
      /\ SetInv' /\ OpenInv' /\ Holding' = Act(filter)
  BY <1>4, <1>5, StartRest
<1>7. PICK pid \in {par.pid : par \in mode.params} : pid = filter[f].par.pid
  BY <1>2, ChosenPar
<1>8. PICK e : e = section_feed_set(allocate_section_feed(d), i, pid)  OBVIOUS
<1>9. dmx' = e  BY <1>1, <1>7, <1>8
<1>10. /\ d.feed[i].state = "FREE"
       /\ e \in Demux /\ Others(d, e, i) /\ SameCard(d, e)
       /\ e.feed[i].state = "READY" /\ e.feed[i].type = "SEC" /\ e.feed[i].pid = pid
       /\ ~e.feed[i].filtering /\ e.feed[i].filters = << >>
       /\ e.filter = d.filter /\ e.feed_list = d.feed_list \cup {i} /\ e.pesfilter = d.pesfilter
  BY <1>1, <1>2, <1>8, SectionFeedFacts
<1>11. PICK H, gs, fs : H = Act(filter) /\ gs = filter' /\ fs = filter  OBVIOUS
<1>12. Live(d, fs, H, 0, 0)  BY <1>2, <1>11
<1>13. ASSUME NEW j \in Used(d), d.feed[j].type = "SEC"  PROVE  d.feed[j].pid # pid
  <2>1. j \in 1 .. mode.feednum /\ j # 0  BY <1>2, Tables, Numbers
  <2>2. d.feed[j].filters # << >>  BY <1>12, <1>13, <2>1 DEF Live, SecFeeds
  <2>3. \E g \in H : fs[g].par.type = "SEC" /\ fs[g].par.pid = d.feed[j].pid
    BY <1>2, <1>12, <1>13, <2>2, NobodyLeft
  <2>4. Sharing(pid) = {}  BY <1>7, AloneIs
  <2>. QED  BY <1>11, <2>3, <2>4 DEF Sharing, Act, Active
<1>14. Live(e, fs, H, i, 0)
  BY <1>2, <1>10, <1>12, <1>13, NewSection
<1>15. Live(e, gs, H, i, 0)
  <2>1. \A g \in H : SameOwner(fs, gs, g)  BY <1>6, <1>11
  <2>. QED  BY <1>10, <1>14, <2>1, LiveSame
<1>16. Decoders(e, past.refused)
  <2>1. PICK r : r = past.refused  OBVIOUS
  <2>2. Decoders(e, r)  BY <1>2, <1>10, <2>1, SectionDecoders
  <2>. QED  BY <2>1, <2>2
<1>17. Worked' = i /\ Nameless' = 0  BY <1>4, <1>5 DEF Worked, Nameless
<1>18. StageInv'
  <2>1. i \in e.feed_list  BY <1>10
  <2>. QED  BY <1>4, <1>5, <1>7, <1>9, <1>10, <2>1 DEF StageInv
<1>19. Live(dmx', filter', H, i, 0) /\ Decoders(dmx', past'.refused) /\ H = Holding'
  BY <1>1, <1>6, <1>9, <1>11, <1>15, <1>16
<1>. QED  BY <1>6, <1>17, <1>18, <1>19, TidyNext

(* A section feed that cannot be set is released again.                    *)
LEMMA StartRefusedTidy ==
  ASSUME Base, Tidy, Start, NEW d \in Demux, d = dmx, NEW f \in DevFilters, f = call.f,
         filter[f].par.type = "SEC", Alone(f), StartRefused(d, f)
  PROVE  Tidy'
<1>1. PICK i \in 1 .. mode.feednum, gs \in [DevFilters -> DevFilter] :
        /\ FreeFeeds(d) # {} /\ i = feed_alloc(d)
        /\ Prepared(gs, f, i) /\ FeedRestart(allocate_section_feed(d), f, gs, Idle) /\ past' = past
  BY DEF StartRefused
<1>2. /\ mode \in Modes /\ filter[f].state = "SET"
      /\ Live(d, filter, Act(filter), 0, 0) /\ Decoders(d, past.refused) /\ Listed(d)
  BY StartShape
<1>3. gs[f].feed = i  BY <1>1 DEF Prepared
<1>4. /\ dmx' = release_section_feed(allocate_section_feed(d), i)
      /\ filter' = gs /\ call' = Idle
  <2>1. Sharing(filter[f].par.pid) = {}  BY AloneIs
  <2>. QED  BY <1>1, <1>3, <2>1 DEF FeedRestart
<1>5. call'.pc = "idle" /\ call'.pc \notin Owning  BY <1>4, IdlePc DEF Owning
<1>6. /\ OneFilter(filter, filter', f) /\ filter'[f].par = filter[f].par /\ filter'[f].state = "SET"
  BY <1>1, <1>2, <1>4 DEF Prepared
<1>7. /\ \A g \in Act(filter) : SameOwner(filter, filter', g)
      /\ SetInv' /\ OpenInv' /\ Holding' = Act(filter)
  BY <1>5, <1>6, StartRest
<1>8. StageInv' /\ Worked' = 0 /\ Nameless' = 0  BY <1>5, RestStage
<1>9. PICK e : e = release_section_feed(allocate_section_feed(d), i)  OBVIOUS
<1>10. /\ d.feed[i].state = "FREE"
       /\ e \in Demux /\ Others(d, e, i) /\ SameCard(d, e)
       /\ e.feed[i].state = "FREE" /\ ~e.feed[i].filtering
       /\ e.filter = d.filter /\ e.feed_list = d.feed_list /\ e.pesfilter = d.pesfilter
  BY <1>1, <1>2, <1>9, SectionRefusedFacts
<1>11. PICK H, fs : H = Act(filter) /\ fs = filter  OBVIOUS
<1>12. Live(e, fs, H, 0, 0)
  <2>1. Live(d, fs, H, 0, 0)  BY <1>2, <1>11
  <2>2. \A j \in 1 .. mode.feednum :
          \/ e.feed[j] = d.feed[j]
          \/ d.feed[j].state = "FREE" /\ e.feed[j].state = "FREE" /\ ~e.feed[j].filtering
    BY <1>10 DEF Others
  <2>3. \A k \in 1 .. mode.filternum : e.filter[k] = d.filter[k] \/ (d.filter[k].free /\ e.filter[k].free)
    BY <1>10
  <2>4. e.feed_list = d.feed_list /\ e.feeds = d.feeds /\ e.dma = d.dma  BY <1>10 DEF SameCard
  <2>. QED  BY <1>2, <1>10, <2>1, <2>2, <2>3, <2>4, SameLive
<1>13. Live(e, gs, H, 0, 0)
  <2>1. \A g \in H : SameOwner(fs, gs, g)  BY <1>4, <1>7, <1>11
  <2>. QED  BY <1>10, <1>12, <2>1, LiveSame
<1>14. Decoders(e, past.refused)
  <2>1. PICK r : r = past.refused  OBVIOUS
  <2>2. Decoders(e, r)  BY <1>2, <1>10, <2>1, SectionDecoders
  <2>. QED  BY <2>1, <2>2
<1>15. Live(dmx', filter', H, 0, 0) /\ Decoders(dmx', past'.refused) /\ H = Holding'
  BY <1>1, <1>4, <1>7, <1>9, <1>11, <1>13, <1>14
<1>. QED  BY <1>7, <1>8, <1>15, TidyNext

(* filter_start takes a transport stream feed, and its decoder stream.     *)
LEMMA StartTsNewTidy ==
  ASSUME Base, Tidy, Start, NEW d \in Demux, d = dmx, NEW f \in DevFilters, f = call.f,
         filter[f].par.type = "PES", StartTsNew(d, f)
  PROVE  Tidy'
<1>1. PICK i \in 1 .. mode.feednum :
        /\ FreeFeeds(d) # {} /\ FreeFilters(d) # {} /\ i = feed_alloc(d) /\ Prepared(filter', f, i)
        /\ CanSetTs(allocate_ts_feed(d, f), i, filter[f].par.pid, filter[f].par.dec)
        /\ dmx' = ts_feed_set(allocate_ts_feed(d, f), i, filter[f].par.pid, filter[f].par.dec, filter[f].par.out)
        /\ call' = [call EXCEPT !.pc = "ts_start"] /\ past' = past
  BY DEF StartTsNew
<1>2. /\ mode \in Modes /\ Types /\ call.pc = "alloc" /\ filter[f].state = "SET" /\ f \notin Act(filter)
      /\ Live(d, filter, Act(filter), 0, 0) /\ Decoders(d, past.refused) /\ Listed(d)
  BY StartShape
<1>3. "ts_start" \in Stages  BY DEF Stages
<1>4. call'.pc = "ts_start" /\ call'.f = f  BY <1>1, <1>2, <1>3, Moved
<1>5. /\ OneFilter(filter, filter', f) /\ filter'[f].mem = TRUE /\ filter'[f].feed = i
      /\ filter'[f].par = filter[f].par /\ filter'[f].state = "SET"
  BY <1>1, <1>2 DEF Prepared
<1>6. /\ Act(filter') = Act(filter) /\ \A g \in Act(filter) : SameOwner(filter, filter', g)
      /\ SetInv' /\ OpenInv'
  BY <1>5, StartRest
<1>7. PICK par \in mode.params : par = filter[f].par  BY <1>2, ChosenPar
<1>8. PICK k : k = filter_alloc(d)  OBVIOUS
<1>9. PICK a, e : a = allocate_ts_feed(d, f) /\ e = ts_feed_set(a, i, par.pid, par.dec, par.out)  OBVIOUS
<1>10. dmx' = e /\ CanSetTs(a, i, par.pid, par.dec)  BY <1>1, <1>7, <1>9
<1>11. FreeFeeds(d) # {} /\ FreeFilters(d) # {} /\ i = feed_alloc(d)  BY <1>1
<1>12. k \in 1 .. mode.filternum /\ d.filter[k].free /\ a.pesfilter = d.pesfilter /\ d.feed[i].state = "FREE"
  BY <1>2, <1>8, <1>9, <1>11, TsFeedFacts
<1>13. /\ e \in Demux /\ Others(d, e, i) /\ SameCard(d, e)
       /\ e.feed[i].state = "READY" /\ e.feed[i].type = "TS" /\ e.feed[i].pid = par.pid
       /\ ~e.feed[i].filtering /\ e.feed[i].filters = <<k>> /\ e.feed[i].priv = f
       /\ e.feed[i].dec = par.dec /\ e.feed_list = d.feed_list \cup {i}
  <2>1. e \in Demux /\ Others(d, e, i) /\ SameCard(d, e)
    BY <1>2, <1>8, <1>9, <1>11, TsFeedFacts
  <2>10. Entered(d, e, i) /\ Lone(e, i, k)
    BY <1>2, <1>8, <1>9, <1>11, TsFeedFacts
  <2>2. e.feed[i].state = "READY" /\ e.feed[i].type = "TS" /\ e.feed[i].pid = par.pid /\ e.feed[i].dec = par.dec
    BY <1>2, <1>8, <1>9, <1>11, TsFeedFacts
  <2>3. e.feed[i].priv = f /\ ~e.feed[i].filtering
    BY <1>2, <1>8, <1>9, <1>11, TsFeedFacts
  <2>4. e.feed[i].filters = <<k>> /\ e.feed_list = d.feed_list \cup {i}  BY <2>10 DEF Lone, Entered
  <2>. QED  BY <2>1, <2>2, <2>3, <2>4
<1>14. OtherFilters(d, e, k) /\ ~e.filter[k].free /\ e.filter[k].feed = i
  <2>1. \A q \in 1 .. mode.filternum : q # k => e.filter[q] = d.filter[q]
    BY <1>2, <1>8, <1>9, <1>11, TsFeedFacts
  <2>2. ~e.filter[k].free /\ e.filter[k].feed = i
    BY <1>2, <1>8, <1>9, <1>11, TsFeedFacts
  <2>. QED  BY <2>1, <2>2 DEF OtherFilters
<1>15. \A p \in Pes : e.pesfilter[p] = IF p = par.dec THEN i ELSE d.pesfilter[p]
  BY <1>2, <1>8, <1>9, <1>11, TsFeedFacts
<1>16. PICK H, gs, fs : H = Act(filter) /\ gs = filter' /\ fs = filter  OBVIOUS
<1>17. Live(e, gs, H \cup {f}, i, 0)
  <2>1. Live(d, fs, H, 0, 0) /\ f \notin H /\ \A g \in H : SameOwner(fs, gs, g)  BY <1>2, <1>6, <1>16
  <2>2. gs[f].mem /\ gs[f].feed = i /\ gs[f].par.type = "PES"  BY <1>5, <1>16
  <2>3. e.feed[i].pid = gs[f].par.pid  BY <1>5, <1>7, <1>13, <1>16
  <2>. QED  BY <1>2, <1>12, <1>13, <1>14, <2>1, <2>2, <2>3, NewTs
<1>18. Decoders(e, past.refused)
  <2>1. PICK r : r = past.refused  OBVIOUS
  <2>2. e.feed[i].dec \in Pes => d.pesfilter[e.feed[i].dec] \in {0, i}  BY <1>10, <1>12, <1>13 DEF CanSetTs
  <2>3. \A p \in Pes : e.pesfilter[p] = IF p = e.feed[i].dec THEN i ELSE d.pesfilter[p]  BY <1>13, <1>15
  <2>4. Decoders(d, r) /\ e.feed[i].state # "FREE"  BY <1>2, <1>13, <2>1
  <2>5. Decoders(e, r)  BY <1>12, <1>13, <2>2, <2>3, <2>4, NewDecoder
  <2>. QED  BY <2>1, <2>5
<1>19. H \cup {f} = Holding' /\ Worked' = i /\ Nameless' = 0
  BY <1>4, <1>5, <1>6, <1>16, HoldingIs DEF Worked, Nameless, Owning
<1>20. StageInv'
  <2>1. filter'[f].par.type = "PES"  BY <1>5
  <2>. QED  BY <1>4, <1>5, <1>10, <1>13, <2>1 DEF StageInv
<1>21. Live(dmx', filter', H \cup {f}, i, 0) /\ Decoders(dmx', past'.refused)
  BY <1>1, <1>10, <1>16, <1>17, <1>18
<1>. QED  BY <1>6, <1>19, <1>20, <1>21, TidyNext

(* A transport stream feed that cannot be set is released again; that may  *)
(* clear another feed's entry of pesfilter.                                *)
LEMMA StartTsRefusedTidy ==
  ASSUME Base, Tidy, Start, NEW d \in Demux, d = dmx, NEW f \in DevFilters, f = call.f,
         filter[f].par.type = "PES", StartTsRefused(d, f)
  PROVE  Tidy'
<1>1. PICK i \in 1 .. mode.feednum :
        /\ FreeFeeds(d) # {} /\ FreeFilters(d) # {} /\ i = feed_alloc(d) /\ Prepared(filter', f, i)
        /\ dmx' = release_ts_feed(allocate_ts_feed(d, f), i)
        /\ call' = Idle /\ past' = [past EXCEPT !.refused = TRUE]
  BY DEF StartTsRefused
<1>2. /\ mode \in Modes /\ Types /\ filter[f].state = "SET"
      /\ Live(d, filter, Act(filter), 0, 0) /\ Decoders(d, past.refused) /\ Listed(d)
  BY StartShape
<1>3. call'.pc = "idle" /\ call'.pc \notin Owning  BY <1>1, IdlePc DEF Owning
<1>4. /\ OneFilter(filter, filter', f) /\ filter'[f].par = filter[f].par /\ filter'[f].state = "SET"
  BY <1>1, <1>2 DEF Prepared
<1>5. /\ \A g \in Act(filter) : SameOwner(filter, filter', g)
      /\ SetInv' /\ OpenInv' /\ Holding' = Act(filter)
  BY <1>3, <1>4, StartRest
<1>6. StageInv' /\ Worked' = 0 /\ Nameless' = 0  BY <1>3, RestStage
<1>7. PICK a, e, q : /\ a = allocate_ts_feed(d, f) /\ e = release_ts_feed(a, i) /\ q = a.feed[i].dec
  OBVIOUS
<1>8. LET b == allocate_ts_feed(d, f)
          c == release_ts_feed(b, i)
      IN
      /\ d.feed[i].state = "FREE"
      /\ c \in Demux /\ Others(d, c, i) /\ SameCard(d, c)
      /\ c.feed[i].state = "FREE" /\ ~c.feed[i].filtering
      /\ c.feed_list = d.feed_list
      /\ \A n \in 1 .. mode.filternum : c.filter[n] = d.filter[n] \/ (d.filter[n].free /\ c.filter[n].free)
      /\ \A p \in Pes : c.pesfilter[p] = IF p = b.feed[i].dec THEN 0 ELSE d.pesfilter[p]
  BY <1>1, <1>2, TsRefusedFacts
<1>9. /\ d.feed[i].state = "FREE"
      /\ e \in Demux /\ Others(d, e, i) /\ SameCard(d, e)
      /\ e.feed[i].state = "FREE" /\ ~e.feed[i].filtering
      /\ e.feed_list = d.feed_list
  BY <1>7, <1>8
<1>10. \A n \in 1 .. mode.filternum : e.filter[n] = d.filter[n] \/ (d.filter[n].free /\ e.filter[n].free)
  BY <1>7, <1>8
<1>11. Cleared(d, e, q)  BY <1>7, <1>8 DEF Cleared
<1>12. PICK H, gs, fs : H = Act(filter) /\ gs = filter' /\ fs = filter  OBVIOUS
<1>13. Live(e, fs, H, 0, 0)
  <2>1. Live(d, fs, H, 0, 0)  BY <1>2, <1>12
  <2>2. \A j \in 1 .. mode.feednum :
          \/ e.feed[j] = d.feed[j]
          \/ d.feed[j].state = "FREE" /\ e.feed[j].state = "FREE" /\ ~e.feed[j].filtering
    BY <1>9 DEF Others
  <2>3. e.feed_list = d.feed_list /\ e.feeds = d.feeds /\ e.dma = d.dma  BY <1>9 DEF SameCard
  <2>. QED  BY <1>2, <1>9, <1>10, <2>1, <2>2, <2>3, SameLive
<1>14. Live(e, gs, H, 0, 0)
  <2>1. \A g \in H : SameOwner(fs, gs, g)  BY <1>5, <1>12
  <2>. QED  BY <1>9, <1>13, <2>1, LiveSame
<1>15. Decoders(e, TRUE)
  <2>1. PICK r : r = past.refused  OBVIOUS
  <2>2. Decoders(d, r)  BY <1>2, <2>1
  <2>. QED  BY <1>9, <1>11, <2>2, RefusedDecoder
<1>16. past'.refused = TRUE  BY <1>1, <1>2 DEF Types
<1>17. Live(dmx', filter', H, 0, 0) /\ Decoders(dmx', past'.refused) /\ H = Holding'
  BY <1>1, <1>5, <1>7, <1>12, <1>14, <1>15, <1>16
<1>. QED  BY <1>5, <1>6, <1>17, TidyNext

(* filter_start up to the feed                                             *)
LEMMA StartTidy ==
  ASSUME Base, Tidy, Start
  PROVE  Tidy'
<1>1. call.pc = "alloc" /\ Types  BY DEF Start, Base
<1>2. PICK d \in Demux, f \in DevFilters : d = dmx /\ f = call.f  BY <1>1, Caller DEF Types
<1>. QED
  BY <1>2, StartCases, StartReturnsTidy, StartSharesTidy, StartNewTidy, StartRefusedTidy,
     StartTsNewTidy, StartTsRefusedTidy

-----------------------------------------------------------------------------
(* A call that begins                                                      *)
LEMMA Begins ==
  ASSUME Base, NEW f \in DevFilters,
         \/ Close(f)
         \/ \E op \in mode.ops \ {"set", "setnow"} : Call(f, op, NoParam)
         \/ \E op \in mode.ops \cap {"set", "setnow"}, par \in mode.params : Call(f, op, par)
  PROVE  \E op \in Ops, par \in Pars :
           /\ Call(f, op, par) /\ (op = "free" => f \notin reading)
           /\ op \in {"set", "setnow"} => par \in mode.params
<1>1. NoParam \in Pars /\ mode.params \subseteq Pars /\ "free" \in Ops  BY DEF Pars, Ops
<1>2. mode.ops \subseteq {"set", "setnow", "start", "stop", "size0", "size1"}
  BY LifeConstants DEF Base, Types
<1>3. CASE Close(f)  BY <1>1, <1>3 DEF Close
<1>4. CASE \E op \in mode.ops \ {"set", "setnow"} : Call(f, op, NoParam)
  <2>1. PICK op \in mode.ops \ {"set", "setnow"} : Call(f, op, NoParam)  BY <1>4
  <2>2. op \in Ops /\ op # "free"  BY <1>2 DEF Ops
  <2>. QED  BY <1>1, <2>1, <2>2
<1>5. CASE \E op \in mode.ops \cap {"set", "setnow"}, par \in mode.params : Call(f, op, par)
  <2>1. PICK op \in mode.ops \cap {"set", "setnow"}, par \in mode.params : Call(f, op, par)  BY <1>5
  <2>2. op \in Ops /\ op # "free"  BY <1>2 DEF Ops
  <2>. QED  BY <1>1, <2>1, <2>2
<1>. QED  BY <1>3, <1>4, <1>5

(* The tables keep their types, and the other parts that no timeout can    *)
(* disturb, whatever step is taken.                                        *)
LEMMA BaseNext ==
  ASSUME Base, [Next]_vars
  PROVE  Base'
<1>1. CASE UNCHANGED vars
  <2>1. /\ mode' = mode /\ dmx' = dmx /\ filter' = filter /\ opened' = opened /\ timer' = timer
        /\ reading' = reading /\ call' = call /\ dvr' = dvr /\ copies' = copies /\ past' = past
    BY <1>1 DEF vars
  <2>2. CallInv'  BY <2>1 DEF Base, CallInv
  <2>. QED  BY <2>1, <2>2, QuietStep DEF Base, Types
<1>2. CASE CallStep
  BY <1>2, LockBase, StopBase, StopFeedBase, ReleaseBase, StoppedBase, SetBase, SetSizeBase, FreeBase,
     StartBase, GetFilterBase, RetryBase, StartFilteringBase, ArmTimerBase, StartTsBase, GoBase
     DEF CallStep
<1>3. CASE Begin
  <2>1. CASE CloseInterrupted  BY <2>1, CloseInterruptedBase
  <2>2. ASSUME NEW f \in DevFilters, Open(f)  PROVE  Base'  BY <2>2, OpenBase
  <2>3. ASSUME NEW f \in DevFilters,
               \/ Close(f)
               \/ \E op \in mode.ops \ {"set", "setnow"} : Call(f, op, NoParam)
               \/ \E op \in mode.ops \cap {"set", "setnow"}, par \in mode.params : Call(f, op, par)
        PROVE  Base'
    <3>1. PICK op \in Ops, par \in Pars :
            /\ Call(f, op, par) /\ (op = "free" => f \notin reading)
            /\ op \in {"set", "setnow"} => par \in mode.params
      BY <2>3, Begins
    <3>. QED  BY <3>1, CallBase
  <2>. QED  BY <1>3, <2>1, <2>2, <2>3 DEF Begin
<1>4. CASE Reader  BY <1>4, ReadBase DEF Reader
<1>5. CASE Timers  BY <1>5, TimerBase DEF Timers
<1>6. CASE Environment
  <2>1. ASSUME NEW pid \in Pids \ {AllPids}, Packet(pid)  PROVE  Base'  BY <2>1, PacketBase
  <2>2. ASSUME NEW f \in DevFilters, Read(f)  PROVE  Base'  BY <2>2, ReadBase
  <2>3. CASE DvrOpenRead \/ DvrCloseRead \/ DvrOpenWrite \/ DvrCloseWrite  BY <2>3, DvrBase
  <2>. QED  BY <1>6, <2>1, <2>2, <2>3 DEF Environment
<1>. QED  BY <1>1, <1>2, <1>3, <1>4, <1>5, <1>6 DEF Next

(* As long as no timeout comes late, the rest is kept too.                 *)
LEMMA TidyNextStep ==
  ASSUME Base, Tidy, [Next]_vars, ~past'.late
  PROVE  Tidy'
<1>1. CASE UNCHANGED vars
  <2>1. /\ mode' = mode /\ dmx' = dmx /\ filter' = filter /\ opened' = opened
        /\ call' = call /\ past' = past
    BY <1>1 DEF vars
  <2>2. /\ Holding' = Holding /\ Worked' = Worked /\ Nameless' = Nameless
    BY <2>1, HoldingIs DEF Worked, Nameless
  <2>3. StageInv' /\ SetInv' /\ OpenInv'  BY <2>1 DEF Tidy, StageInv, SetInv, OpenInv, Active
  <2>4. PICK H, w, b : H = Holding /\ w = Worked /\ b = Nameless  OBVIOUS
  <2>5. Live(dmx', filter', H, w, b) /\ Decoders(dmx', past'.refused)  BY <2>1, <2>4 DEF Tidy
  <2>. QED  BY <2>2, <2>3, <2>4, <2>5, TidyNext
<1>2. CASE CallStep
  BY <1>2, LockTidy, StopTidy, StopFeedTidy, ReleaseTidy, StoppedTidy, SetTidy, SetSizeTidy, FreeTidy,
     StartTidy, GetFilterTidy, RetryTidy, StartFilteringTidy, ArmTimerTidy, StartTsTidy, GoTidy
     DEF CallStep
<1>3. CASE Begin
  <2>1. CASE CloseInterrupted  BY <2>1, CloseInterruptedTidy
  <2>2. ASSUME NEW f \in DevFilters, Open(f)  PROVE  Tidy'  BY <2>2, OpenTidy
  <2>3. ASSUME NEW f \in DevFilters,
               \/ Close(f)
               \/ \E op \in mode.ops \ {"set", "setnow"} : Call(f, op, NoParam)
               \/ \E op \in mode.ops \cap {"set", "setnow"}, par \in mode.params : Call(f, op, par)
        PROVE  Tidy'
    <3>1. PICK op \in Ops, par \in Pars : Call(f, op, par)  BY <2>3, Begins
    <3>. QED  BY <3>1, CallTidy
  <2>. QED  BY <1>3, <2>1, <2>2, <2>3 DEF Begin
<1>4. CASE Reader  BY <1>4, ReadTidy DEF Reader
<1>5. CASE Timers  BY <1>5, TimerTidy DEF Timers
<1>6. CASE Environment
  <2>1. ASSUME NEW pid \in Pids \ {AllPids}, Packet(pid)  PROVE  Tidy'  BY <2>1, PacketTidy
  <2>2. ASSUME NEW f \in DevFilters, Read(f)  PROVE  Tidy'  BY <2>2, ReadTidy
  <2>3. CASE DvrOpenRead \/ DvrCloseRead \/ DvrOpenWrite \/ DvrCloseWrite
    <3>1. Base'  BY BaseNext
    <3>. QED  BY <2>3, <3>1, DvrTidy
  <2>. QED  BY <1>6, <2>1, <2>2, <2>3 DEF Environment
<1>. QED  BY <1>1, <1>2, <1>3, <1>4, <1>5, <1>6 DEF Next

(* A late timeout is never forgotten.                                      *)
LEMMA LateStays ==
  ASSUME Base, [Next]_vars, ~past'.late
  PROVE  ~past.late
<1>0. past \in [late : BOOLEAN, refused : BOOLEAN]  BY DEF Base, Types
<1>1. CASE past' = past  BY <1>1
<1>2. CASE Start
  <2>1. PICK d \in Demux, f \in DevFilters : d = dmx /\ f = call.f
    BY <1>2, Caller DEF Base, Types, Start
  <2>2. past' = past \/ past' = [past EXCEPT !.refused = TRUE]
    BY <1>2, <2>1, StartCases DEF StartReturns, StartShares, StartNew, StartRefused, StartTsNew, StartTsRefused
  <2>. QED  BY <1>0, <2>2
<1>3. ASSUME NEW f \in DevFilters, TimerState(f)  PROVE  ~past.late
  <2>1. past' = [past EXCEPT !.late = @ \/ (~Active(f) /\ ~(call.f = f /\ call.pc = "go"))]
    BY <1>3 DEF TimerState
  <2>2. PICK l \in BOOLEAN : l = past.late  BY <1>0
  <2>. QED  BY <1>0, <2>1, <2>2
<1>4. CASE UNCHANGED vars  BY <1>1, <1>4 DEF vars
<1>5. CASE CallStep
  <2>1. Start \/ past' = past
    BY <1>5 DEF CallStep, Lock, Stop, StopFeed, Release, Stopped, Set, SetSize, Free, GetFilter, Retry,
                StartFiltering, ArmTimer, StartTs, Go
  <2>. QED  BY <1>1, <1>2, <2>1
<1>6. CASE Begin
  <2>1. past' = past  BY <1>6 DEF Begin, Open, Close, Call, CloseInterrupted
  <2>. QED  BY <1>1, <2>1
<1>7. CASE Reader
  <2>1. past' = past  BY <1>7 DEF Reader, ReadWakes
  <2>. QED  BY <1>1, <2>1
<1>8. CASE Timers
  <2>1. ASSUME NEW f \in DevFilters, TimerExpires(f)  PROVE  past' = past  BY <2>1 DEF TimerExpires
  <2>. QED  BY <1>1, <1>3, <1>8, <2>1 DEF Timers
<1>9. CASE Environment
  <2>1. past' = past
    BY <1>9 DEF Environment, Packet, Read, DvrOpenRead, DvrCloseRead, DvrOpenWrite, DvrCloseWrite
  <2>. QED  BY <1>1, <2>1
<1>. QED  BY <1>4, <1>5, <1>6, <1>7, <1>8, <1>9 DEF Next

(* The invariant's two parts.                                              *)
LEMMA LifeParts == LifeInv <=> Base /\ (~past.late => Tidy)
  BY DEF LifeInv, Base, Tidy

(* The invariant is inductive.                                             *)
LEMMA LifeNext ==
  ASSUME LifeInv, [Next]_vars
  PROVE  LifeInv'
<1>1. Base /\ (~past.late => Tidy)  BY LifeParts
<1>2. Base'  BY <1>1, BaseNext
<1>3. ASSUME ~past'.late  PROVE  Tidy'
  <2>1. ~past.late  BY <1>1, <1>3, LateStays
  <2>. QED  BY <1>1, <1>3, <2>1, TidyNextStep
<1>4. LifeInv' <=> (Base /\ (~past.late => Tidy))'  BY LifeParts, PTL
<1>. QED  BY <1>2, <1>3, <1>4

(* An empty demux                                                          *)
LEMMA InitTables ==
  ASSUME Init
  PROVE  /\ mode \in Modes /\ dmx \in Demux /\ dmx.frontend = "hw" /\ dmx.feed_list = {}
         /\ dmx.feeds = 0 /\ dmx.dma = FALSE
         /\ \A i \in 1 .. mode.feednum : dmx.feed[i] = FreeFeed
         /\ \A k \in 1 .. mode.filternum : dmx.filter[k] = NoFilter
         /\ \A p \in Pes : dmx.pesfilter[p] = 0
<1>1. mode \in Modes /\ dmx = DemuxInit(mode.feednum, mode.filternum)  BY DEF Init
<1>2. mode.feednum \in Nat /\ mode.filternum \in Nat /\ NDev \in Nat  BY <1>1, Numbers
<1>3. PICK n, m : n = mode.feednum /\ m = mode.filternum  OBVIOUS
<1>4. /\ dmx.feed = [i \in 1 .. n |-> FreeFeed] /\ dmx.filter = [k \in 1 .. m |-> NoFilter]
      /\ dmx.feed_list = {} /\ dmx.pesfilter = [p \in Pes |-> 0]
      /\ dmx.frontend = "hw" /\ dmx.feeds = 0 /\ dmx.dma = FALSE
  BY <1>1, <1>3 DEF DemuxInit
<1>5. FreeFeed \in FeedRec
  <2>1. << >> \in Seq(1 .. mode.filternum)  OBVIOUS
  <2>2. 0 \in 0 .. NDev  BY <1>2
  <2>. QED  BY <2>1, <2>2 DEF FreeFeed, FeedRec, FeedStates
<1>6. NoFilter \in FilterRec  BY <1>1, FilterTypes
<1>7. dmx.feed \in [1 .. mode.feednum -> FeedRec]  BY <1>3, <1>4, <1>5
<1>8. dmx.filter \in [1 .. mode.filternum -> FilterRec]  BY <1>3, <1>4, <1>6
<1>9. dmx.pesfilter \in [Pes -> 0 .. mode.feednum]  BY <1>2, <1>4
<1>10. PICK F, G, P : F = [i \in 1 .. n |-> FreeFeed] /\ G = [k \in 1 .. m |-> NoFilter] /\ P = [p \in Pes |-> 0]
  OBVIOUS
<1>11. dmx \in Demux
  <2>1. dmx = [feed |-> F, filter |-> G, feed_list |-> {}, pesfilter |-> P, frontend |-> "hw",
               feeds |-> 0, dma |-> FALSE]
    BY <1>1, <1>3, <1>10 DEF DemuxInit
  <2>2. /\ F \in [1 .. mode.feednum -> FeedRec] /\ G \in [1 .. mode.filternum -> FilterRec]
        /\ P \in [Pes -> 0 .. mode.feednum]
    BY <1>4, <1>7, <1>8, <1>9, <1>10
  <2>. QED  BY <2>1, <2>2 DEF Demux
<1>12. \A i \in 1 .. mode.feednum : dmx.feed[i] = FreeFeed  BY <1>3, <1>4
<1>13. \A k \in 1 .. mode.filternum : dmx.filter[k] = NoFilter  BY <1>3, <1>4
<1>. QED  BY <1>1, <1>4, <1>11, <1>12, <1>13

(* It holds when the device is registered.                                 *)
LEMMA LifeInit == Init => LifeInv
<1>. SUFFICES ASSUME Init  PROVE  LifeInv  OBVIOUS
<1>1. /\ mode \in Modes /\ dmx \in Demux /\ dmx.frontend = "hw" /\ dmx.feed_list = {}
      /\ dmx.feeds = 0 /\ dmx.dma = FALSE
      /\ \A p \in Pes : dmx.pesfilter[p] = 0
  BY InitTables
<1>2. PICK d \in Demux : d = dmx  BY <1>1
<1>3. /\ \A i \in 1 .. mode.feednum : /\ d.feed[i].state = "FREE" /\ d.feed[i].filtering = FALSE
      /\ \A k \in 1 .. mode.filternum : d.filter[k].free = TRUE
  BY <1>2, InitTables DEF FreeFeed, NoFilter
<1>4. mode.feednum \in Nat /\ mode.filternum \in Nat /\ NDev \in Nat  BY <1>1, Numbers
<1>5. Types
  <2>1. filter \in [DevFilters -> DevFilter]
    <3>1. NoParam \in Pars  BY DEF Pars
    <3>2. [state |-> "FREE", par |-> NoParam, sec |-> 0, feed |-> 0,
           mem |-> FALSE, sized |-> FALSE, buf |-> "empty"] \in DevFilter
      BY <1>4, <3>1 DEF DevFilter
    <3>. QED  BY <3>2 DEF Init
  <2>2. timer \in [DevFilters -> [armed : BOOLEAN, running : BOOLEAN]]  BY DEF Init
  <2>3. dvr \in [reader : {"none", "open"}, writers : Nat, orig : {"hw", "mem"}]  BY DEF Init
  <2>4. past \in [late : BOOLEAN, refused : BOOLEAN]  BY DEF Init
  <2>5. opened = {} /\ reading = {} /\ call = Idle  BY DEF Init
  <2>. QED  BY <1>1, <2>1, <2>2, <2>3, <2>4, <2>5 DEF Types
<1>6. call.pc = "idle" /\ call.op = "none"  BY DEF Init, Idle
<1>7. CallInv  BY <1>6 DEF CallInv
<1>8. FrontendInv
  <2>1. dvr.writers = 0  BY DEF Init
  <2>. QED  BY <1>1, <2>1 DEF FrontendInv
<1>9. Listed(dmx)  BY <1>1 DEF Listed
<1>10. DvrOnce  BY DEF Init, DvrOnce
<1>11. Used(d) = {} /\ Filtering(d) = {} /\ DOMAIN d.feed = 1 .. mode.feednum
       /\ DOMAIN d.filter = 1 .. mode.filternum
  BY <1>3, Tables
<1>12. PICK fs, H, w, b : fs = filter /\ H = Holding /\ w = Worked /\ b = Nameless  OBVIOUS
<1>13. \A f \in DevFilters : filter[f].state = "FREE"  BY DEF Init
<1>14. H = {} /\ w = 0 /\ b = 0  BY <1>6, <1>12, <1>13 DEF Holding, Worked, Nameless, Active
<1>15. Live(d, fs, H, w, b)
  <2>1. Runs(d, w)  BY <1>3, <1>4, <1>11, <1>14 DEF Runs
  <2>2. Counts(d)  BY <1>1, <1>2, <1>11, FS_EmptySet DEF Counts
  <2>3. Lists(d)  BY <1>3, <1>11 DEF Lists
  <2>4. SecFeeds(d, fs, H, w, b) /\ TsFeeds(d, fs, H)  BY <1>11 DEF SecFeeds, TsFeeds
  <2>. QED  BY <1>14, <2>1, <2>2, <2>3, <2>4 DEF Live
<1>16. Decoders(d, past.refused)  BY <1>1, <1>2, <1>11 DEF Decoders
<1>17. StageInv  BY <1>6 DEF StageInv
<1>18. SetInv /\ OpenInv  BY <1>13 DEF SetInv, OpenInv
<1>. QED  BY <1>2, <1>5, <1>7, <1>8, <1>9, <1>10, <1>12, <1>15, <1>16, <1>17, <1>18 DEF LifeInv

(* The invariant of the demux device: in every reachable state the tables  *)
(* are of their types and the list of feeds has no free entry; and as long *)
(* as no timeout has come late, every feed is run and counted, listed with *)
(* its filters, and has the owners that know it.                           *)
THEOREM LifeSafe == Spec => []LifeInv
<1>1. Init => LifeInv  BY LifeInit
<1>2. LifeInv /\ [Next]_vars => LifeInv'  BY LifeNext
<1>. QED  BY <1>1, <1>2, PTL DEF Spec

-----------------------------------------------------------------------------
(* What the invariant says of the device                                   *)

(* The tasklet meets no pointer without an owner, no call goes through a   *)
(* null feed, a started filter has its buffer.                             *)
LEMMA LifePointers == LifeInv => PointersSafe
<1>. SUFFICES ASSUME LifeInv  PROVE  PointersSafe  OBVIOUS
<1>1. Base /\ (~past.late => Tidy)  BY LifeParts
<1>2. mode \in Modes /\ dmx \in Demux /\ Listed(dmx)  BY <1>1 DEF Base, Types
<1>3. PICK d \in Demux : d = dmx  BY <1>2
<1>4. DOMAIN d.feed = 1 .. mode.feednum /\ Used(d) = {i \in 1 .. mode.feednum : d.feed[i].state # "FREE"}
  BY Tables
<1>5. CallbackSafe
  <2>1. ASSUME NEW i \in DOMAIN d.feed, i \in d.feed_list  PROVE  d.feed[i].state # "FREE"
    BY <1>2, <1>3, <2>1 DEF Listed
  <2>2. ASSUME NEW i \in DOMAIN d.feed, ~past.late, d.feed[i].filtering, d.feed[i].type = "SEC",
               NEW k \in Range(d.feed[i].filters)
        PROVE  /\ d.filter[k].priv # 0 /\ filter[d.filter[k].priv].feed = i
               /\ filter[d.filter[k].priv].sec = k
    <3>1. PICK fs, H, w, b : fs = filter /\ H = Holding /\ w = Worked /\ b = Nameless  OBVIOUS
    <3>2. Live(d, fs, H, w, b) /\ StageInv  BY <1>1, <1>3, <2>2, <3>1 DEF Tidy
    <3>3. d.feed[i].state = "GO" /\ i # w  BY <2>2, <3>2 DEF Live, Runs
    <3>4. i \in Used(d)  BY <1>4, <3>3
    <3>5. d.filter[k].feed = i  BY <3>2, <3>4 DEF Live, Lists
    <3>6. k # b
      <4>1. CASE call.pc = "start_filtering"
        <5>1. w = filter[call.f].feed /\ b = filter[call.f].sec  BY <3>1, <4>1 DEF Worked, Nameless
        <5>2. b \in Range(d.feed[w].filters) /\ w \in d.feed_list
          BY <1>3, <3>2, <4>1, <5>1 DEF StageInv
        <5>3. w \in Used(d)  BY <1>2, <1>3, <1>4, <5>2, DemuxFields DEF Listed
        <5>4. d.filter[b].feed = w  BY <3>2, <5>2, <5>3 DEF Live, Lists
        <5>. QED  BY <3>3, <3>5, <5>4
      <4>2. CASE call.pc # "start_filtering"
        <5>1. b = 0  BY <3>1, <4>2 DEF Nameless
        <5>2. k \in 1 .. mode.filternum  BY <1>4, FeedLists
        <5>. QED  BY <1>2, <5>1, <5>2, Numbers
      <4>. QED  BY <4>1, <4>2
    <3>7. /\ d.filter[k].priv \in H /\ fs[d.filter[k].priv].feed = i /\ fs[d.filter[k].priv].sec = k
      BY <2>2, <3>2, <3>4, <3>6 DEF Live, SecFeeds
    <3>8. H \subseteq DevFilters
      <4>1. call.pc # "idle" => call.f \in DevFilters  BY <1>1, Caller DEF Base
      <4>. QED  BY <3>1, <4>1 DEF Holding
    <3>9. d.filter[k].priv # 0  BY <1>2, <3>7, <3>8, Numbers DEF DevFilters
    <3>. QED  BY <3>1, <3>7, <3>9
  <2>. QED  BY <1>3, <2>1, <2>2 DEF CallbackSafe
<1>6. NoOops  BY <1>1 DEF NoOops, Tidy, StageInv
<1>7. StartedHasBuffer
  <2>1. ASSUME ~past.late, NEW f \in DevFilters, Active(f)  PROVE  filter[f].mem
    <3>1. Tidy /\ f \in Holding  BY <1>1, <2>1 DEF Holding
    <3>2. Served(dmx, filter, f, Nameless)  BY <1>1, <3>1, StartedServed
    <3>. QED  BY <3>2 DEF Served
  <2>. QED  BY <2>1 DEF StartedHasBuffer
<1>. QED  BY <1>5, <1>6, <1>7 DEF PointersSafe

(* While no call is running nothing is half done.                          *)
LEMMA Rest ==
  ASSUME LifeInv, ~past.late, call.pc = "idle"
  PROVE  /\ Base /\ Tidy /\ mode \in Modes /\ dmx \in Demux /\ Listed(dmx)
         /\ Live(dmx, filter, Act(filter), 0, 0) /\ Holding = Act(filter)
<1>1. Base /\ Tidy  BY LifeParts
<1>2. Holding = Act(filter) /\ Worked = 0 /\ Nameless = 0
  BY HoldingIs DEF Owning, Worked, Nameless
<1>. QED  BY <1>1, <1>2 DEF Base, Types, Tidy

(* A started filter is served.                                             *)
LEMMA LifeServed == LifeInv => ActiveServed
<1>. SUFFICES ASSUME LifeInv, ~past.late, call.pc = "idle", NEW f \in DevFilters, Active(f)
              PROVE  LET i == filter[f].feed IN
                     /\ i # 0
                     /\ dmx.feed[i].filtering /\ i \in dmx.feed_list
                     /\ dmx.feed[i].pid = filter[f].par.pid
                     /\ IF filter[f].par.type = "SEC"
                        THEN filter[f].sec \in Range(dmx.feed[i].filters) /\ dmx.filter[filter[f].sec].priv = f
                        ELSE dmx.feed[i].priv = f
  BY DEF ActiveServed
<1>1. /\ Base /\ Tidy /\ mode \in Modes /\ dmx \in Demux /\ Listed(dmx)
      /\ Live(dmx, filter, Act(filter), 0, 0) /\ Holding = Act(filter)
  BY Rest
<1>2. f \in Holding  BY DEF Holding
<1>3. PICK i : i = filter[f].feed  OBVIOUS
<1>4. Served(dmx, filter, f, Nameless) /\ i \in dmx.feed_list /\ i \in Used(dmx) /\ i \in 1 .. mode.feednum /\ i # 0
  BY <1>1, <1>2, <1>3, StartedServed
<1>5. dmx.feed[i].filtering
  <2>1. i \in DOMAIN dmx.feed /\ dmx.feed[i].state # "FREE"  BY <1>4 DEF Used
  <2>2. dmx.feed[i].state \in FeedStates  BY <1>1, <1>4, DemuxFields, FeedFields
  <2>3. Runs(dmx, 0)  BY <1>1 DEF Live
  <2>. QED  BY <1>4, <2>1, <2>2, <2>3 DEF Runs, FeedStates
<1>. QED  BY <1>3, <1>4, <1>5 DEF Served

(* The tables are of their types.                                          *)
LEMMA LifeTypes == LifeInv => TypeOK
<1>. SUFFICES ASSUME LifeInv  PROVE  TypeOK  OBVIOUS
<1>1. Types  BY DEF LifeInv
<1>2. PICK d \in Demux : d = dmx  BY <1>1 DEF Types
<1>3. /\ mode \in Modes /\ filter \in [DevFilters -> DevFilter]
      /\ opened \subseteq DevFilters /\ reading \subseteq opened
  BY <1>1 DEF Types
<1>4. mode.feednum \in 1 .. NFeeds /\ mode.filternum \in 1 .. NFilters /\ NFeeds \in Nat /\ NFilters \in Nat
  BY <1>3, LifeConstants, DemuxConstants DEF Feeds, Filters
<1>5. 0 .. mode.feednum \subseteq Feeds \cup {0} /\ 0 .. mode.filternum \subseteq Filters \cup {0}
  BY <1>4 DEF Feeds, Filters
<1>6. DOMAIN d.feed = 1 .. mode.feednum /\ DOMAIN d.filter = 1 .. mode.filternum  BY Tables
<1>7. /\ d.feed \in [1 .. mode.feednum -> FeedRec]
      /\ d.feed_list \subseteq 1 .. mode.feednum
      /\ d.pesfilter \in [Pes -> 0 .. mode.feednum]
      /\ d.frontend \in {"hw", "mem"} /\ d.feeds \in Int /\ d.dma \in BOOLEAN
  BY DemuxFields
<1>8. ASSUME NEW i \in DOMAIN d.feed
      PROVE  d.feed[i].state \in FeedStates /\ Range(d.feed[i].filters) \subseteq DOMAIN d.filter
  <2>1. d.feed[i] \in FeedRec /\ i \in 1 .. mode.feednum  BY <1>6, <1>7
  <2>2. d.feed[i].state \in FeedStates  BY <2>1, FeedFields
  <2>3. Range(d.feed[i].filters) \subseteq 1 .. mode.filternum  BY <2>1, FeedLists
  <2>. QED  BY <1>6, <2>2, <2>3
<1>9. d.feed_list \subseteq DOMAIN d.feed /\ d.pesfilter \in [Pes -> Feeds \cup {0}]
  BY <1>5, <1>6, <1>7
<1>10. ASSUME NEW f \in DevFilters
       PROVE  /\ filter[f].state \in {"FREE", "ALLOCATED", "SET", "GO", "DONE", "TIMEDOUT"}
              /\ filter[f].feed \in Feeds \cup {0} /\ filter[f].sec \in Filters \cup {0}
              /\ filter[f].buf \in {"empty", "data", "error"}
  <2>1. filter[f] \in DevFilter  BY <1>3
  <2>2. /\ filter[f].state \in {"FREE", "ALLOCATED", "SET", "GO", "DONE", "TIMEDOUT"}
        /\ filter[f].sec \in 0 .. mode.filternum /\ filter[f].feed \in 0 .. mode.feednum
        /\ filter[f].buf \in {"empty", "data", "error"}
    BY <2>1, FilterFields
  <2>. QED  BY <1>5, <2>2
<1>11. /\ \A i \in DOMAIN dmx.feed :
            dmx.feed[i].state \in FeedStates /\ Range(dmx.feed[i].filters) \subseteq DOMAIN dmx.filter
       /\ dmx.feed_list \subseteq DOMAIN dmx.feed /\ dmx.pesfilter \in [Pes -> Feeds \cup {0}]
  BY <1>2, <1>8, <1>9
<1>12. dmx.feeds \in Int /\ dmx.dma \in BOOLEAN /\ dmx.frontend \in {"hw", "mem", "none"}
  BY <1>2, <1>7
<1>. QED  BY <1>3, <1>10, <1>11, <1>12 DEF TypeOK

(* Whatever is not free belongs to a started filter.                       *)
LEMMA LifeNoLeak == LifeInv => NoLeak
<1>. SUFFICES ASSUME LifeInv, ~past.late, call.pc = "idle"
              PROVE  /\ \A i \in DOMAIN dmx.feed \ FreeFeeds(dmx) :
                          \E f \in DevFilters : Active(f) /\ filter[f].feed = i
                     /\ \A k \in DOMAIN dmx.filter \ FreeFilters(dmx) :
                          \E i \in DOMAIN dmx.feed \ FreeFeeds(dmx) : k \in Range(dmx.feed[i].filters)
  BY DEF NoLeak
<1>1. /\ mode \in Modes /\ dmx \in Demux /\ Listed(dmx)
      /\ Live(dmx, filter, Act(filter), 0, 0)
  BY Rest
<1>20. PICK d \in Demux : d = dmx  BY <1>1
<1>21. PICK H, fs : H = Act(filter) /\ fs = filter  OBVIOUS
<1>2. d = dmx /\ H = Act(filter) /\ fs = filter  BY <1>20, <1>21
<1>3. Live(d, fs, H, 0, 0)  BY <1>1, <1>2
<1>4. DOMAIN d.feed \ FreeFeeds(d) = Used(d)  BY DEF FreeFeeds, Used
<1>5. ASSUME NEW i \in Used(d)  PROVE  \E f \in H : fs[f].feed = i
  <2>1. i \in 1 .. mode.feednum /\ i # 0  BY <1>1, Tables, Numbers
  <2>2. d.feed[i].type \in {"TS", "SEC"}  BY <2>1, DemuxFields, FeedFields
  <2>3. CASE d.feed[i].type = "TS"  BY <1>3, <2>3 DEF Live, TsFeeds
  <2>4. CASE d.feed[i].type = "SEC"
    <3>1. d.feed[i].filters # << >>  BY <1>3, <2>1, <2>4 DEF Live, SecFeeds
    <3>2. PICK g \in H : fs[g].par.type = "SEC" /\ fs[g].par.pid = d.feed[i].pid
      BY <1>1, <1>2, <1>3, <2>4, <3>1, NobodyLeft
    <3>3. Listed(d)  BY <1>1, <1>2
    <3>4. fs[g].feed = i  BY <1>3, <2>4, <3>2, <3>3, OneFeed
    <3>. QED  BY <3>4
  <2>. QED  BY <2>2, <2>3, <2>4
<1>6. ASSUME NEW k \in DOMAIN d.filter \ FreeFilters(d)
      PROVE  \E i \in Used(d) : k \in Range(d.feed[i].filters)
  <2>1. ~d.filter[k].free  BY DEF FreeFilters
  <2>. QED  BY <1>3, <2>1 DEF Live, Lists
<1>7. \A f \in H : f \in DevFilters /\ Active(f)  BY <1>2 DEF Act, Active
<1>. QED  BY <1>2, <1>4, <1>5, <1>6, <1>7

(* The card streams while some feed is filtering.                          *)
LEMMA LifeCard == LifeInv => CardStreams
<1>. SUFFICES ASSUME LifeInv, ~past.late, call.pc = "idle"
              PROVE  /\ dmx.dma = (\E i \in DOMAIN dmx.feed : dmx.feed[i].filtering)
                     /\ dmx.feeds = Cardinality({i \in DOMAIN dmx.feed : dmx.feed[i].filtering})
  BY DEF CardStreams
<1>1. Counts(dmx)  BY Rest DEF Live
<1>2. dmx.feeds = Cardinality(Filtering(dmx)) /\ dmx.dma = (Filtering(dmx) # {})  BY <1>1 DEF Counts
<1>3. (Filtering(dmx) # {}) = (\E i \in DOMAIN dmx.feed : dmx.feed[i].filtering)  BY DEF Filtering
<1>. QED  BY <1>2, <1>3 DEF Filtering

(* What is closed is free.                                                 *)
LEMMA LifeClosed == LifeInv => ClosedIsFree
<1>. SUFFICES ASSUME LifeInv  PROVE  ClosedIsFree  OBVIOUS
<1>1. FrontendInv /\ (~past.late => OpenInv)  BY DEF LifeInv
<1>. QED  BY <1>1 DEF ClosedIsFree, FrontendInv, OpenInv

(* A decoder stream has one feed.                                          *)
LEMMA LifeStreams == LifeInv => StreamsOnce
<1>. SUFFICES ASSUME LifeInv  PROVE  StreamsOnce  OBVIOUS
<1>1. DvrOnce  BY DEF LifeInv
<1>2. DecoderOwned
  <2>. SUFFICES ASSUME ~past.late, NEW p \in Pes
                PROVE  LET users == {i \in DOMAIN dmx.feed : /\ dmx.feed[i].type = "TS" /\ dmx.feed[i].dec = p
                                                              /\ dmx.feed[i].state \in {"READY", "GO"}}
                       IN /\ dmx.pesfilter[p] # 0 => /\ dmx.feed[dmx.pesfilter[p]].state # "FREE"
                                                     /\ dmx.feed[dmx.pesfilter[p]].dec = p
                          /\ ~past.refused =>
                               (Cardinality(users) <= 1 /\ (users # {} => users = {dmx.pesfilter[p]}))
    BY DEF DecoderOwned
  <2>1. Decoders(dmx, past.refused)  BY DEF LifeInv
  <2>2. PICK users : users = {i \in DOMAIN dmx.feed : /\ dmx.feed[i].type = "TS" /\ dmx.feed[i].dec = p
                                                      /\ dmx.feed[i].state \in {"READY", "GO"}}
    OBVIOUS
  <2>3. dmx.pesfilter[p] # 0 => /\ dmx.feed[dmx.pesfilter[p]].state # "FREE"
                                /\ dmx.feed[dmx.pesfilter[p]].dec = p
    BY <2>1 DEF Decoders, Used
  <2>4. ASSUME ~past.refused
        PROVE  Cardinality(users) <= 1 /\ (users # {} => users = {dmx.pesfilter[p]})
    <3>1. PICK x : x = dmx.pesfilter[p]  OBVIOUS
    <3>2. \A i \in users : i = x  BY <2>1, <2>2, <2>4, <3>1 DEF Decoders, Used
    <3>3. CASE users = {}  BY <3>3, FS_EmptySet
    <3>4. CASE users # {}
      <4>1. users = {x}  BY <3>2, <3>4
      <4>2. Cardinality({x}) = 1  BY FS_Singleton
      <4>. QED  BY <3>1, <4>1, <4>2
    <3>. QED  BY <3>3, <3>4
  <2>. QED  BY <2>2, <2>3, <2>4
<1>. QED  BY <1>1, <1>2 DEF StreamsOnce

(* No call, packet or timer of dmxdev.c follows a pointer that is NULL or  *)
(* stale before a timeout has come late, for any number of filters, feeds  *)
(* and files.                                                              *)
THEOREM PointersAlways == Spec => []PointersSafe
<1>1. LifeInv => PointersSafe  BY LifePointers
<1>. QED  BY <1>1, LifeSafe, PTL

(* A started filter is served by a feed that filters its PID, however many *)
(* others share that feed and in whatever order they come and go, until a  *)
(* timeout comes late.                                                     *)
THEOREM ServedAlways == Spec => []ActiveServed
<1>1. LifeInv => ActiveServed  BY LifeServed
<1>. QED  BY <1>1, LifeSafe, PTL

(* No feed and no filter of the demux is lost, the card's count of feeds   *)
(* is right, and what is closed is free unless a signal interrupted the    *)
(* close, until a timeout comes late.                                      *)
THEOREM AccountedAlways == Spec => []Accounted
<1>1. LifeInv => Accounted  BY LifeTypes, LifeNoLeak, LifeCard, LifeClosed DEF Accounted
<1>. QED  BY <1>1, LifeSafe, PTL

(* A decoder stream has one feed, until a timeout comes late or a feed is  *)
(* refused, and a packet goes to the DVR once.                             *)
THEOREM StreamsOnceAlways == Spec => []StreamsOnce
<1>1. LifeInv => StreamsOnce  BY LifeStreams
<1>. QED  BY <1>1, LifeSafe, PTL
=============================================================================
