-------------------------- MODULE TextRendererProofs --------------------------
(***************************************************************************)
(* For atlases of any size, glyphs of any sizes and texts of any length:   *)
(* the glyphs of an atlas never share a texel; only a glyph too high for   *)
(* every atlas makes a text fail; every command is legal when the GPU runs *)
(* it; no temporary texture outlives its copies; and a frame draws every   *)
(* character of its text.                                                  *)
(*                                                                         *)
(* That the glyphs are apart is not inductive: add looks at no glyph but   *)
(* the new one.  What it relies on is the shelf (IInv): every glyph is     *)
(* above the current row, or in it and to the left of where the next one   *)
(* goes.                                                                   *)
(*                                                                         *)
(* Nor is the legality of a command, which is decided where it is recorded *)
(* and matters where it is run.  What is to be run is always the rest of   *)
(* the batch the program waits for (QueueInv); how far it has come tells   *)
(* the layout of every image, and each glyph of an atlas is in its image   *)
(* or will be by a copy that was recorded and is left to run (GpuInv).     *)
(***************************************************************************)
EXTENDS TextRenderer, SequenceTheorems, FiniteSetTheorems, WellFoundedInduction, TLAPS

AtlasFields ==
  {"lastX", "lastY", "rwHeight", "glyphBounds", "modifying", "recorded", "rs"}

Above(r, a) == r.y + r.height <= a.lastY
InRow(r, a) == r.y + r.height <= a.lastY + a.rwHeight /\ r.x + r.width <= a.lastX

Apart(r, s) ==
  \/ r.x + r.width <= s.x \/ s.x + s.width <= r.x
  \/ r.y + r.height <= s.y \/ s.y + s.height <= r.y

Shelved(a) ==
  /\ DOMAIN a = AtlasFields
  /\ a.lastX \in Nat /\ a.lastY \in Nat /\ a.rwHeight \in Nat
  /\ \A c \in DOMAIN a.glyphBounds :
       /\ a.glyphBounds[c] \in Rect
       /\ a.glyphBounds[c].x + a.glyphBounds[c].width <= Width
       /\ a.glyphBounds[c].y + a.glyphBounds[c].height <= Height
       /\ Above(a.glyphBounds[c], a) \/ InRow(a.glyphBounds[c], a)
  /\ \A c, d \in DOMAIN a.glyphBounds :
       c # d => Apart(a.glyphBounds[c], a.glyphBounds[d])

(* There is room for the character where the next glyph goes.              *)
HasRoom(a, c) ==
  a.lastX + Glyph[c].width <= Width /\ a.lastY + Glyph[c].height < Height

Placing == pc \in {"accepted", "uploading"}

IInv ==
  /\ DOMAIN atlases = 1 .. Len(atlases)
  /\ atlases \in Seq({atlases[i] : i \in DOMAIN atlases})
  /\ \A i \in DOMAIN atlases : Shelved(atlases[i])
  /\ Placing \/ pc \in {"created", "put", "failed"} => symbol \in Chars
  /\ Placing => at \in DOMAIN atlases /\ HasRoom(atlases[at], symbol)
  /\ pc = "created" => at = Len(atlases) + 1
  /\ Placing \/ pc = "created" => back \in {"ready", "put"}
  /\ pc = "put" => symbol \in DOMAIN infs
  /\ \A c \in DOMAIN infs :
       /\ infs[c] \in DOMAIN atlases
       /\ c \in DOMAIN atlases[infs[c]].glyphBounds \/ Glyph[c].height >= Height
  /\ FailsOnlyIfTooHigh

-----------------------------------------------------------------------------
(* Sequences, as functions.                                                *)

LEMMA SeqOfElements ==
  ASSUME NEW n \in Nat, NEW f, f = [i \in 1 .. n |-> f[i]]
  PROVE  /\ f \in Seq({f[i] : i \in DOMAIN f})
         /\ Len(f) = n
         /\ DOMAIN f = 1 .. n
<1> DEFINE S == {f[i] : i \in 1 .. n}
<1>1. DOMAIN f = 1 .. n
  OBVIOUS
<1>2. f \in [1 .. n -> S]
  OBVIOUS
<1>3. f \in Seq(S)
  BY <1>2, SeqDef
<1>4. Len(f) = n
  BY <1>1, <1>3, LenProperties
<1> QED
  BY <1>1, <1>3, <1>4

LEMMA AppendToElements ==
  ASSUME NEW f, f \in Seq({f[i] : i \in DOMAIN f}), NEW e
  PROVE  /\ Append(f, e) \in Seq({Append(f, e)[i] : i \in DOMAIN Append(f, e)})
         /\ Len(Append(f, e)) = Len(f) + 1
         /\ DOMAIN Append(f, e) = 1 .. Len(f) + 1
         /\ Append(f, e)[Len(f) + 1] = e
         /\ \A i \in 1 .. Len(f) : Append(f, e)[i] = f[i]
<1> DEFINE S == {f[i] : i \in DOMAIN f} \cup {e}
           g == Append(f, e)
<1>1. f \in Seq(S)
  BY SeqDef
<1>2. /\ g \in Seq(S) /\ Len(g) = Len(f) + 1 /\ g[Len(f) + 1] = e
      /\ \A i \in 1 .. Len(f) : g[i] = f[i]
  BY <1>1, AppendProperties
<1>3. Len(g) \in Nat /\ g \in [1 .. Len(g) -> S]
  BY <1>2, LenProperties
<1> HIDE DEF g
<1>4. g \in Seq({g[i] : i \in DOMAIN g}) /\ DOMAIN g = 1 .. Len(g)
  BY <1>3, SeqOfElements
<1> QED
  BY <1>2, <1>4 DEF g

-----------------------------------------------------------------------------
(* The shelf *)

LEMMA EmptyShelved == Shelved(EmptyAtlas)
BY DEF Shelved, EmptyAtlas, AtlasFields

LEMMA StartModifyShelved ==
  ASSUME NEW a, Shelved(a), NEW i
  PROVE  /\ Shelved(startModify(a, i))
         /\ startModify(a, i).lastX = a.lastX
         /\ startModify(a, i).lastY = a.lastY
         /\ startModify(a, i).rwHeight = a.rwHeight
         /\ startModify(a, i).glyphBounds = a.glyphBounds
BY DEF Shelved, startModify, AtlasFields, Above, InRow

LEMMA WrappedShelved ==
  ASSUME NEW a, Shelved(a), NEW c \in Chars
  PROVE  /\ Shelved(Wrapped(a, c))
         /\ Wrapped(a, c).glyphBounds = a.glyphBounds
         /\ Accepts(a, c) => HasRoom(Wrapped(a, c), c)
<1> USE AtlasAssumption
<1> DEFINE w == Wrapped(a, c)
<1>1. Glyph[c].width \in 0 .. Width /\ Glyph[c].height \in Nat /\ Width \in Nat
  OBVIOUS
<1>2. /\ DOMAIN w = AtlasFields /\ w.glyphBounds = a.glyphBounds
      /\ \/ w.lastX = a.lastX /\ w.lastY = a.lastY /\ w.rwHeight = a.rwHeight
            /\ a.lastX + Glyph[c].width < Width
         \/ w.lastX = 0 /\ w.lastY = a.lastY + a.rwHeight /\ w.rwHeight = 0
  BY <1>1 DEF Shelved, Wrapped, AtlasFields
<1> HIDE DEF w
<1>3. Shelved(w)
  BY <1>2 DEF Shelved, Above, InRow, Rect
<1>4. w.lastX + Glyph[c].width <= Width
  BY <1>1, <1>2, <1>3 DEF Shelved
<1> QED
  BY <1>2, <1>3, <1>4 DEF Accepts, HasRoom, w

LEMMA PlacedShelved ==
  ASSUME NEW a, Shelved(a), NEW c \in Chars, HasRoom(a, c)
  PROVE  /\ Shelved(Placed(a, c))
         /\ DOMAIN Placed(a, c).glyphBounds = DOMAIN a.glyphBounds \cup {c}
<1> USE AtlasAssumption
<1> DEFINE p == Placed(a, c)
           r == PlaceOf(a, c)
<1>1. /\ Glyph[c].width \in Nat /\ Glyph[c].height \in Nat
      /\ Width \in Nat /\ Height \in Nat
  OBVIOUS
<1>2. /\ r \in Rect /\ r.x = a.lastX /\ r.y = a.lastY
      /\ r.width = Glyph[c].width /\ r.height = Glyph[c].height
  BY <1>1 DEF Shelved, PlaceOf, Rect
<1>3. /\ DOMAIN p = AtlasFields
      /\ p.lastX = a.lastX + r.width /\ p.lastY = a.lastY
      /\ p.rwHeight \in Nat /\ p.rwHeight >= a.rwHeight /\ p.rwHeight >= r.height
      /\ p.glyphBounds = Put(a.glyphBounds, c, r)
  BY <1>1, <1>2 DEF Shelved, Placed, AtlasFields
<1>4. /\ DOMAIN p.glyphBounds = DOMAIN a.glyphBounds \cup {c}
      /\ p.glyphBounds[c] = r
      /\ \A d \in DOMAIN a.glyphBounds : d # c => p.glyphBounds[d] = a.glyphBounds[d]
  BY <1>3 DEF Put
<1>5. r.x + r.width <= Width /\ r.y + r.height <= Height /\ InRow(r, p)
  BY <1>1, <1>2, <1>3 DEF HasRoom, Shelved, InRow
<1> HIDE DEF p, r
<1>6. ASSUME NEW d \in DOMAIN a.glyphBounds
      PROVE  /\ a.glyphBounds[d] \in Rect
             /\ Above(a.glyphBounds[d], p) \/ InRow(a.glyphBounds[d], p)
             /\ Apart(a.glyphBounds[d], r) /\ Apart(r, a.glyphBounds[d])
  BY <1>1, <1>2, <1>3 DEF Shelved, Above, InRow, Apart, Rect
<1>7. /\ p.lastX \in Nat /\ p.lastY \in Nat
  BY <1>1, <1>2, <1>3 DEF Shelved
<1>8. ASSUME NEW d \in DOMAIN p.glyphBounds
      PROVE  /\ p.glyphBounds[d] \in Rect
             /\ p.glyphBounds[d].x + p.glyphBounds[d].width <= Width
             /\ p.glyphBounds[d].y + p.glyphBounds[d].height <= Height
             /\ Above(p.glyphBounds[d], p) \/ InRow(p.glyphBounds[d], p)
  <2>1. CASE d = c
    BY <2>1, <1>2, <1>4, <1>5
  <2>2. CASE d # c
    BY <2>2, <1>4, <1>6 DEF Shelved
  <2> QED
    BY <2>1, <2>2
<1>9. ASSUME NEW d \in DOMAIN p.glyphBounds, NEW e \in DOMAIN p.glyphBounds, d # e
      PROVE  Apart(p.glyphBounds[d], p.glyphBounds[e])
  BY <1>4, <1>6, <1>9 DEF Shelved
<1> QED
  BY <1>3, <1>4, <1>7, <1>8, <1>9 DEF Shelved, p

LEMMA ShelvedPacked == ASSUME NEW a, Shelved(a) PROVE Packed(a)
<1> USE AtlasAssumption
<1>1. ASSUME NEW r \in Rect, NEW t \in Texels(r)
      PROVE  /\ t = <<t[1], t[2]>> /\ t[1] \in Int /\ t[2] \in Int
             /\ r.x <= t[1] /\ t[1] < r.x + r.width
             /\ r.y <= t[2] /\ t[2] < r.y + r.height
  BY DEF Texels, Rect
<1>2. ASSUME NEW c \in DOMAIN a.glyphBounds, NEW t \in Texels(a.glyphBounds[c])
      PROVE  t \in (0 .. Width - 1) \X (0 .. Height - 1)
  <2>1. /\ a.glyphBounds[c] \in Rect
        /\ a.glyphBounds[c].x + a.glyphBounds[c].width <= Width
        /\ a.glyphBounds[c].y + a.glyphBounds[c].height <= Height
    BY DEF Shelved
  <2>2. t = <<t[1], t[2]>> /\ t[1] \in 0 .. Width - 1 /\ t[2] \in 0 .. Height - 1
    BY <1>1, <2>1 DEF Rect
  <2> QED
    BY <2>2
<1>3. ASSUME NEW c \in DOMAIN a.glyphBounds, NEW d \in DOMAIN a.glyphBounds, c # d
      PROVE  Texels(a.glyphBounds[c]) \cap Texels(a.glyphBounds[d]) = {}
  <2> DEFINE r == a.glyphBounds[c]
             q == a.glyphBounds[d]
  <2>1. r \in Rect /\ q \in Rect /\ Apart(r, q)
    BY <1>3 DEF Shelved
  <2> HIDE DEF r, q
  <2>2. ASSUME NEW t, t \in Texels(r), t \in Texels(q)
        PROVE  FALSE
    <3>1. /\ r.x <= t[1] /\ t[1] < r.x + r.width /\ r.y <= t[2] /\ t[2] < r.y + r.height
          /\ t[1] \in Int /\ t[2] \in Int
      BY <1>1, <2>1, <2>2
    <3>2. /\ q.x <= t[1] /\ t[1] < q.x + q.width /\ q.y <= t[2] /\ t[2] < q.y + q.height
      BY <1>1, <2>1, <2>2
    <3> QED
      BY <2>1, <3>1, <3>2 DEF Apart, Rect
  <2> QED
    BY <2>2 DEF r, q
<1> QED
  BY <1>2, <1>3 DEF Packed

-----------------------------------------------------------------------------
(* The atlases *)

(* What a step that leaves the atlases alone has to keep.                  *)
LEMMA AtlasesUntouched ==
  ASSUME IInv, UNCHANGED <<atlases, infs>>,
         pc' \notin {"accepted", "uploading", "created", "put", "failed"}
  PROVE  IInv'
BY DEF IInv, Placing, FailsOnlyIfTooHigh

(* Every atlas tried keeps its shelf and its glyphs.                       *)
LEMMA TriedShelved ==
  ASSUME IInv, NEW c \in Chars
  PROVE  /\ Tried(c) \in Seq({Tried(c)[i] : i \in DOMAIN Tried(c)})
         /\ Len(Tried(c)) = Len(atlases)
         /\ DOMAIN Tried(c) = 1 .. Len(atlases)
         /\ \A i \in DOMAIN atlases :
              /\ Shelved(Tried(c)[i])
              /\ Tried(c)[i].glyphBounds = atlases[i].glyphBounds
         /\ \A i \in FirstAccepting(c) :
              i \in DOMAIN atlases /\ HasRoom(Tried(c)[i], c)
<1> DEFINE T == Tried(c)
           started(i) == startModify(atlases[i], i)
<1>1. DOMAIN T = 1 .. Len(atlases) /\ Len(atlases) \in Nat
  BY LenProperties DEF IInv, Tried
<1>2. T = [i \in 1 .. Len(atlases) |-> T[i]]
  BY <1>1 DEF Tried
<1>3. ASSUME NEW i \in DOMAIN atlases
      PROVE  /\ T[i] = Wrapped(started(i), c) \/ T[i] = atlases[i]
             /\ i \in FirstAccepting(c) => T[i] = Wrapped(started(i), c)
  BY DEF Tried, FirstAccepting
<1>4. ASSUME NEW i \in DOMAIN atlases
      PROVE  /\ Shelved(started(i))
             /\ started(i).lastX = atlases[i].lastX
             /\ started(i).lastY = atlases[i].lastY
             /\ started(i).rwHeight = atlases[i].rwHeight
             /\ started(i).glyphBounds = atlases[i].glyphBounds
  BY StartModifyShelved DEF IInv
<1>5. ASSUME NEW i \in DOMAIN atlases
      PROVE  Accepts(atlases[i], c) = Accepts(started(i), c)
  BY <1>4 DEF Accepts, Wrapped
<1> HIDE DEF started
<1>6. ASSUME NEW i \in DOMAIN atlases
      PROVE  /\ Shelved(T[i])
             /\ T[i].glyphBounds = atlases[i].glyphBounds
             /\ i \in FirstAccepting(c) => HasRoom(T[i], c)
  <2>1. Shelved(Wrapped(started(i), c))
        /\ Wrapped(started(i), c).glyphBounds = started(i).glyphBounds
        /\ (Accepts(started(i), c) => HasRoom(Wrapped(started(i), c), c))
    BY <1>4, WrappedShelved
  <2>2. i \in FirstAccepting(c) => Accepts(started(i), c)
    BY <1>5 DEF FirstAccepting
  <2>3. Shelved(atlases[i])
    BY DEF IInv
  <2> QED
    BY <1>3, <1>4, <2>1, <2>2, <2>3
<1>7. FirstAccepting(c) \subseteq DOMAIN atlases
  BY DEF FirstAccepting
<1>8. T \in Seq({T[i] : i \in DOMAIN T}) /\ Len(T) = Len(atlases)
  BY <1>1, <1>2, SeqOfElements
<1> QED
  BY <1>1, <1>6, <1>7, <1>8

LEMMA SearchKeeps ==
  ASSUME IInv, NEW c \in Chars, NEW from \in {"ready", "put"}, search(c, from)
  PROVE  IInv'
<1>1. atlases' = Tried(c) /\ symbol' = c /\ back' = from /\ UNCHANGED infs
  BY DEF search
<1>2. /\ DOMAIN atlases' = 1 .. Len(atlases') /\ DOMAIN atlases' = DOMAIN atlases
      /\ atlases' \in Seq({atlases'[i] : i \in DOMAIN atlases'})
      /\ \A i \in DOMAIN atlases :
           Shelved(atlases'[i]) /\ atlases'[i].glyphBounds = atlases[i].glyphBounds
      /\ \A i \in FirstAccepting(c) : i \in DOMAIN atlases /\ HasRoom(atlases'[i], c)
      /\ Len(atlases') = Len(atlases)
  BY <1>1, TriedShelved DEF IInv
<1>3. \/ pc' = "accepted" /\ at' \in FirstAccepting(c)
      \/ pc' = "created" /\ at' = Len(atlases) + 1
  BY DEF search
<1>4. /\ Placing' => at' \in DOMAIN atlases' /\ HasRoom(atlases'[at'], symbol')
      /\ pc' = "created" => at' = Len(atlases') + 1
      /\ (Placing \/ pc = "created")' => back' \in {"ready", "put"}
      /\ (Placing \/ pc \in {"created", "put", "failed"})' => symbol' \in Chars
      /\ pc' # "put" /\ pc' # "failed"
  BY <1>1, <1>2, <1>3 DEF Placing
<1>5. \A d \in DOMAIN infs' :
        /\ infs'[d] \in DOMAIN atlases'
        /\ d \in DOMAIN atlases'[infs'[d]].glyphBounds \/ Glyph[d].height >= Height
  BY <1>1, <1>2 DEF IInv
<1> QED
  BY <1>2, <1>4, <1>5 DEF IInv, FailsOnlyIfTooHigh

(* Return from preload, once the character has an atlas.                   *)
LEMMA ReturnKeeps ==
  ASSUME IInv, Return, Placing \/ pc = "created", symbol \in DOMAIN infs'
  PROVE  /\ pc' \in {"ready", "put"}
         /\ pc' = "put" => symbol' = symbol /\ symbol' \in DOMAIN infs'
         /\ symbol \in Chars
BY DEF IInv, Return, Placing

LEMMA CreatedKeeps == ASSUME IInv, created PROVE IInv'
<1> DEFINE a == Wrapped(startModify(EmptyAtlas, at), symbol)
<1>1. at = Len(atlases) + 1 /\ symbol \in Chars /\ Len(atlases) \in Nat
      /\ atlases' = Append(atlases, a)
  BY LenProperties DEF IInv, created
<1>2. /\ Shelved(a)
      /\ Accepts(EmptyAtlas, symbol) => HasRoom(a, symbol)
      /\ ~ Accepts(EmptyAtlas, symbol) => Glyph[symbol].height >= Height
  <2> DEFINE e == startModify(EmptyAtlas, at)
  <2>1. Shelved(e) /\ e.lastX = 0 /\ e.lastY = 0 /\ e.rwHeight = 0
    BY EmptyShelved, StartModifyShelved DEF EmptyAtlas
  <2>2. EmptyAtlas.lastX = 0 /\ EmptyAtlas.lastY = 0 /\ EmptyAtlas.rwHeight = 0
    BY DEF EmptyAtlas
  <2>3. Wrapped(EmptyAtlas, symbol).lastY = 0
    BY <2>2 DEF Wrapped, EmptyAtlas
  <2>4. Wrapped(e, symbol).lastY = 0
    <3>1. DOMAIN e = AtlasFields
      BY <2>1 DEF Shelved
    <3> HIDE DEF e
    <3> QED
      BY <2>1, <3>1 DEF Wrapped, AtlasFields
  <2>5. Accepts(EmptyAtlas, symbol) = Accepts(e, symbol)
    BY <2>3, <2>4 DEF Accepts
  <2>6. Shelved(a) /\ (Accepts(e, symbol) => HasRoom(a, symbol))
    BY <1>1, <2>1, WrappedShelved
  <2>7. ~ Accepts(EmptyAtlas, symbol) => Glyph[symbol].height >= Height
    BY <1>1, <2>3, AtlasAssumption DEF Accepts
  <2> QED
    BY <2>5, <2>6, <2>7
<1> HIDE DEF a
<1>3. /\ atlases' \in Seq({atlases'[i] : i \in DOMAIN atlases'})
      /\ Len(atlases') = at
      /\ DOMAIN atlases' = 1 .. at
      /\ atlases'[at] = a
      /\ \A i \in DOMAIN atlases : i \in DOMAIN atlases' /\ atlases'[i] = atlases[i]
  BY <1>1, AppendToElements DEF IInv
<1>4. \A i \in DOMAIN atlases' : Shelved(atlases'[i])
  BY <1>1, <1>2, <1>3 DEF IInv
<1>5. CASE Accepts(EmptyAtlas, symbol)
  <2>1. pc' = "accepted" /\ UNCHANGED <<infs, symbol, at, back>>
    BY <1>5 DEF created
  <2>2. /\ Placing' => at' \in DOMAIN atlases' /\ HasRoom(atlases'[at'], symbol')
        /\ pc' \notin {"created", "put", "failed"} /\ back' \in {"ready", "put"}
    BY <1>1, <1>2, <1>3, <1>5, <2>1 DEF IInv, created
  <2>3. \A c \in DOMAIN infs' :
          /\ infs'[c] \in DOMAIN atlases'
          /\ c \in DOMAIN atlases'[infs'[c]].glyphBounds \/ Glyph[c].height >= Height
    BY <1>3, <2>1 DEF IInv
  <2> QED
    BY <1>1, <1>3, <1>4, <2>1, <2>2, <2>3 DEF IInv, FailsOnlyIfTooHigh
<1>6. CASE ~ Accepts(EmptyAtlas, symbol)
  <2>1. infs' = Put(infs, symbol, at) /\ Return /\ pc = "created"
    BY <1>6 DEF created
  <2>2. /\ DOMAIN infs' = DOMAIN infs \cup {symbol} /\ infs'[symbol] = at
        /\ \A c \in DOMAIN infs : c # symbol => infs'[c] = infs[c]
    BY <2>1 DEF Put
  <2>3. \A c \in DOMAIN infs' :
          /\ infs'[c] \in DOMAIN atlases'
          /\ c \in DOMAIN atlases'[infs'[c]].glyphBounds \/ Glyph[c].height >= Height
    BY <1>1, <1>2, <1>3, <1>6, <2>2 DEF IInv
  <2>4. /\ pc' \in {"ready", "put"}
        /\ pc' = "put" => symbol' = symbol /\ symbol' \in DOMAIN infs'
    BY <2>1, <2>2, ReturnKeeps
  <2> QED
    BY <1>1, <1>3, <1>4, <2>3, <2>4 DEF IInv, Placing, FailsOnlyIfTooHigh
<1> QED
  BY <1>5, <1>6

(* An atlas whose commands or flags change and whose glyphs do not.        *)
LEMMA ChangedAtlas ==
  ASSUME IInv, NEW i \in DOMAIN atlases, NEW a,
         atlases' = [atlases EXCEPT ![i] = a]
  PROVE  /\ DOMAIN atlases' = 1 .. Len(atlases')
         /\ Len(atlases') = Len(atlases)
         /\ DOMAIN atlases' = DOMAIN atlases
         /\ atlases' \in Seq({atlases'[j] : j \in DOMAIN atlases'})
         /\ atlases'[i] = a
         /\ \A j \in DOMAIN atlases : j # i => atlases'[j] = atlases[j]
<1>1. Len(atlases) \in Nat /\ DOMAIN atlases = 1 .. Len(atlases)
  BY LenProperties DEF IInv
<1> DEFINE f == [atlases EXCEPT ![i] = a]
<1>2. f = [j \in 1 .. Len(atlases) |-> f[j]]
  BY <1>1
<1> HIDE DEF f
<1>3. f \in Seq({f[j] : j \in DOMAIN f}) /\ Len(f) = Len(atlases)
  BY <1>1, <1>2, SeqOfElements
<1>4. f = atlases'
  BY DEF f
<1>5. /\ atlases' \in Seq({atlases'[j] : j \in DOMAIN atlases'})
      /\ Len(atlases') = Len(atlases)
  BY <1>3, <1>4
<1> QED
  BY <1>1, <1>5

LEMMA UploadKeeps == ASSUME IInv, upload PROVE IInv'
<1>1. /\ pc = "accepted" /\ pc' = "uploading" /\ UNCHANGED <<infs, symbol, at, back>>
      /\ at \in DOMAIN atlases /\ HasRoom(atlases[at], symbol) /\ Shelved(atlases[at])
  BY DEF upload, IInv, Placing
<1> DEFINE a == Blitted(atlases[at], at, FreshTexture, symbol)
<1>3. /\ Shelved(a) /\ a.glyphBounds = atlases[at].glyphBounds
      /\ a.lastX = atlases[at].lastX /\ a.lastY = atlases[at].lastY
  BY <1>1 DEF Shelved, AtlasFields, Above, InRow, Blitted
<1>4. atlases' = [atlases EXCEPT ![at] = a]
  BY DEF upload
<1> HIDE DEF a
<1>5. /\ DOMAIN atlases' = 1 .. Len(atlases') /\ DOMAIN atlases' = DOMAIN atlases
      /\ atlases' \in Seq({atlases'[j] : j \in DOMAIN atlases'})
      /\ atlases'[at] = a
      /\ \A j \in DOMAIN atlases : j # at => atlases'[j] = atlases[j]
  BY <1>1, <1>4, ChangedAtlas
<1>6. \A j \in DOMAIN atlases :
        Shelved(atlases'[j]) /\ atlases'[j].glyphBounds = atlases[j].glyphBounds
  BY <1>3, <1>5 DEF IInv
<1>7. HasRoom(atlases'[at], symbol)
  BY <1>1, <1>3, <1>5 DEF HasRoom
<1>8. \A c \in DOMAIN infs' :
        /\ infs'[c] \in DOMAIN atlases'
        /\ c \in DOMAIN atlases'[infs'[c]].glyphBounds \/ Glyph[c].height >= Height
  BY <1>1, <1>5, <1>6 DEF IInv
<1> QED
  BY <1>1, <1>5, <1>6, <1>7, <1>8 DEF IInv, Placing, FailsOnlyIfTooHigh

LEMMA PlaceKeeps == ASSUME IInv, place PROVE IInv'
<1> DEFINE a == Placed(atlases[at], symbol)
<1>1. /\ Placing /\ infs' = Put(infs, symbol, at) /\ Return
      /\ at \in DOMAIN atlases /\ atlases' = [atlases EXCEPT ![at] = a]
      /\ HasRoom(atlases[at], symbol) /\ Shelved(atlases[at]) /\ symbol \in Chars
  BY DEF place, IInv, Placing
<1>2. Shelved(a) /\ DOMAIN a.glyphBounds = DOMAIN atlases[at].glyphBounds \cup {symbol}
  BY <1>1, PlacedShelved
<1> HIDE DEF a
<1>3. /\ DOMAIN atlases' = 1 .. Len(atlases') /\ DOMAIN atlases' = DOMAIN atlases
      /\ atlases' \in Seq({atlases'[j] : j \in DOMAIN atlases'})
      /\ atlases'[at] = a
      /\ \A j \in DOMAIN atlases : j # at => atlases'[j] = atlases[j]
  BY <1>1, ChangedAtlas
<1>4. /\ DOMAIN infs' = DOMAIN infs \cup {symbol} /\ infs'[symbol] = at
      /\ \A c \in DOMAIN infs : c # symbol => infs'[c] = infs[c]
  BY <1>1 DEF Put
<1>5. \A j \in DOMAIN atlases :
        /\ Shelved(atlases'[j])
        /\ DOMAIN atlases[j].glyphBounds \subseteq DOMAIN atlases'[j].glyphBounds
  BY <1>2, <1>3 DEF IInv
<1>6. \A c \in DOMAIN infs' :
        /\ infs'[c] \in DOMAIN atlases'
        /\ c \in DOMAIN atlases'[infs'[c]].glyphBounds \/ Glyph[c].height >= Height
  <2> TAKE c \in DOMAIN infs'
  <2>1. CASE c = symbol
    BY <2>1, <1>1, <1>2, <1>3, <1>4
  <2>2. CASE c # symbol
    <3>1. /\ c \in DOMAIN infs /\ infs'[c] = infs[c] /\ infs[c] \in DOMAIN atlases
          /\ c \in DOMAIN atlases[infs[c]].glyphBounds \/ Glyph[c].height >= Height
      BY <2>2, <1>4 DEF IInv
    <3> QED
      BY <3>1, <1>3, <1>5
  <2> QED
    BY <2>1, <2>2
<1>7. /\ pc' \in {"ready", "put"}
      /\ pc' = "put" => symbol' = symbol /\ symbol' \in DOMAIN infs'
  BY <1>1, <1>4, ReturnKeeps
<1> QED
  BY <1>1, <1>3, <1>5, <1>6, <1>7 DEF IInv, Placing, FailsOnlyIfTooHigh

LEMMA PutKeeps == ASSUME IInv, put PROVE IInv'
<1>1. UNCHANGED <<atlases, infs>> /\ pc = "put" /\ symbol \in Chars /\ symbol \in DOMAIN infs
  BY DEF put, IInv
<1>2. CASE symbol \in DOMAIN atlases[infs[symbol]].glyphBounds
  <2>1. pc' = "text"
    BY <1>2 DEF put
  <2> QED
    BY <1>1, <2>1, AtlasesUntouched
<1>3. CASE symbol \notin DOMAIN atlases[infs[symbol]].glyphBounds
  <2>1. pc' = "failed" /\ symbol' = symbol
    BY <1>3 DEF put
  <2>2. Glyph[symbol].height >= Height
    BY <1>1, <1>3 DEF IInv
  <2> QED
    BY <1>1, <2>1, <2>2 DEF IInv, Placing, FailsOnlyIfTooHigh
<1> QED
  BY <1>2, <1>3

(* submitBlocking returned: no glyph moves.                                *)
LEMMA StoppedKeeps == ASSUME IInv, stopped, at \in DOMAIN atlases PROVE IInv'
<1> DEFINE a == Emptied(atlases[at])
<1>1. Shelved(atlases[at]) /\ pc' = "stop" /\ UNCHANGED infs
  BY DEF IInv, stopped
<1>2. Shelved(a) /\ a.glyphBounds = atlases[at].glyphBounds
  BY <1>1 DEF Shelved, AtlasFields, Above, InRow, Emptied
<1>3. atlases' = [atlases EXCEPT ![at] = a]
  BY DEF stopped
<1> HIDE DEF a
<1>4. /\ DOMAIN atlases' = 1 .. Len(atlases') /\ DOMAIN atlases' = DOMAIN atlases
      /\ atlases' \in Seq({atlases'[j] : j \in DOMAIN atlases'})
      /\ atlases'[at] = a
      /\ \A j \in DOMAIN atlases : j # at => atlases'[j] = atlases[j]
  BY <1>3, ChangedAtlas
<1>5. \A j \in DOMAIN atlases :
        Shelved(atlases'[j]) /\ atlases'[j].glyphBounds = atlases[j].glyphBounds
  BY <1>2, <1>4 DEF IInv
<1>6. \A c \in DOMAIN infs' :
        /\ infs'[c] \in DOMAIN atlases'
        /\ c \in DOMAIN atlases'[infs'[c]].glyphBounds \/ Glyph[c].height >= Height
  BY <1>1, <1>4, <1>5 DEF IInv
<1> QED
  BY <1>1, <1>4, <1>5, <1>6 DEF IInv, Placing, FailsOnlyIfTooHigh

LEMMA NextCharKeeps == ASSUME IInv, nextChar PROVE IInv'
<1>1. PICK c \in Chars :
        \/ /\ c \in DOMAIN infs /\ symbol' = c /\ pc' = "put"
           /\ UNCHANGED <<atlases, infs>>
        \/ search(c, "put")
  BY DEF nextChar
<1>2. CASE search(c, "put")
  BY <1>2, SearchKeeps
<1>3. CASE c \in DOMAIN infs /\ symbol' = c /\ pc' = "put" /\ UNCHANGED <<atlases, infs>>
  BY <1>3 DEF IInv, Placing, FailsOnlyIfTooHigh
<1> QED
  BY <1>1, <1>2, <1>3

-----------------------------------------------------------------------------
(* The theorems *)

LEMMA InitIInv == Init => IInv
<1> SUFFICES ASSUME Init PROVE IInv
  OBVIOUS
<1>1. atlases = <<>> /\ infs = <<>> /\ pc = "ready"
  BY DEF Init
<1>2. /\ DOMAIN atlases = {} /\ DOMAIN infs = {} /\ Len(atlases) = 0
      /\ atlases \in Seq({atlases[i] : i \in DOMAIN atlases})
  BY <1>1, EmptySeq
<1>3. DOMAIN atlases = 1 .. Len(atlases)
  BY <1>2
<1> QED
  BY <1>1, <1>2, <1>3 DEF IInv, Placing, FailsOnlyIfTooHigh

(* While the atlases are submitted, the one at hand is one of them.        *)
Submitting ==
  /\ pc \in {"stop", "stopping"} => at \in Nat \ {0}
  /\ pc = "stopping" => at \in DOMAIN atlases

LEMMA StepKeeps == ASSUME IInv, Submitting, [Next]_vars PROVE IInv'
<1>1. CASE Gpu
  BY <1>1 DEF Gpu, frameVars, IInv, Placing, FailsOnlyIfTooHigh
<1>2. CASE preload
  BY <1>2, SearchKeeps DEF preload
<1>3. CASE created
  BY <1>3, CreatedKeeps
<1>4. CASE upload
  BY <1>4, UploadKeeps
<1>5. CASE place
  BY <1>5, PlaceKeeps
<1>6. CASE startDraw \/ endText \/ record \/ submitFrame \/ awaitFrame \/ destroy
  BY <1>6, AtlasesUntouched
  DEF startDraw, endText, record, submitFrame, awaitFrame, destroy
<1>7. CASE nextChar
  BY <1>7, NextCharKeeps
<1>8. CASE put
  BY <1>8, PutKeeps
<1>9. CASE stopModify
  <2>1. UNCHANGED <<atlases, infs>> /\ pc' \in {"stop", "stopping"}
    BY <1>9 DEF stopModify
  <2> QED
    BY <2>1, AtlasesUntouched
<1>10. CASE stopped
  BY <1>10, StoppedKeeps DEF stopped, Submitting
<1>11. CASE UNCHANGED vars
  BY <1>11 DEF vars, IInv, Placing, FailsOnlyIfTooHigh
<1> QED
  BY <1>1, <1>2, <1>3, <1>4, <1>5, <1>6, <1>7, <1>8, <1>9, <1>10, <1>11 DEF Next, Program

LEMMA SubmittingKept == ASSUME IInv, Submitting, [Next]_vars PROVE Submitting'
<1>1. Len(atlases) \in Nat /\ DOMAIN atlases = 1 .. Len(atlases)
  BY LenProperties DEF IInv
<1>2. CASE endText
  BY <1>2 DEF endText, Submitting
<1>3. CASE stopModify
  BY <1>1, <1>3 DEF stopModify, Submitting
<1>4. CASE stopped
  BY <1>1, <1>4 DEF stopped, Submitting
<1>5. CASE Gpu \/ UNCHANGED vars
  BY <1>5 DEF Gpu, vars, Submitting
<1>6. CASE preload \/ nextChar
  <2>1. pc' \in {"accepted", "created", "put"}
    BY <1>6 DEF preload, nextChar, search
  <2> QED
    BY <2>1 DEF Submitting
<1>7. CASE created \/ place
  <2>1. pc' = "accepted" \/ pc' = back
    BY <1>7 DEF created, place, Return
  <2>2. back \in {"ready", "put"}
    BY <1>7 DEF created, place, IInv, Placing
  <2> QED
    BY <2>1, <2>2 DEF Submitting
<1>8. CASE upload \/ startDraw \/ put \/ record \/ submitFrame \/ awaitFrame \/ destroy
  <2>1. pc' \notin {"stop", "stopping"}
    BY <1>8 DEF upload, startDraw, put, record, submitFrame, awaitFrame, destroy
  <2> QED
    BY <2>1 DEF Submitting
<1> QED
  BY <1>2, <1>3, <1>4, <1>5, <1>6, <1>7, <1>8 DEF Next, Program

(* Glyphs stay on their shelf, whatever is preloaded and drawn.            *)
THEOREM Invariance == Spec => [](IInv /\ Submitting)
<1>1. Init => IInv /\ Submitting
  BY InitIInv DEF Init, Submitting
<1>2. IInv /\ Submitting /\ [Next]_vars => (IInv /\ Submitting)'
  BY StepKeeps, SubmittingKept
<1> QED
  BY <1>1, <1>2, PTL DEF Spec

(* add never gives two glyphs of an atlas a texel in common, nor one       *)
(* outside of it.                                                          *)
THEOREM AlwaysPacked == Spec => []AtlasesPacked
<1>1. IInv => AtlasesPacked
  BY ShelvedPacked DEF IInv, AtlasesPacked
<1> QED
  BY <1>1, Invariance, PTL

(* draw throws for want of bounds only on a glyph higher than the atlases. *)
THEOREM FailuresAreTooHigh == Spec => []FailsOnlyIfTooHigh
<1>1. IInv => FailsOnlyIfTooHigh
  BY DEF IInv
<1> QED
  BY <1>1, Invariance, PTL

-----------------------------------------------------------------------------
(* What the GPU has run and has still to run *)

IsSeq(s) == s \in Seq({s[n] : n \in DOMAIN s})

(* The texture of the copy recorded last.                                  *)
Texture == atlases[at].recorded[Len(atlases[at].recorded)].src

(* What the program waits for.                                             *)
Batch ==
  CASE pc = "created" -> <<Prepare(at)>>
    [] pc = "uploading" -> Filling(Texture, symbol)
    [] pc = "stopping" -> Append(atlases[at].recorded, EndModifications(at))
    [] pc = "fence" -> cmd
    [] OTHER -> <<>>

(* The queue has some of it still to do, and nothing else: the last of it, *)
(* except where copies into an atlas wait for nothing.                     *)
QueueInv ==
  /\ IsSeq(Batch)
  /\ DOMAIN gpu \subseteq 1 .. Len(Batch)
  /\ \A n \in DOMAIN gpu : gpu[n] = Batch[n]
  /\ IF pc = "stopping"
       THEN 1 \in DOMAIN gpu => Len(Batch) \in DOMAIN gpu
       ELSE \A n \in DOMAIN gpu : n .. Len(Batch) \subseteq DOMAIN gpu

-----------------------------------------------------------------------------
(* An atlas and its image *)

BitmapOf(c) == Texels([x |-> 0, y |-> 0, width |-> Glyph[c].width, height |-> Glyph[c].height])
Whole == Texels([x |-> 0, y |-> 0, width |-> Width, height |-> Height])

(* A texture holds the glyph it was made for.                              *)
Holds(image, c) == DOMAIN image.texels = BitmapOf(c) /\ \A t \in BitmapOf(c) : image.texels[t] = c

Sized(r, c) == r.width = Glyph[c].width /\ r.height = Glyph[c].height

Src(a, n) == a.recorded[n].src
Into(a, n) == a.recorded[n].at

(* A copy that was recorded writes a glyph where it is, or where there is  *)
(* none any more, because its character was given another place since.     *)
CopyFits(a, r, c) ==
  /\ r \in Rect /\ Sized(r, c)
  /\ r.x + r.width <= Width /\ r.y + r.height <= Height
  /\ Above(r, a) \/ InRow(r, a)
  /\ \A d \in DOMAIN a.glyphBounds : (d = c /\ a.glyphBounds[d] = r) \/ Apart(r, a.glyphBounds[d])

CopyOK(a, i, n, c, imgs) ==
  /\ a.recorded[n] = CopyImage(Src(a, n), i, Into(a, n))
  /\ Src(a, n) \in a.rs
  /\ CopyFits(a, Into(a, n), c)
  /\ Holds(imgs[Src(a, n)], c)

Shows(a, c, image) == \A t \in Texels(a.glyphBounds[c]) : image.texels[t] = c

RecordingOK(a, i) ==
  /\ IsSeq(a.recorded)
  /\ IF a.modifying
       THEN /\ Len(a.recorded) > 0
            /\ a.recorded[1] = BeginModifications(i)
       ELSE a.recorded = <<>> /\ a.rs = {}

(* The first n commands recorded are those of the glyphs that are placed:  *)
(* each is in the image, or will be by a copy that is left.                *)
ContentOK(a, i, imgs, n, left) ==
  /\ \A c \in DOMAIN a.glyphBounds : c \in Chars /\ Sized(a.glyphBounds[c], c)
  /\ \A m \in 2 .. n : \E c \in Chars : CopyOK(a, i, m, c, imgs)
  /\ \A c \in DOMAIN a.glyphBounds :
       \/ Shows(a, c, imgs[i])
       \/ \E m \in 2 .. n : m \in left /\ CopyOK(a, i, m, c, imgs) /\ Into(a, m) = a.glyphBounds[c]

(* The copy of a glyph that has no place yet is not counted.               *)
Settled(i) ==
  IF pc = "uploading" /\ i = at THEN Len(atlases[i].recorded) - 1 ELSE Len(atlases[i].recorded)

(* Copies that are not submitted yet are left as well.                     *)
LeftOf(i) == IF pc = "stopping" /\ i = at THEN DOMAIN gpu ELSE Nat

AtlasesInv ==
  \A i \in DOMAIN atlases :
    /\ RecordingOK(atlases[i], i)
    /\ ContentOK(atlases[i], i, images, Settled(i), LeftOf(i))

-----------------------------------------------------------------------------
(* The images *)

Textures == UNION {atlases[i].rs : i \in DOMAIN atlases}

Created == IF pc = "created" THEN {at} ELSE {}

ImagesInv ==
  /\ DOMAIN images = DOMAIN atlases \cup Textures \cup Created
  /\ IsFiniteSet(DOMAIN images)
  /\ DOMAIN atlases \cup Created \subseteq 1 .. MaxAtlases
  /\ Textures \subseteq {t \in Nat : t > MaxAtlases}
  /\ \A i, j \in DOMAIN atlases : i # j => atlases[i].rs \cap atlases[j].rs = {}
  /\ \A i \in DOMAIN images : DOMAIN images[i] = {"layout", "texels"}
  /\ \A i \in DOMAIN atlases \cup Created : DOMAIN images[i].texels = Whole

LayoutOf(i) ==
  CASE pc = "created" /\ i = at /\ 1 \in DOMAIN gpu -> "UNDEFINED"
    [] pc = "stopping" /\ i = at /\ 1 \notin DOMAIN gpu /\ Len(Batch) \in DOMAIN gpu -> "TRANSFER_DST"
    [] pc = "uploading" /\ i = Texture /\ 1 \in DOMAIN gpu -> "UNDEFINED"
    [] pc = "uploading" /\ i = Texture /\ 1 \notin DOMAIN gpu /\ 3 \in DOMAIN gpu -> "TRANSFER_DST"
    [] OTHER -> IF i \in Textures THEN "TRANSFER_SRC" ELSE "SHADER_READONLY"

LayoutInv == \A i \in DOMAIN images : images[i].layout = LayoutOf(i)

(* The glyph at hand, from the texture made for it until it has its place. *)
UploadInv ==
  /\ Placing => atlases[at].modifying
  /\ pc = "uploading" =>
       /\ Len(atlases[at].recorded) > 1
       /\ atlases[at].recorded[Len(atlases[at].recorded)]
            = CopyImage(Texture, at, PlaceOf(atlases[at], symbol))
       /\ Texture \in atlases[at].rs
       /\ \A n \in 2 .. Len(atlases[at].recorded) - 1 : Src(atlases[at], n) # Texture
       /\ DOMAIN images[Texture].texels = BitmapOf(symbol)
       /\ 2 \notin DOMAIN gpu => Holds(images[Texture], symbol)

StopInv ==
  /\ pc = "stopping" => atlases[at].modifying
  /\ pc \in {"stop", "stopping"} =>
       \A i \in DOMAIN atlases : i < at => ~atlases[i].modifying
  /\ pc \in {"recorded", "fence"} => \A i \in DOMAIN atlases : ~atlases[i].modifying

-----------------------------------------------------------------------------
(* The text *)

Searching == Placing \/ pc = "created"

(* Where the instances of a character are, and its occurrences.            *)
Spots(b, c) == UNION {{<<i, n>> : n \in {m \in DOMAIN b[i] : b[i][m].symbol = c}} : i \in DOMAIN b}
Positions(t, c) == {n \in DOMAIN t : t[n] = c}

AsMany(b, t, c) ==
  /\ IsFiniteSet(Spots(b, c)) /\ IsFiniteSet(Positions(t, c))
  /\ Cardinality(Spots(b, c)) = Cardinality(Positions(t, c))

(* The instances are those of the text, each in the atlas of its character *)
(* and where its glyph is; none is moved before the frame is drawn.        *)
BufferInv ==
  /\ IsFiniteSet(DOMAIN buffer) /\ DOMAIN buffer \subseteq DOMAIN atlases /\ IsSeq(text)
  /\ pc = "ready" \/ (Searching /\ back = "ready") => buffer = <<>> /\ text = <<>>
  /\ Searching /\ back = "put" => symbol \notin DOMAIN infs
  /\ DOMAIN infs \subseteq Chars
  /\ \A i \in DOMAIN buffer :
       /\ IsSeq(buffer[i])
       /\ \A n \in 1 .. Len(buffer[i]) :
            /\ buffer[i][n].symbol \in DOMAIN infs /\ infs[buffer[i][n].symbol] = i
            /\ buffer[i][n].symbol \in DOMAIN atlases[i].glyphBounds
            /\ buffer[i][n].uv = atlases[i].glyphBounds[buffer[i][n].symbol]
  /\ \A c \in Chars : AsMany(buffer, text, c)

CommandsInv ==
  /\ pc \in {"recorded", "fence"} => \E order \in SetToSeqs(DOMAIN buffer) : cmd = Commands(order)
  /\ pc = "fence" =>
       \A n \in DOMAIN gpu : n % 4 = 0 /\ n - 2 \notin DOMAIN gpu => draw = cmd[n - 2].data

GpuInv ==
  pc # "closed" =>
    ImagesInv /\ LayoutInv /\ AtlasesInv /\ UploadInv /\ StopInv /\ BufferInv /\ CommandsInv

-----------------------------------------------------------------------------
(* Texels *)

LEMMA TexelOf ==
  ASSUME NEW r \in Rect, NEW t
  PROVE  t \in Texels(r) <=> \E x \in r.x .. r.x + r.width - 1 :
                               \E y \in r.y .. r.y + r.height - 1 : t = <<x, y>>
BY DEF Texels

LEMMA ApartTexels ==
  ASSUME NEW r \in Rect, NEW s \in Rect, Apart(r, s), NEW t \in Texels(r)
  PROVE  t \notin Texels(s)
<1> SUFFICES ASSUME t \in Texels(s) PROVE FALSE
  OBVIOUS
<1>1. PICK x \in r.x .. r.x + r.width - 1, y \in r.y .. r.y + r.height - 1 : t = <<x, y>>
  BY TexelOf
<1>2. PICK v \in s.x .. s.x + s.width - 1, w \in s.y .. s.y + s.height - 1 : t = <<v, w>>
  BY TexelOf
<1>3. x = v /\ y = w
  BY <1>1, <1>2
<1> QED
  BY <1>1, <1>2, <1>3 DEF Apart, Rect

LEMMA InsideWhole ==
  ASSUME NEW r \in Rect, r.x + r.width <= Width, r.y + r.height <= Height
  PROVE  Texels(r) \subseteq Whole
<1>1. Width \in Nat /\ Height \in Nat
  BY AtlasAssumption
<1> DEFINE w == [x |-> 0, y |-> 0, width |-> Width, height |-> Height]
<1>2. w \in Rect /\ w.x = 0 /\ w.y = 0 /\ w.width = Width /\ w.height = Height
  BY <1>1 DEF Rect
<1>3. r.x \in Nat /\ r.y \in Nat /\ r.width \in Nat /\ r.height \in Nat
  BY DEF Rect
<1> SUFFICES ASSUME NEW t \in Texels(r) PROVE t \in Texels(w)
  BY DEF Whole
<1>4. PICK x \in r.x .. r.x + r.width - 1, y \in r.y .. r.y + r.height - 1 : t = <<x, y>>
  BY TexelOf
<1> HIDE DEF w
<1>5. x \in w.x .. w.x + w.width - 1 /\ y \in w.y .. w.y + w.height - 1
  BY <1>1, <1>2, <1>3, <1>4
<1> QED
  BY <1>2, <1>4, <1>5, TexelOf

(* Where a texel of a glyph is in the texture it is copied from.           *)
LEMMA BitmapTexel ==
  ASSUME NEW c \in Chars, NEW r \in Rect, Sized(r, c), NEW t \in Texels(r)
  PROVE  <<t[1] - r.x, t[2] - r.y>> \in BitmapOf(c)
<1>1. Glyph[c].width \in Nat /\ Glyph[c].height \in Nat
  BY AtlasAssumption
<1> DEFINE b == [x |-> 0, y |-> 0, width |-> Glyph[c].width, height |-> Glyph[c].height]
<1>2. b \in Rect /\ b.x = 0 /\ b.y = 0 /\ b.width = r.width /\ b.height = r.height
  BY <1>1 DEF Rect, Sized
<1>3. r.x \in Nat /\ r.y \in Nat /\ r.width \in Nat /\ r.height \in Nat
  BY DEF Rect
<1>4. PICK x \in r.x .. r.x + r.width - 1, y \in r.y .. r.y + r.height - 1 : t = <<x, y>>
  BY TexelOf
<1>5. t[1] = x /\ t[2] = y
  BY <1>4
<1> HIDE DEF b
<1>6. /\ t[1] - r.x \in b.x .. b.x + b.width - 1
      /\ t[2] - r.y \in b.y .. b.y + b.height - 1
  BY <1>2, <1>3, <1>4, <1>5
<1>7. <<t[1] - r.x, t[2] - r.y>> \in Texels(b)
  BY <1>2, <1>6, TexelOf
<1> QED
  BY <1>7 DEF BitmapOf, b

LEMMA NoBitmap ==
  ASSUME NEW c \in Chars, ~HasBitmap(c), NEW r \in Rect, Sized(r, c)
  PROVE  Texels(r) = {}
<1>1. Glyph[c].width \in Nat /\ Glyph[c].height \in Nat
  BY AtlasAssumption
<1>2. r.width = 0 \/ r.height = 0
  BY <1>1 DEF HasBitmap, Sized
<1>3. r.x \in Nat /\ r.y \in Nat
  BY DEF Rect
<1> SUFFICES ASSUME NEW t \in Texels(r) PROVE FALSE
  OBVIOUS
<1>4. PICK x \in r.x .. r.x + r.width - 1, y \in r.y .. r.y + r.height - 1 : t = <<x, y>>
  BY TexelOf
<1> QED
  BY <1>2, <1>3, <1>4

-----------------------------------------------------------------------------
(* What commands do *)

LEMMA AfterTransition ==
  ASSUME NEW imgs, NEW i \in DOMAIN imgs, NEW from, NEW to, NEW before, NEW after
  PROVE  LET m == After(Transition(i, from, to, before, after), imgs) IN
         /\ DOMAIN m = DOMAIN imgs
         /\ \A j \in DOMAIN imgs : j # i => m[j] = imgs[j]
         /\ DOMAIN m[i] = {"layout", "texels"}
         /\ m[i].layout = to
         /\ DOMAIN m[i].texels = DOMAIN imgs[i].texels
         /\ from # "UNDEFINED" => m[i].texels = imgs[i].texels
BY DEF After, Transition

LEMMA AfterCopyBuffer ==
  ASSUME NEW imgs, NEW i \in DOMAIN imgs, NEW c
  PROVE  LET m == After(CopyBuffer(i, c), imgs) IN
         /\ DOMAIN m = DOMAIN imgs
         /\ \A j \in DOMAIN imgs : j # i => m[j] = imgs[j]
         /\ DOMAIN m[i] = {"layout", "texels"}
         /\ m[i].layout = imgs[i].layout
         /\ DOMAIN m[i].texels = DOMAIN imgs[i].texels
         /\ \A t \in DOMAIN imgs[i].texels : m[i].texels[t] = c
BY DEF After, CopyBuffer

LEMMA AfterCopyImage ==
  ASSUME NEW imgs, NEW i \in DOMAIN imgs, NEW s, NEW r
  PROVE  LET m == After(CopyImage(s, i, r), imgs) IN
         /\ DOMAIN m = DOMAIN imgs
         /\ \A j \in DOMAIN imgs : j # i => m[j] = imgs[j]
         /\ DOMAIN m[i] = {"layout", "texels"}
         /\ m[i].layout = imgs[i].layout
         /\ DOMAIN m[i].texels = DOMAIN imgs[i].texels
         /\ \A t \in DOMAIN imgs[i].texels :
              m[i].texels[t] = IF t \in Texels(r)
                                 THEN imgs[s].texels[<<t[1] - r.x, t[2] - r.y>>]
                                 ELSE imgs[i].texels[t]
BY DEF After, CopyImage

(* A copy writes the glyph its texture holds, and nothing else.            *)
LEMMA AfterCopyOfGlyph ==
  ASSUME NEW imgs, NEW i \in DOMAIN imgs, NEW s, NEW r \in Rect, NEW c \in Chars,
         Sized(r, c), Holds(imgs[s], c), Texels(r) \subseteq DOMAIN imgs[i].texels
  PROVE  LET m == After(CopyImage(s, i, r), imgs) IN
         /\ \A t \in Texels(r) : m[i].texels[t] = c
         /\ \A t \in DOMAIN imgs[i].texels : t \notin Texels(r) => m[i].texels[t] = imgs[i].texels[t]
<1> DEFINE m == After(CopyImage(s, i, r), imgs)
<1>1. \A t \in DOMAIN imgs[i].texels :
        m[i].texels[t] = IF t \in Texels(r)
                           THEN imgs[s].texels[<<t[1] - r.x, t[2] - r.y>>]
                           ELSE imgs[i].texels[t]
  BY AfterCopyImage
<1> HIDE DEF m
<1>2. ASSUME NEW t \in Texels(r) PROVE m[i].texels[t] = c
  <2>1. m[i].texels[t] = imgs[s].texels[<<t[1] - r.x, t[2] - r.y>>]
    BY <1>1
  <2>2. <<t[1] - r.x, t[2] - r.y>> \in BitmapOf(c)
    BY BitmapTexel
  <2> QED
    BY <2>1, <2>2 DEF Holds
<1> QED
  BY <1>1, <1>2 DEF m

-----------------------------------------------------------------------------
(* What an atlas' image shows *)

LEMMA CopyKept ==
  ASSUME NEW a, NEW b, NEW i, NEW imgs, NEW imgs2, NEW m, NEW c, CopyOK(a, i, m, c, imgs),
         b.glyphBounds = a.glyphBounds, a.rs \subseteq b.rs,
         b.recorded[m] = a.recorded[m],
         \A r \in Rect : Above(r, a) \/ InRow(r, a) => Above(r, b) \/ InRow(r, b),
         imgs2[Src(a, m)] = imgs[Src(a, m)]
  PROVE  CopyOK(b, i, m, c, imgs2)
<1>1. Src(b, m) = Src(a, m) /\ Into(b, m) = Into(a, m)
  BY DEF Src, Into
<1>2. CopyFits(b, Into(a, m), c)
  BY DEF CopyOK, CopyFits
<1> QED
  BY <1>1, <1>2 DEF CopyOK

(* Neither the images an atlas does not use, nor the place for its next    *)
(* glyph, nor what is recorded after its copies matter.                    *)
LEMMA ContentKept ==
  ASSUME NEW a, NEW b, NEW i, NEW imgs, NEW imgs2, NEW n, NEW k, ContentOK(a, i, imgs, n, k),
         b.glyphBounds = a.glyphBounds, a.rs \subseteq b.rs,
         \A m \in 2 .. n : b.recorded[m] = a.recorded[m],
         \A r \in Rect : Above(r, a) \/ InRow(r, a) => Above(r, b) \/ InRow(r, b),
         imgs2[i].texels = imgs[i].texels,
         \A m \in 2 .. n : Src(a, m) \in a.rs => imgs2[Src(a, m)] = imgs[Src(a, m)]
  PROVE  ContentOK(b, i, imgs2, n, k)
<1>1. ASSUME NEW m \in 2 .. n, NEW c, CopyOK(a, i, m, c, imgs)
      PROVE  CopyOK(b, i, m, c, imgs2)
  <2>1. Src(a, m) \in a.rs
    BY <1>1 DEF CopyOK
  <2> QED
    BY <1>1, <2>1, CopyKept
<1>2. \A m \in 2 .. n : Into(b, m) = Into(a, m)
  BY DEF Into
<1>3. \A c : Shows(a, c, imgs[i]) => Shows(b, c, imgs2[i])
  BY DEF Shows
<1> QED
  BY <1>1, <1>2, <1>3 DEF ContentOK

LEMMA ContentStarted ==
  ASSUME NEW a, NEW i, NEW imgs, Shelved(a), RecordingOK(a, i),
         ContentOK(a, i, imgs, Len(a.recorded), Nat)
  PROVE  LET b == startModify(a, i) IN
         /\ RecordingOK(b, i) /\ b.modifying /\ b.rs = a.rs
         /\ ContentOK(b, i, imgs, Len(b.recorded), Nat)
<1> DEFINE b == startModify(a, i)
<1>1. CASE a.modifying
  <2>1. b = a
    BY <1>1 DEF startModify
  <2> QED
    BY <1>1, <2>1
<1>2. CASE ~a.modifying
  <2>1. a.recorded = <<>> /\ a.rs = {}
    BY <1>2 DEF RecordingOK
  <2> DEFINE start == <<BeginModifications(i)>>
  <2>2. /\ b.modifying = TRUE /\ b.recorded = start /\ b.rs = {}
        /\ b.glyphBounds = a.glyphBounds
        /\ b.lastX = a.lastX /\ b.lastY = a.lastY /\ b.rwHeight = a.rwHeight
    BY <1>2, <2>1 DEF startModify, Shelved, AtlasFields
  <2>3. IsSeq(start) /\ Len(start) = 1
    BY DEF IsSeq
  <2>4. start[1] = BeginModifications(i)
    OBVIOUS
  <2> HIDE DEF b, start
  <2>5. RecordingOK(b, i)
    BY <2>2, <2>3, <2>4 DEF RecordingOK
  <2>6. \A r \in Rect : Above(r, a) \/ InRow(r, a) => Above(r, b) \/ InRow(r, b)
    BY <2>2 DEF Above, InRow
  <2>7. Len(a.recorded) = 0
    BY <2>1
  <2>8. ContentOK(b, i, imgs, Len(a.recorded), Nat)
    BY <2>1, <2>2, <2>6, <2>7, ContentKept
  <2>9. 2 .. 0 = 2 .. 1
    OBVIOUS
  <2>10. ContentOK(b, i, imgs, 1, Nat)
    BY <2>7, <2>8, <2>9 DEF ContentOK
  <2>11. b.modifying /\ b.rs = a.rs /\ Len(b.recorded) = 1
    BY <2>1, <2>2, <2>3
  <2> QED
    BY <2>5, <2>10, <2>11 DEF b
<1> QED
  BY <1>1, <1>2

(* A new row: what was in the last one is above it.                        *)
LEMMA ContentWrapped ==
  ASSUME NEW a, NEW i, NEW imgs, NEW c, NEW n, NEW k, Shelved(a), RecordingOK(a, i),
         ContentOK(a, i, imgs, n, k)
  PROVE  LET b == Wrapped(a, c) IN
         /\ RecordingOK(b, i) /\ b.modifying = a.modifying /\ b.rs = a.rs
         /\ b.recorded = a.recorded
         /\ ContentOK(b, i, imgs, n, k)
<1> DEFINE b == Wrapped(a, c)
<1>1. /\ b.modifying = a.modifying /\ b.rs = a.rs /\ b.recorded = a.recorded
      /\ b.glyphBounds = a.glyphBounds
      /\ \/ b.lastX = a.lastX /\ b.lastY = a.lastY /\ b.rwHeight = a.rwHeight
         \/ b.lastY = a.lastY + a.rwHeight
  BY DEF Wrapped, Shelved, AtlasFields
<1> HIDE DEF b
<1>2. a.lastY \in Nat /\ a.rwHeight \in Nat
  BY DEF Shelved
<1>3. \A r \in Rect : Above(r, a) \/ InRow(r, a) => Above(r, b) \/ InRow(r, b)
  BY <1>1, <1>2 DEF Above, InRow, Rect
<1>4. RecordingOK(b, i)
  BY <1>1 DEF RecordingOK
<1>5. ContentOK(b, i, imgs, n, k)
  BY <1>1, <1>3, ContentKept
<1> QED
  BY <1>1, <1>4, <1>5 DEF b

(* The place for the next glyph, next to what is there and to what copies  *)
(* will write.                                                             *)
LEMMA PlaceApart ==
  ASSUME NEW a, Shelved(a), NEW c \in Chars, NEW r \in Rect, Above(r, a) \/ InRow(r, a)
  PROVE  /\ PlaceOf(a, c) \in Rect /\ Sized(PlaceOf(a, c), c)
         /\ Apart(r, PlaceOf(a, c)) /\ Apart(PlaceOf(a, c), r)
         /\ Above(r, Placed(a, c)) \/ InRow(r, Placed(a, c))
         /\ InRow(PlaceOf(a, c), Placed(a, c))
<1> DEFINE p == Placed(a, c)
           s == PlaceOf(a, c)
<1>1. Glyph[c].width \in Nat /\ Glyph[c].height \in Nat
  BY AtlasAssumption
<1>2. a.lastX \in Nat /\ a.lastY \in Nat /\ a.rwHeight \in Nat
  BY DEF Shelved
<1>3. /\ s \in Rect /\ s.x = a.lastX /\ s.y = a.lastY
      /\ s.width = Glyph[c].width /\ s.height = Glyph[c].height
  BY <1>1, <1>2 DEF PlaceOf, Rect
<1>4. /\ p.lastX = a.lastX + s.width /\ p.lastY = a.lastY
      /\ p.rwHeight \in Nat /\ p.rwHeight >= a.rwHeight /\ p.rwHeight >= s.height
  BY <1>1, <1>2, <1>3 DEF Shelved, Placed, AtlasFields
<1> HIDE DEF p, s
<1>5. Apart(r, s) /\ Apart(s, r) /\ (Above(r, p) \/ InRow(r, p)) /\ InRow(s, p)
  BY <1>1, <1>2, <1>3, <1>4 DEF Above, InRow, Apart, Rect
<1> QED
  BY <1>3, <1>5 DEF p, s, Sized

(* The glyph gets its place: by the copy recorded last, or without one if  *)
(* it has no bitmap.                                                       *)
LEMMA ContentPlaced ==
  ASSUME NEW a, NEW i, NEW imgs, NEW c \in Chars, NEW n \in Nat, NEW N \in Nat,
         Shelved(a), HasRoom(a, c), ContentOK(a, i, imgs, n, Nat),
         \/ N = n /\ ~HasBitmap(c)
         \/ /\ N = n + 1 /\ N > 1
            /\ a.recorded[N] = CopyImage(Src(a, N), i, PlaceOf(a, c))
            /\ Src(a, N) \in a.rs
            /\ Holds(imgs[Src(a, N)], c)
  PROVE  ContentOK(Placed(a, c), i, imgs, N, Nat)
<1> DEFINE p == Placed(a, c)
           s == PlaceOf(a, c)
<1>1. /\ p.recorded = a.recorded /\ p.rs = a.rs
      /\ p.glyphBounds = Put(a.glyphBounds, c, s)
  BY DEF Placed, Shelved, AtlasFields
<1>2. /\ DOMAIN p.glyphBounds = DOMAIN a.glyphBounds \cup {c}
      /\ p.glyphBounds[c] = s
      /\ \A d \in DOMAIN a.glyphBounds : d # c => p.glyphBounds[d] = a.glyphBounds[d]
  BY <1>1 DEF Put
<1>3. s \in Rect /\ Sized(s, c) /\ InRow(s, p)
  <2>1. Glyph[c].width \in Nat /\ Glyph[c].height \in Nat /\ a.lastX \in Nat /\ a.lastY \in Nat
    BY AtlasAssumption DEF Shelved
  <2>2. /\ s \in Rect /\ s.x = a.lastX /\ s.y = a.lastY
        /\ s.width = Glyph[c].width /\ s.height = Glyph[c].height
    BY <2>1 DEF PlaceOf, Rect
  <2>3. /\ p.lastX = a.lastX + s.width /\ p.lastY = a.lastY
        /\ p.rwHeight \in Nat /\ p.rwHeight >= s.height
    BY <2>1, <2>2 DEF Shelved, Placed, AtlasFields
  <2> HIDE DEF p, s
  <2> QED
    BY <2>1, <2>2, <2>3 DEF InRow, Sized, Rect
<1>4. ASSUME NEW r \in Rect, Above(r, a) \/ InRow(r, a)
      PROVE  Apart(r, s) /\ Apart(s, r) /\ (Above(r, p) \/ InRow(r, p))
  BY <1>4, PlaceApart
<1>5. s.x + s.width <= Width /\ s.y + s.height <= Height
  <2>1. Glyph[c].width \in Nat /\ Glyph[c].height \in Nat /\ a.lastX \in Nat /\ a.lastY \in Nat
        /\ Height \in Nat
    BY AtlasAssumption DEF Shelved
  <2> QED
    BY <2>1 DEF PlaceOf, HasRoom
<1> HIDE DEF p, s
<1>6. ASSUME NEW r, NEW d, CopyFits(a, r, d)
      PROVE  CopyFits(p, r, d)
  <2>1. /\ r \in Rect /\ Sized(r, d) /\ r.x + r.width <= Width /\ r.y + r.height <= Height
        /\ Above(r, a) \/ InRow(r, a)
    BY <1>6 DEF CopyFits
  <2>2. Apart(r, s) /\ (Above(r, p) \/ InRow(r, p))
    BY <1>4, <2>1
  <2>3. ASSUME NEW e \in DOMAIN p.glyphBounds
        PROVE  (e = d /\ p.glyphBounds[e] = r) \/ Apart(r, p.glyphBounds[e])
    <3>1. CASE e = c
      BY <3>1, <1>2, <2>2
    <3>2. CASE e # c
      BY <3>2, <1>2, <1>6 DEF CopyFits
    <3> QED
      BY <3>1, <3>2
  <2> QED
    BY <2>1, <2>2, <2>3 DEF CopyFits
<1>7. \A m : Src(p, m) = Src(a, m) /\ Into(p, m) = Into(a, m)
  BY <1>1 DEF Src, Into
<1>8. ASSUME NEW m, NEW d, CopyOK(a, i, m, d, imgs)
      PROVE  CopyOK(p, i, m, d, imgs)
  BY <1>1, <1>6, <1>7, <1>8 DEF CopyOK
<1>9. CopyFits(p, s, c)
  <2>1. ASSUME NEW e \in DOMAIN p.glyphBounds, e # c PROVE Apart(s, p.glyphBounds[e])
    <3>1. e \in DOMAIN a.glyphBounds /\ p.glyphBounds[e] = a.glyphBounds[e]
      BY <1>2, <2>1
    <3>2. a.glyphBounds[e] \in Rect /\ (Above(a.glyphBounds[e], a) \/ InRow(a.glyphBounds[e], a))
      BY <3>1 DEF Shelved
    <3> QED
      BY <1>4, <3>1, <3>2
  <2> QED
    BY <1>2, <1>3, <1>5, <2>1 DEF CopyFits
<1>10. ASSUME N = n + 1, N > 1, a.recorded[N] = CopyImage(Src(a, N), i, s),
              Src(a, N) \in a.rs, Holds(imgs[Src(a, N)], c)
       PROVE  CopyOK(p, i, N, c, imgs) /\ Into(p, N) = s
  <2>1. Into(a, N) = s
    BY <1>10 DEF Into, CopyImage
  <2> QED
    BY <1>1, <1>7, <1>9, <1>10, <2>1 DEF CopyOK
<1>11. N = n \/ (N = n + 1 /\ N > 1 /\ CopyOK(p, i, N, c, imgs) /\ Into(p, N) = s)
  BY <1>10 DEF s
<1>12. \A d \in DOMAIN p.glyphBounds : d \in Chars /\ Sized(p.glyphBounds[d], d)
  BY <1>2, <1>3 DEF ContentOK
<1>13. ASSUME NEW m \in 2 .. N PROVE \E d \in Chars : CopyOK(p, i, m, d, imgs)
  <2>1. CASE m \in 2 .. n
    BY <2>1, <1>8 DEF ContentOK
  <2>2. CASE m \notin 2 .. n
    BY <2>2, <1>11, <1>13
  <2> QED
    BY <2>1, <2>2
<1>14. ASSUME NEW d \in DOMAIN p.glyphBounds
       PROVE  \/ Shows(p, d, imgs[i])
              \/ \E m \in 2 .. N : m \in Nat /\ CopyOK(p, i, m, d, imgs) /\ Into(p, m) = p.glyphBounds[d]
  <2>1. CASE d # c
    <3>1. d \in DOMAIN a.glyphBounds /\ p.glyphBounds[d] = a.glyphBounds[d]
      BY <1>2, <1>14, <2>1
    <3>2. CASE Shows(a, d, imgs[i])
      BY <3>1, <3>2 DEF Shows
    <3>3. CASE \E m \in 2 .. n : m \in Nat /\ CopyOK(a, i, m, d, imgs) /\ Into(a, m) = a.glyphBounds[d]
      <4>1. PICK m \in 2 .. n : m \in Nat /\ CopyOK(a, i, m, d, imgs) /\ Into(a, m) = a.glyphBounds[d]
        BY <3>3
      <4>2. m \in 2 .. N
        BY <1>11
      <4>3. CopyOK(p, i, m, d, imgs) /\ Into(p, m) = p.glyphBounds[d]
        BY <1>7, <1>8, <3>1, <4>1
      <4> QED
        BY <4>1, <4>2, <4>3
    <3> QED
      BY <3>1, <3>2, <3>3 DEF ContentOK
  <2>2. CASE d = c /\ ~HasBitmap(c)
    <3>1. Texels(s) = {}
      BY <1>3, <2>2, NoBitmap
    <3> QED
      BY <1>2, <2>2, <3>1 DEF Shows
  <2>3. CASE d = c /\ HasBitmap(c)
    <3>1. N = n + 1 /\ N > 1 /\ CopyOK(p, i, N, c, imgs) /\ Into(p, N) = s
      BY <2>3, <1>10 DEF s
    <3>2. N \in 2 .. N /\ N \in Nat
      BY <3>1
    <3> QED
      BY <1>2, <2>3, <3>1, <3>2
  <2> QED
    BY <2>1, <2>2, <2>3
<1>15. ContentOK(p, i, imgs, N, Nat)
  BY <1>12, <1>13, <1>14 DEF ContentOK
<1> QED
  BY <1>15 DEF p

(* A copy runs: it shows its glyph, and no other glyph changes.            *)
LEMMA ContentCopied ==
  ASSUME NEW a, NEW i, NEW imgs, NEW n \in Nat, NEW left, NEW k \in 2 .. n, Shelved(a),
         ContentOK(a, i, imgs, n, left),
         i \in DOMAIN imgs, i \notin a.rs, a.rs \subseteq DOMAIN imgs,
         DOMAIN imgs[i].texels = Whole
  PROVE  ContentOK(a, i, After(a.recorded[k], imgs), n, left \ {k})
<1> DEFINE imgs2 == After(a.recorded[k], imgs)
           r == Into(a, k)
           s == Src(a, k)
<1>1. PICK c \in Chars : CopyOK(a, i, k, c, imgs)
  BY DEF ContentOK
<1>2. /\ a.recorded[k] = CopyImage(s, i, r) /\ s \in a.rs
      /\ CopyFits(a, r, c) /\ Holds(imgs[s], c)
  BY <1>1 DEF CopyOK
<1>3. r \in Rect /\ Sized(r, c) /\ Texels(r) \subseteq Whole
  <2>1. r \in Rect /\ Sized(r, c) /\ r.x + r.width <= Width /\ r.y + r.height <= Height
    BY <1>2 DEF CopyFits
  <2> QED
    BY <2>1, InsideWhole
<1> HIDE DEF r, s
<1>4. \A j \in DOMAIN imgs : j # i => imgs2[j] = imgs[j]
  BY <1>2, AfterCopyImage
<1>5. /\ \A t \in Texels(r) : imgs2[i].texels[t] = c
      /\ \A t \in Whole : t \notin Texels(r) => imgs2[i].texels[t] = imgs[i].texels[t]
  BY <1>2, <1>3, AfterCopyOfGlyph
<1> HIDE DEF imgs2
<1>6. \A t \in a.rs : imgs2[t] = imgs[t]
  BY <1>4
<1>7. ASSUME NEW m, NEW d, CopyOK(a, i, m, d, imgs)
      PROVE  CopyOK(a, i, m, d, imgs2)
  BY <1>6, <1>7 DEF CopyOK
<1>8. ASSUME NEW d \in DOMAIN a.glyphBounds
      PROVE  /\ a.glyphBounds[d] \in Rect /\ Texels(a.glyphBounds[d]) \subseteq Whole
             /\ (d = c /\ a.glyphBounds[d] = r) \/ Apart(r, a.glyphBounds[d])
  <2>1. /\ a.glyphBounds[d] \in Rect
        /\ a.glyphBounds[d].x + a.glyphBounds[d].width <= Width
        /\ a.glyphBounds[d].y + a.glyphBounds[d].height <= Height
    BY DEF Shelved
  <2> QED
    BY <1>2, <2>1, InsideWhole DEF CopyFits
<1>9. ASSUME NEW d \in DOMAIN a.glyphBounds, Shows(a, d, imgs[i])
      PROVE  Shows(a, d, imgs2[i])
  <2>1. CASE d = c /\ a.glyphBounds[d] = r
    BY <1>5, <2>1 DEF Shows
  <2>2. CASE Apart(r, a.glyphBounds[d])
    <3>1. ASSUME NEW t \in Texels(a.glyphBounds[d])
          PROVE  t \in Whole /\ t \notin Texels(r)
      BY <1>3, <1>8, <2>2, ApartTexels
    <3> QED
      BY <1>5, <1>9, <3>1 DEF Shows
  <2> QED
    BY <1>8, <2>1, <2>2
<1>10. ASSUME NEW d \in DOMAIN a.glyphBounds,
              NEW m \in 2 .. n, m \in left, CopyOK(a, i, m, d, imgs), Into(a, m) = a.glyphBounds[d]
       PROVE  \/ Shows(a, d, imgs2[i])
              \/ m \in left \ {k} /\ CopyOK(a, i, m, d, imgs2)
  <2>1. CASE m = k
    <3>1. a.glyphBounds[d] = r
      BY <1>10, <2>1 DEF r
    <3>2. CASE d = c
      BY <1>5, <3>1, <3>2 DEF Shows
    <3>3. CASE d # c
      <4>1. Apart(r, r)
        BY <1>8, <3>1, <3>3
      <4>2. Texels(r) = {}
        BY <1>3, <4>1, ApartTexels
      <4> QED
        BY <3>1, <4>2 DEF Shows
    <3> QED
      BY <3>2, <3>3
  <2>2. CASE m # k
    BY <1>7, <1>10, <2>2
  <2> QED
    BY <1>10, <2>1, <2>2
<1>11. ContentOK(a, i, imgs2, n, left \ {k})
  BY <1>7, <1>9, <1>10 DEF ContentOK
<1> QED
  BY <1>11 DEF imgs2

(* Once all copies have run nothing is left of them.                       *)
LEMMA ContentEmptied ==
  ASSUME NEW a, NEW i, NEW imgs, NEW imgs2, NEW n \in Nat, NEW left, Shelved(a),
         ContentOK(a, i, imgs, n, left), 2 .. n \cap left = {}, imgs2[i] = imgs[i]
  PROVE  LET b == Emptied(a) IN
         /\ RecordingOK(b, i) /\ ~b.modifying /\ b.rs = {}
         /\ ContentOK(b, i, imgs2, Len(b.recorded), Nat)
<1> DEFINE b == Emptied(a)
<1>1. /\ b.glyphBounds = a.glyphBounds /\ b.rs = {} /\ b.recorded = <<>> /\ b.modifying = FALSE
  BY DEF Emptied, Shelved, AtlasFields
<1> HIDE DEF b
<1>2. IsSeq(<<>>) /\ Len(<<>>) = 0
  BY DEF IsSeq
<1>3. RecordingOK(b, i)
  BY <1>1, <1>2 DEF RecordingOK
<1>4. \A c \in DOMAIN a.glyphBounds : Shows(a, c, imgs[i])
  BY DEF ContentOK
<1>5. ContentOK(b, i, imgs2, 0, Nat)
  BY <1>1, <1>4 DEF ContentOK, Shows
<1>6. Len(b.recorded) = 0 /\ ~b.modifying
  BY <1>1, <1>2
<1> QED
  BY <1>1, <1>3, <1>5, <1>6 DEF b

-----------------------------------------------------------------------------
(* The queue *)

LEMMA SeqElements ==
  ASSUME NEW s, IsSeq(s)
  PROVE  /\ Len(s) \in Nat /\ DOMAIN s = 1 .. Len(s)
         /\ Len(s) = 0 => s = <<>>
         /\ Len(s) # 0 => /\ IsSeq(Tail(s)) /\ Len(Tail(s)) = Len(s) - 1
                          /\ Head(s) = s[1]
                          /\ \A n \in 1 .. Len(s) - 1 : Tail(s)[n] = s[n + 1]
<1> DEFINE S == {s[n] : n \in DOMAIN s}
<1>1. s \in Seq(S)
  BY DEF IsSeq
<1>2. Len(s) \in Nat /\ DOMAIN s = 1 .. Len(s)
  BY <1>1, LenProperties
<1>3. Len(s) = 0 => s = <<>>
  BY <1>1, EmptySeq
<1>4. ASSUME Len(s) # 0
      PROVE  /\ IsSeq(Tail(s)) /\ Len(Tail(s)) = Len(s) - 1
             /\ Head(s) = s[1]
             /\ \A n \in 1 .. Len(s) - 1 : Tail(s)[n] = s[n + 1]
  <2>1. s # <<>>
    BY <1>2, <1>4, EmptySeq
  <2>2. /\ Tail(s) \in Seq(S) /\ Head(s) = s[1] /\ Len(Tail(s)) = Len(s) - 1
        /\ \A n \in 1 .. Len(Tail(s)) : Tail(s)[n] = s[n + 1]
    BY <1>1, <2>1, HeadTailProperties
  <2> DEFINE t == Tail(s)
  <2>3. t \in [1 .. Len(t) -> S] /\ Len(t) \in Nat
    BY <2>2, LenProperties
  <2> HIDE DEF t
  <2>4. t \in Seq({t[n] : n \in DOMAIN t})
    BY <2>3, SeqOfElements
  <2> QED
    BY <2>2, <2>4 DEF IsSeq, t
<1> QED
  BY <1>2, <1>3, <1>4

LEMMA AppendIsSeq ==
  ASSUME NEW s, IsSeq(s), NEW e
  PROVE  /\ IsSeq(Append(s, e)) /\ Len(Append(s, e)) = Len(s) + 1
         /\ Append(s, e)[Len(s) + 1] = e
         /\ \A n \in 1 .. Len(s) : Append(s, e)[n] = s[n]
BY AppendToElements DEF IsSeq

LEMMA QueueEmpty == ASSUME QueueInv, Batch = <<>> PROVE Await
<1>1. Len(Batch) = 0
  OBVIOUS
<1> QED
  BY <1>1 DEF QueueInv, Await

LEMMA LastOfNone == Max({0}) = 0
BY DEF Max

LEMMA QueueStarts ==
  ASSUME Await, NEW b, IsSeq(b), Submit(b), Batch' = b
  PROVE  QueueInv' /\ DOMAIN gpu' = 1 .. Len(b) /\ Len(b) \in Nat
<1>1. DOMAIN gpu \cup {0} = {0}
  BY DEF Await
<1>2. gpu' = [n \in 0 + 1 .. 0 + Len(b) |-> b[n - 0]]
  BY <1>1, LastOfNone DEF Submit, Await
<1>3. Len(b) \in Nat
  BY SeqElements
<1>4. DOMAIN gpu' = 1 .. Len(b) /\ \A n \in 1 .. Len(b) : gpu'[n] = b[n]
  BY <1>2, <1>3
<1>5. 1 \in DOMAIN gpu' => Len(b) \in DOMAIN gpu'
  BY <1>3, <1>4
<1>6. \A n \in DOMAIN gpu' : n .. Len(b) \subseteq DOMAIN gpu'
  BY <1>3, <1>4
<1> QED
  BY <1>3, <1>4, <1>5, <1>6 DEF QueueInv

LEMMA QueueStaysEmpty == ASSUME DOMAIN gpu' = {}, Batch' = <<>> PROVE QueueInv'
<1>1. IsSeq(Batch')
  BY DEF IsSeq
<1> QED
  BY <1>1 DEF QueueInv

(* The command that runs, of which the queue is rid.                       *)
Runs(n) ==
  /\ n \in DOMAIN gpu /\ MayRun(n)
  /\ images' = After(gpu[n], images)
  /\ draw' = IF gpu[n].op = "updateBuffer" THEN gpu[n].data ELSE draw
  /\ DOMAIN gpu' = DOMAIN gpu \ {n}
  /\ \A m \in DOMAIN gpu' : gpu'[m] = gpu[m]

LEMMA GpuRuns == ASSUME Gpu PROVE \E n \in DOMAIN gpu : Runs(n)
<1>1. PICK n \in DOMAIN gpu :
        /\ MayRun(n)
        /\ images' = After(gpu[n], images)
        /\ draw' = IF gpu[n].op = "updateBuffer" THEN gpu[n].data ELSE draw
        /\ gpu' = [m \in DOMAIN gpu \ {n} |-> gpu[m]]
  BY DEF Gpu
<1>2. DOMAIN gpu' = DOMAIN gpu \ {n} /\ \A m \in DOMAIN gpu' : gpu'[m] = gpu[m]
  BY <1>1
<1> QED
  BY <1>1, <1>2 DEF Runs

(* Where each command waits for the one before it, the first one left runs.*)
Chained(b) == \A n \in 2 .. Len(b) : Ordered(b[n - 1], b[n])

LEMMA FirstRuns ==
  ASSUME QueueInv, pc # "stopping", Chained(Batch), NEW n \in DOMAIN gpu, MayRun(n)
  PROVE  DOMAIN gpu = n .. Len(Batch)
<1>1. IsSeq(Batch) /\ DOMAIN gpu \subseteq 1 .. Len(Batch)
      /\ \A m \in DOMAIN gpu : gpu[m] = Batch[m] /\ m .. Len(Batch) \subseteq DOMAIN gpu
  BY DEF QueueInv
<1>2. Len(Batch) \in Nat /\ n \in 1 .. Len(Batch)
  BY <1>1, SeqElements
<1>3. ASSUME NEW m \in DOMAIN gpu, m < n PROVE FALSE
  <2>1. m \in 1 .. Len(Batch) /\ n - 1 \in m .. Len(Batch) /\ n \in 2 .. Len(Batch) /\ n - 1 < n
    BY <1>1, <1>2, <1>3
  <2>2. n - 1 \in DOMAIN gpu
    BY <1>1, <2>1
  <2>3. Ordered(gpu[n - 1], gpu[n])
    BY <1>1, <2>1, <2>2 DEF Chained
  <2> QED
    BY <2>1, <2>2, <2>3 DEF MayRun
<1>4. \A m \in DOMAIN gpu : m \in 1 .. Len(Batch) /\ m >= n
  BY <1>1, <1>2, <1>3
<1>5. n .. Len(Batch) \subseteq DOMAIN gpu
  BY <1>1
<1>6. ASSUME NEW m \in DOMAIN gpu PROVE m \in n .. Len(Batch)
  BY <1>2, <1>4
<1> QED
  BY <1>5, <1>6

LEMMA QueueSteps ==
  ASSUME QueueInv, pc # "stopping", Chained(Batch), NEW n, Runs(n),
         Batch' = Batch, pc' = pc
  PROVE  /\ QueueInv'
         /\ Len(Batch) \in Nat /\ n \in 1 .. Len(Batch)
         /\ DOMAIN gpu = n .. Len(Batch) /\ DOMAIN gpu' = n + 1 .. Len(Batch)
         /\ gpu[n] = Batch[n]
<1>1. IsSeq(Batch) /\ DOMAIN gpu \subseteq 1 .. Len(Batch) /\ \A m \in DOMAIN gpu : gpu[m] = Batch[m]
  BY DEF QueueInv
<1>2. Len(Batch) \in Nat /\ n \in DOMAIN gpu /\ n \in 1 .. Len(Batch)
  BY <1>1, SeqElements DEF Runs
<1>3. DOMAIN gpu = n .. Len(Batch)
  BY <1>2, FirstRuns DEF Runs
<1>4. DOMAIN gpu' = n + 1 .. Len(Batch)
  <2>1. DOMAIN gpu' = DOMAIN gpu \ {n}
    BY DEF Runs
  <2> QED
    BY <1>2, <1>3, <2>1
<1>5. \A m \in DOMAIN gpu' : gpu'[m] = Batch'[m]
  BY <1>1, <1>2, <1>3, <1>4 DEF Runs
<1>6. \A m \in DOMAIN gpu' : m .. Len(Batch) \subseteq DOMAIN gpu'
  BY <1>2, <1>4
<1>7. DOMAIN gpu' \subseteq 1 .. Len(Batch)
  BY <1>2, <1>4
<1> QED
  BY <1>1, <1>2, <1>3, <1>4, <1>5, <1>6, <1>7 DEF QueueInv

-----------------------------------------------------------------------------
(* Steps that leave atlases and images alone *)

Plain == pc \notin {"created", "uploading", "stopping"}

PlainLayout(i) == IF i \in Textures THEN "TRANSFER_SRC" ELSE "SHADER_READONLY"

LEMMA PlainMeans ==
  ASSUME Plain
  PROVE  /\ Created = {}
         /\ \A i : /\ Settled(i) = Len(atlases[i].recorded) /\ LeftOf(i) = Nat
                   /\ LayoutOf(i) = PlainLayout(i)
         /\ pc # "fence" => Batch = <<>>
BY DEF Plain, Created, Settled, LeftOf, LayoutOf, PlainLayout, Batch

LEMMA PlainNext ==
  ASSUME Plain'
  PROVE  /\ Created' = {}
         /\ \A i : /\ Settled(i)' = Len(atlases'[i].recorded) /\ LeftOf(i)' = Nat
                   /\ LayoutOf(i)' = PlainLayout(i)'
         /\ pc' # "fence" => Batch' = <<>>
BY DEF Plain, Created, Settled, LeftOf, LayoutOf, PlainLayout, Batch

(* What holds of atlases and images at rest.                               *)
Core == ImagesInv /\ LayoutInv /\ AtlasesInv

LEMMA CoreKept ==
  ASSUME Core, Plain, Plain', UNCHANGED <<atlases, images>>
  PROVE  Core'
<1>1. Created' = Created /\ Textures' = Textures
  BY PlainMeans, PlainNext DEF Textures
<1>2. \A i : PlainLayout(i)' = PlainLayout(i)
  BY <1>1 DEF PlainLayout
<1>3. \A i : Settled(i)' = Settled(i) /\ LeftOf(i)' = LeftOf(i) /\ LayoutOf(i)' = LayoutOf(i)
  BY <1>2, PlainMeans, PlainNext
<1>4. ImagesInv'
  BY <1>1 DEF Core, ImagesInv
<1>5. LayoutInv'
  BY <1>3 DEF Core, LayoutInv
<1>6. AtlasesInv'
  BY <1>3 DEF Core, AtlasesInv
<1> QED
  BY <1>4, <1>5, <1>6 DEF Core

-----------------------------------------------------------------------------
(* The instances of the text *)

(* What BufferInv says of the place the program is at.                     *)
BufferAt ==
  /\ pc = "ready" \/ (Searching /\ back = "ready") => buffer = <<>> /\ text = <<>>
  /\ Searching /\ back = "put" => symbol \notin DOMAIN infs

(* An instance shows its character, in the atlas of the character.         *)
InstanceOK(as, is, i, e) ==
  /\ e.symbol \in DOMAIN is /\ is[e.symbol] = i
  /\ e.symbol \in DOMAIN as[i].glyphBounds
  /\ e.uv = as[i].glyphBounds[e.symbol]

LEMMA BufferNext ==
  ASSUME BufferAt', IsFiniteSet(DOMAIN buffer'), DOMAIN buffer' \subseteq DOMAIN atlases',
         IsSeq(text'), DOMAIN infs' \subseteq Chars,
         \A i \in DOMAIN buffer' :
           /\ IsSeq(buffer'[i])
           /\ \A n \in 1 .. Len(buffer'[i]) : InstanceOK(atlases', infs', i, buffer'[i][n]),
         \A c \in Chars : AsMany(buffer', text', c)
  PROVE  BufferInv'
BY DEF BufferInv, BufferAt, InstanceOK

LEMMA BufferKept ==
  ASSUME BufferInv, BufferAt', UNCHANGED <<buffer, text, infs>>,
         \A i \in DOMAIN atlases :
           i \in DOMAIN atlases' /\ atlases'[i].glyphBounds = atlases[i].glyphBounds
  PROVE  BufferInv'
<1>1. \A c \in Chars : AsMany(buffer', text', c)
  BY DEF BufferInv
<1>2. IsFiniteSet(DOMAIN buffer') /\ DOMAIN buffer' \subseteq DOMAIN atlases' /\ IsSeq(text')
      /\ DOMAIN infs' \subseteq Chars
  BY DEF BufferInv
<1>3. \A i \in DOMAIN buffer' :
       /\ IsSeq(buffer'[i])
       /\ \A n \in 1 .. Len(buffer'[i]) : InstanceOK(atlases', infs', i, buffer'[i][n])
  BY DEF BufferInv, InstanceOK
<1> QED
  BY <1>1, <1>2, <1>3, BufferNext

(* A character of no text gets an atlas.                                   *)
LEMMA BufferMapped ==
  ASSUME BufferInv, BufferAt', UNCHANGED <<buffer, text>>,
         NEW c \in Chars, NEW i \in DOMAIN atlases', infs' = Put(infs, c, i),
         c \notin DOMAIN infs \/ (buffer = <<>> /\ text = <<>>),
         \A j \in DOMAIN atlases :
           /\ j \in DOMAIN atlases'
           /\ \A d \in DOMAIN atlases[j].glyphBounds :
                d # c => /\ d \in DOMAIN atlases'[j].glyphBounds
                         /\ atlases'[j].glyphBounds[d] = atlases[j].glyphBounds[d]
  PROVE  BufferInv'
<1>1. \A d \in Chars : AsMany(buffer', text', d)
  BY DEF BufferInv
<1>2. /\ DOMAIN infs' = DOMAIN infs \cup {c}
      /\ \A d \in DOMAIN infs : d # c => infs'[d] = infs[d]
  BY DEF Put
<1>3. IsFiniteSet(DOMAIN buffer') /\ DOMAIN buffer' \subseteq DOMAIN atlases' /\ IsSeq(text')
      /\ DOMAIN infs' \subseteq Chars
  BY <1>2 DEF BufferInv
<1>4. ASSUME NEW j \in DOMAIN buffer, NEW n \in 1 .. Len(buffer[j])
      PROVE  InstanceOK(atlases', infs', j, buffer[j][n])
  <2> DEFINE s == buffer[j][n].symbol
  <2>1. /\ s \in DOMAIN infs /\ infs[s] = j /\ j \in DOMAIN atlases
        /\ s \in DOMAIN atlases[j].glyphBounds
        /\ buffer[j][n].uv = atlases[j].glyphBounds[s]
    BY DEF BufferInv
  <2>2. s # c
    <3>1. buffer # <<>>
      OBVIOUS
    <3> QED
      BY <2>1, <3>1
  <2> QED
    BY <1>2, <2>1, <2>2 DEF InstanceOK
<1>5. \A j \in DOMAIN buffer' :
       /\ IsSeq(buffer'[j])
       /\ \A n \in 1 .. Len(buffer'[j]) : InstanceOK(atlases', infs', j, buffer'[j][n])
  BY <1>4 DEF BufferInv
<1> QED
  BY <1>1, <1>3, <1>5, BufferNext

(* put adds one instance and one character.                                *)
LEMMA PutBuffer ==
  ASSUME IInv, BufferInv, put, symbol \in DOMAIN atlases[infs[symbol]].glyphBounds
  PROVE  BufferInv'
<1> DEFINE i == infs[symbol]
           old == IF i \in DOMAIN buffer THEN buffer[i] ELSE <<>>
           new == [symbol |-> symbol, uv |-> atlases[i].glyphBounds[symbol]]
<1>1. /\ pc = "put" /\ pc' = "text" /\ symbol \in DOMAIN infs /\ symbol \in Chars
      /\ i \in DOMAIN atlases
      /\ UNCHANGED <<atlases, infs>>
      /\ text' = Append(text, symbol)
      /\ buffer' = Put(buffer, i, Append(old, new))
  BY DEF put, IInv
<1>2. IsSeq(old)
  <2>1. IsSeq(<<>>)
    BY DEF IsSeq
  <2> QED
    BY <2>1 DEF BufferInv
<1>3. new.symbol = symbol /\ InstanceOK(atlases, infs, i, new)
  BY <1>1 DEF InstanceOK
<1>4. i \notin DOMAIN buffer => Len(old) = 0
  <2>1. Len(<<>>) = 0
    OBVIOUS
  <2> QED
    BY <2>1
<1>5. i \in DOMAIN buffer => old = buffer[i]
  OBVIOUS
<1> HIDE DEF old, new, i
<1> DEFINE list == Append(old, new)
<1>6. /\ IsSeq(list) /\ Len(list) = Len(old) + 1 /\ list[Len(old) + 1] = new
      /\ \A n \in 1 .. Len(old) : list[n] = old[n]
      /\ Len(old) \in Nat /\ DOMAIN old = 1 .. Len(old) /\ DOMAIN list = 1 .. Len(old) + 1
  BY <1>2, AppendIsSeq, SeqElements
<1> HIDE DEF list
<1>7. /\ DOMAIN buffer' = DOMAIN buffer \cup {i} /\ buffer'[i] = list
      /\ \A j \in DOMAIN buffer : j # i => buffer'[j] = buffer[j]
  BY <1>1 DEF Put, list
<1>8. /\ IsSeq(text') /\ Len(text') = Len(text) + 1 /\ text'[Len(text) + 1] = symbol
      /\ \A n \in 1 .. Len(text) : text'[n] = text[n]
      /\ Len(text) \in Nat /\ DOMAIN text = 1 .. Len(text) /\ DOMAIN text' = 1 .. Len(text) + 1
  BY <1>1, AppendIsSeq, SeqElements DEF BufferInv
<1>9. IsFiniteSet(DOMAIN buffer') /\ DOMAIN buffer' \subseteq DOMAIN atlases'
      /\ DOMAIN infs' \subseteq Chars
  <2>1. IsFiniteSet(DOMAIN buffer \cup {i})
    BY FS_AddElement DEF BufferInv
  <2> QED
    BY <1>1, <1>7, <2>1 DEF BufferInv
<1>10. ASSUME NEW n \in 1 .. Len(list) PROVE InstanceOK(atlases, infs, i, list[n])
  <2>1. CASE n \in 1 .. Len(old)
    <3>1. i \in DOMAIN buffer
      BY <1>4, <2>1
    <3> QED
      BY <1>5, <1>6, <2>1, <3>1 DEF BufferInv, InstanceOK
  <2>2. CASE n = Len(old) + 1
    BY <1>3, <1>6, <2>2
  <2> QED
    BY <1>6, <2>1, <2>2
<1>11. ASSUME NEW j \in DOMAIN buffer'
       PROVE  /\ IsSeq(buffer'[j])
              /\ \A n \in 1 .. Len(buffer'[j]) : InstanceOK(atlases', infs', j, buffer'[j][n])
  <2>1. CASE j = i
    BY <1>1, <1>6, <1>7, <1>10, <2>1
  <2>2. CASE j # i
    BY <1>1, <1>7, <1>11, <2>2 DEF BufferInv, InstanceOK
  <2> QED
    BY <2>1, <2>2
<1> DEFINE p == <<i, Len(old) + 1>>
           l == Len(text) + 1
<1>12. ASSUME NEW b, NEW c, NEW q
       PROVE  q \in Spots(b, c) <=> \E j \in DOMAIN b : \E n \in DOMAIN b[j] :
                                      b[j][n].symbol = c /\ q = <<j, n>>
  BY DEF Spots
<1>13. ASSUME NEW c, NEW j \in DOMAIN buffer', NEW n
       PROVE  (n \in DOMAIN buffer'[j] /\ buffer'[j][n].symbol = c)
                <=> \/ j \in DOMAIN buffer /\ n \in DOMAIN buffer[j] /\ buffer[j][n].symbol = c
                    \/ c = symbol /\ j = i /\ n = Len(old) + 1
  <2>1. CASE j # i
    BY <1>7, <1>13, <2>1
  <2>2. CASE j = i
    <3>1. (n \in DOMAIN old) = (i \in DOMAIN buffer /\ n \in DOMAIN buffer[i])
      BY <1>4, <1>5, <1>6
    <3>2. DOMAIN list = DOMAIN old \cup {Len(old) + 1} /\ Len(old) + 1 \notin DOMAIN old
      BY <1>6
    <3>3. \A m \in DOMAIN old : list[m] = old[m]
      BY <1>6
    <3>4. list[Len(old) + 1].symbol = symbol
      BY <1>3, <1>6
    <3> QED
      BY <1>5, <1>7, <2>2, <3>1, <3>2, <3>3, <3>4
  <2> QED
    BY <2>1, <2>2
<1>14. ASSUME NEW c
       PROVE  /\ c # symbol => Spots(buffer', c) = Spots(buffer, c)
              /\ c = symbol => Spots(buffer', c) = Spots(buffer, c) \cup {p} /\ p \notin Spots(buffer, c)
  <2>1. \A q : q \in Spots(buffer', c) <=>
                 q \in Spots(buffer, c) \/ (c = symbol /\ q = p)
    <3> TAKE q
    <3>1. ASSUME q \in Spots(buffer', c)
          PROVE  q \in Spots(buffer, c) \/ (c = symbol /\ q = p)
      <4>1. PICK j \in DOMAIN buffer' : \E n \in DOMAIN buffer'[j] :
                buffer'[j][n].symbol = c /\ q = <<j, n>>
        BY <1>12, <3>1
      <4>2. PICK n \in DOMAIN buffer'[j] : buffer'[j][n].symbol = c /\ q = <<j, n>>
        BY <4>1
      <4>3. CASE j \in DOMAIN buffer /\ n \in DOMAIN buffer[j] /\ buffer[j][n].symbol = c
        BY <1>12, <4>2, <4>3
      <4>4. CASE c = symbol /\ j = i /\ n = Len(old) + 1
        BY <4>2, <4>4
      <4>5. \/ j \in DOMAIN buffer /\ n \in DOMAIN buffer[j] /\ buffer[j][n].symbol = c
            \/ c = symbol /\ j = i /\ n = Len(old) + 1
        BY <1>13, <4>2
      <4> QED
        BY <4>3, <4>4, <4>5
    <3>2. ASSUME q \in Spots(buffer, c) PROVE q \in Spots(buffer', c)
      <4>1. PICK j \in DOMAIN buffer : \E n \in DOMAIN buffer[j] :
                buffer[j][n].symbol = c /\ q = <<j, n>>
        BY <1>12, <3>2
      <4>2. PICK n \in DOMAIN buffer[j] : buffer[j][n].symbol = c /\ q = <<j, n>>
        BY <4>1
      <4>3. j \in DOMAIN buffer'
        BY <1>7
      <4>4. n \in DOMAIN buffer'[j] /\ buffer'[j][n].symbol = c
        BY <1>13, <4>2, <4>3
      <4> QED
        BY <1>12, <4>2, <4>3, <4>4
    <3>3. ASSUME c = symbol, q = p PROVE q \in Spots(buffer', c)
      <4>1. i \in DOMAIN buffer'
        BY <1>7
      <4>2. Len(old) + 1 \in DOMAIN buffer'[i] /\ buffer'[i][Len(old) + 1].symbol = c
        BY <1>13, <3>3, <4>1
      <4> QED
        BY <1>12, <3>3, <4>1, <4>2
    <3> QED
      BY <3>1, <3>2, <3>3
  <2>2. p \notin Spots(buffer, c)
    <3> SUFFICES ASSUME p \in Spots(buffer, c) PROVE FALSE
      OBVIOUS
    <3>1. i \in DOMAIN buffer /\ Len(old) + 1 \in DOMAIN buffer[i]
      BY <1>12
    <3> QED
      BY <1>5, <1>6, <3>1
  <2> QED
    BY <2>1, <2>2
<1>15. ASSUME NEW c
       PROVE  /\ c # symbol => Positions(text', c) = Positions(text, c)
              /\ c = symbol => /\ Positions(text', c) = Positions(text, c) \cup {l}
                               /\ l \notin Positions(text, c)
  BY <1>8 DEF Positions
<1> HIDE DEF p, l
<1>16. ASSUME NEW c \in Chars PROVE AsMany(buffer', text', c)
  <2>1. AsMany(buffer, text, c)
    BY DEF BufferInv
  <2>2. CASE c # symbol
    BY <1>14, <1>15, <2>1, <2>2 DEF AsMany
  <2>3. CASE c = symbol
    <3>1. /\ IsFiniteSet(Spots(buffer', c))
          /\ Cardinality(Spots(buffer', c)) = Cardinality(Spots(buffer, c)) + 1
      BY <1>14, <2>1, <2>3, FS_AddElement DEF AsMany
    <3>2. /\ IsFiniteSet(Positions(text', c))
          /\ Cardinality(Positions(text', c)) = Cardinality(Positions(text, c)) + 1
      BY <1>15, <2>1, <2>3, FS_AddElement DEF AsMany
    <3> QED
      BY <2>1, <3>1, <3>2 DEF AsMany
  <2> QED
    BY <2>2, <2>3
<1>17. BufferAt'
  BY <1>1 DEF BufferAt, Searching, Placing
<1> QED
  BY <1>8, <1>9, <1>11, <1>16, <1>17, BufferNext

-----------------------------------------------------------------------------
(* Steps of the program that leave atlases and images alone *)

LEMMA PlainStep ==
  ASSUME Core, Plain, Plain', UNCHANGED <<atlases, images>>, pc' # "accepted",
         StopInv', BufferInv', CommandsInv'
  PROVE  GpuInv'
<1>1. Core'
  BY CoreKept
<1>2. UploadInv'
  BY DEF UploadInv, Placing, Plain
<1> QED
  BY <1>1, <1>2 DEF GpuInv, Core

LEMMA QuietQueue ==
  ASSUME QueueInv, Plain, pc # "fence", gpu' = gpu, Plain', pc' # "fence"
  PROVE  QueueInv' /\ Await
<1>1. Batch = <<>> /\ Batch' = <<>>
  BY PlainMeans, PlainNext
<1>2. Await
  BY <1>1, QueueEmpty
<1>3. DOMAIN gpu' = {}
  BY <1>2 DEF Await
<1> QED
  BY <1>1, <1>2, <1>3, QueueStaysEmpty

LEMMA OpenMeans ==
  ASSUME GpuInv, pc # "closed"
  PROVE  Core /\ UploadInv /\ StopInv /\ BufferInv /\ CommandsInv
BY DEF GpuInv, Core

LEMMA StartDrawSafe ==
  ASSUME QueueInv, GpuInv, startDraw PROVE QueueInv' /\ GpuInv'
<1>1. /\ pc = "ready" /\ pc' = "text" /\ UNCHANGED <<atlases, infs, images, gpu, text, buffer>>
  BY DEF startDraw, gpuVars, frameVars
<1>2. Core /\ BufferInv /\ Plain /\ Plain'
  BY <1>1, OpenMeans DEF Plain
<1>3. BufferInv'
  BY <1>1, <1>2, BufferKept DEF BufferAt, Searching, Placing
<1>4. StopInv' /\ CommandsInv'
  BY <1>1 DEF StopInv, CommandsInv
<1> QED
  BY <1>1, <1>2, <1>3, <1>4, PlainStep, QuietQueue

LEMMA KnownCharSafe ==
  ASSUME QueueInv, GpuInv, pc = "text", pc' = "put",
         UNCHANGED <<atlases, infs, gpuVars, frameVars>>
  PROVE  QueueInv' /\ GpuInv'
<1>1. UNCHANGED <<atlases, infs, images, gpu, text, buffer>>
  BY DEF gpuVars, frameVars
<1>2. Core /\ BufferInv /\ Plain /\ Plain'
  BY OpenMeans DEF Plain
<1>3. BufferInv'
  BY <1>1, <1>2, BufferKept DEF BufferAt, Searching, Placing
<1>4. StopInv' /\ CommandsInv'
  BY DEF StopInv, CommandsInv
<1> QED
  BY <1>1, <1>2, <1>3, <1>4, PlainStep, QuietQueue

LEMMA PutSafe ==
  ASSUME IInv, QueueInv, GpuInv, put PROVE QueueInv' /\ GpuInv'
<1>1. /\ pc = "put" /\ pc' \in {"text", "failed"} /\ UNCHANGED <<atlases, infs, images, gpu>>
  BY DEF put, gpuVars
<1>2. Core /\ BufferInv /\ Plain /\ Plain'
  BY <1>1, OpenMeans DEF Plain
<1>3. BufferInv'
  <2>1. CASE symbol \in DOMAIN atlases[infs[symbol]].glyphBounds
    BY <1>2, <2>1, PutBuffer
  <2>2. CASE symbol \notin DOMAIN atlases[infs[symbol]].glyphBounds
    <3>1. pc' = "failed" /\ UNCHANGED <<buffer, text>>
      BY <2>2 DEF put
    <3> QED
      BY <1>1, <1>2, <3>1, BufferKept DEF BufferAt, Searching, Placing
  <2> QED
    BY <2>1, <2>2
<1>4. StopInv' /\ CommandsInv'
  BY <1>1 DEF StopInv, CommandsInv
<1> QED
  BY <1>1, <1>2, <1>3, <1>4, PlainStep, QuietQueue

LEMMA EndTextSafe ==
  ASSUME IInv, QueueInv, GpuInv, endText PROVE QueueInv' /\ GpuInv'
<1>1. /\ pc = "text" /\ pc' = "stop" /\ at' = 1
      /\ UNCHANGED <<atlases, infs, images, gpu, text, buffer>>
  BY DEF endText, gpuVars, frameVars
<1>2. Core /\ BufferInv /\ Plain /\ Plain'
  BY <1>1, OpenMeans DEF Plain
<1>3. BufferInv'
  BY <1>1, <1>2, BufferKept DEF BufferAt, Searching, Placing
<1>4. DOMAIN atlases' = 1 .. Len(atlases) /\ Len(atlases) \in Nat
  BY <1>1, LenProperties DEF IInv
<1>5. StopInv' /\ CommandsInv'
  BY <1>1, <1>4 DEF StopInv, CommandsInv
<1> QED
  BY <1>1, <1>2, <1>3, <1>5, PlainStep, QuietQueue

(* An atlas that is not being modified is passed over.                     *)
LEMMA PassOverSafe ==
  ASSUME IInv, Submitting, QueueInv, GpuInv, stopModify, ~atlases[at].modifying
  PROVE  QueueInv' /\ GpuInv'
<1>1. /\ pc = "stop" /\ pc' = "stop" /\ at' = at + 1 /\ at \in Nat
      /\ UNCHANGED <<atlases, infs, images, gpu, text, buffer>>
  BY DEF stopModify, frameVars, Submitting
<1>2. Core /\ BufferInv /\ StopInv /\ Plain /\ Plain'
  BY <1>1, OpenMeans DEF Plain
<1>3. BufferInv'
  BY <1>1, <1>2, BufferKept DEF BufferAt, Searching, Placing
<1>4. DOMAIN atlases = 1 .. Len(atlases) /\ Len(atlases) \in Nat
  BY LenProperties DEF IInv
<1>5. \A i \in DOMAIN atlases' : i < at' => ~atlases'[i].modifying
  BY <1>1, <1>2, <1>4 DEF StopInv
<1>6. StopInv' /\ CommandsInv'
  BY <1>1, <1>5 DEF StopInv, CommandsInv
<1> QED
  BY <1>1, <1>2, <1>3, <1>6, PlainStep, QuietQueue

LEMMA RecordSafe ==
  ASSUME IInv, Submitting, QueueInv, GpuInv, record PROVE QueueInv' /\ GpuInv'
<1>1. /\ pc = "stop" /\ pc' = "recorded" /\ at > Len(atlases) /\ at \in Nat
      /\ UNCHANGED <<atlases, infs, images, gpu, text, buffer>>
  BY DEF record, gpuVars, Submitting
<1>2. Core /\ BufferInv /\ StopInv /\ Plain /\ Plain'
  BY <1>1, OpenMeans DEF Plain
<1>3. BufferInv'
  BY <1>1, <1>2, BufferKept DEF BufferAt, Searching, Placing
<1>4. DOMAIN atlases = 1 .. Len(atlases) /\ Len(atlases) \in Nat
  BY LenProperties DEF IInv
<1>5. \A i \in DOMAIN atlases' : ~atlases'[i].modifying
  BY <1>1, <1>2, <1>4 DEF StopInv
<1>6. PICK order \in SetToSeqs(DOMAIN buffer) : cmd' = Commands(order)
  BY DEF record
<1>7. Commands(order)' = Commands(order)
  BY <1>1 DEF Commands
<1>8. \E o \in SetToSeqs(DOMAIN buffer') : cmd' = Commands(o)'
  BY <1>1, <1>6, <1>7
<1>9. StopInv' /\ CommandsInv'
  BY <1>1, <1>5, <1>8 DEF StopInv, CommandsInv
<1> QED
  BY <1>1, <1>2, <1>3, <1>9, PlainStep, QuietQueue

(* Four commands for each atlas of the buffer.                             *)
CommandAt(order, n) ==
  LET i == order[(n + 3) \div 4] IN
  CASE n % 4 = 1 -> BeforeUpdate
    [] n % 4 = 2 -> UpdateBuffer(buffer[i])
    [] n % 4 = 3 -> AfterUpdate
    [] n % 4 = 0 -> Draw(i, Len(buffer[i]))

LEMMA CommandsSeq ==
  ASSUME NEW order \in SetToSeqs(DOMAIN buffer), IsFiniteSet(DOMAIN buffer)
  PROVE  /\ Len(order) \in Nat /\ DOMAIN order = 1 .. Len(order)
         /\ IsSeq(Commands(order)) /\ Len(Commands(order)) = 4 * Len(order)
         /\ DOMAIN Commands(order) = 1 .. 4 * Len(order)
         /\ \A n \in 1 .. 4 * Len(order) : Commands(order)[n] = CommandAt(order, n)
<1>1. Cardinality(DOMAIN buffer) \in Nat
  BY FS_CardinalityType
<1>2. order \in [1 .. Cardinality(DOMAIN buffer) -> DOMAIN buffer]
  BY DEF SetToSeqs
<1>3. Len(order) \in Nat /\ DOMAIN order = 1 .. Len(order)
  BY <1>1, <1>2
<1> DEFINE f == Commands(order)
<1>4. f = [n \in 1 .. 4 * Len(order) |-> CommandAt(order, n)]
  BY DEF Commands, CommandAt
<1>5. 4 * Len(order) \in Nat
  BY <1>3
<1> HIDE DEF f
<1>6. /\ f = [n \in 1 .. 4 * Len(order) |-> f[n]]
      /\ \A n \in 1 .. 4 * Len(order) : f[n] = CommandAt(order, n)
  BY <1>4
<1>7. IsSeq(f) /\ Len(f) = 4 * Len(order) /\ DOMAIN f = 1 .. 4 * Len(order)
  BY <1>5, <1>6, SeqOfElements DEF IsSeq
<1> QED
  BY <1>3, <1>6, <1>7 DEF f

LEMMA CommandAtMeans ==
  ASSUME NEW order, NEW n \in Nat, NEW i, i = order[(n + 3) \div 4]
  PROVE  /\ n % 4 \in 0 .. 3
         /\ n % 4 = 1 => CommandAt(order, n) = BeforeUpdate
         /\ n % 4 = 2 => CommandAt(order, n) = UpdateBuffer(buffer[i])
         /\ n % 4 = 3 => CommandAt(order, n) = AfterUpdate
         /\ n % 4 = 0 => CommandAt(order, n) = Draw(i, Len(buffer[i]))
<1>1. n % 4 \in 0 .. 3
  OBVIOUS
<1>2. CASE n % 4 = 1
  BY <1>2 DEF CommandAt
<1>3. CASE n % 4 = 2
  BY <1>3 DEF CommandAt
<1>4. CASE n % 4 = 3
  BY <1>4 DEF CommandAt
<1>5. CASE n % 4 = 0
  BY <1>5 DEF CommandAt
<1> QED
  BY <1>1, <1>2, <1>3, <1>4, <1>5

(* Writes wait for the draw before them, and draws for their writes.       *)
LEMMA UpdatesOrdered ==
  ASSUME NEW data, NEW i, NEW count
  PROVE  /\ Ordered(BeforeUpdate, UpdateBuffer(data))
         /\ Ordered(UpdateBuffer(data), AfterUpdate)
         /\ Ordered(AfterUpdate, Draw(i, count))
         /\ Ordered(Draw(i, count), BeforeUpdate)
<1> DEFINE b == BeforeUpdate
           u == UpdateBuffer(data)
           a == AfterUpdate
           d == Draw(i, count)
<1>1. /\ b.op = "transitionBuffer" /\ a.op = "transitionBuffer"
      /\ b.image = DrawBuffer /\ a.image = DrawBuffer
      /\ b.before.stages = GRAPHICS /\ b.before.access = "VERTEX_READ"
      /\ b.after.stages = TRANSFER /\ b.after.access = "TRANSFER_WRITE"
      /\ a.before.stages = TRANSFER /\ a.before.access = "TRANSFER_WRITE"
      /\ a.after.stages = GRAPHICS /\ a.after.access = "VERTEX_READ"
  BY DEF BeforeUpdate, AfterUpdate, TransitionBuffer, Scope
<1>2. u.op = "updateBuffer" /\ d.op = "draw"
  BY DEF UpdateBuffer, Draw
<1> DEFINE w == Use(DrawBuffer, "transfer", "TRANSFER_WRITE")
           v == Use(DrawBuffer, "vertex input", "VERTEX_READ")
<1>3. /\ w.on = DrawBuffer /\ w.stage = "transfer" /\ w.access = "TRANSFER_WRITE"
      /\ v.on = DrawBuffer /\ v.stage = "vertex input" /\ v.access = "VERTEX_READ"
  BY DEF Use
<1> HIDE DEF b, a, u, d, w, v
<1>4. w \in Uses(u) /\ v \in Uses(d)
  BY <1>2 DEF Uses, w, v
<1>5. "transfer" \in TRANSFER /\ "vertex input" \in GRAPHICS
  BY DEF TRANSFER, GRAPHICS
<1>6. /\ IsBarrier(b) /\ IsBarrier(a) /\ ~IsBarrier(u) /\ ~IsBarrier(d)
  BY <1>1, <1>2 DEF IsBarrier
<1>7. /\ Covers(b, b.after, u) /\ Covers(a, a.before, u)
      /\ Covers(a, a.after, d) /\ Covers(b, b.before, d)
  BY <1>1, <1>3, <1>4, <1>5 DEF Covers
<1>8. Ordered(b, u) /\ Ordered(u, a) /\ Ordered(a, d) /\ Ordered(d, b)
  BY <1>6, <1>7 DEF Ordered
<1> QED
  BY <1>8 DEF a, b, u, d

LEMMA CommandsChained ==
  ASSUME NEW order \in SetToSeqs(DOMAIN buffer), IsFiniteSet(DOMAIN buffer)
  PROVE  Chained(Commands(order))
<1>1. /\ Len(order) \in Nat /\ Len(Commands(order)) = 4 * Len(order)
      /\ \A n \in 1 .. 4 * Len(order) : Commands(order)[n] = CommandAt(order, n)
  BY CommandsSeq
<1>2. ASSUME NEW n \in 2 .. 4 * Len(order)
      PROVE  Ordered(Commands(order)[n - 1], Commands(order)[n])
  <2>1. n \in Nat /\ n - 1 \in Nat /\ n \in 1 .. 4 * Len(order) /\ n - 1 \in 1 .. 4 * Len(order)
    BY <1>1
  <2>2. Commands(order)[n] = CommandAt(order, n) /\ Commands(order)[n - 1] = CommandAt(order, n - 1)
    BY <1>1, <2>1
  <2>3. PICK i, j : i = order[(n + 3) \div 4] /\ j = order[(n - 1 + 3) \div 4]
    OBVIOUS
  <2>4. CASE n % 4 = 1
    <3>1. (n - 1) % 4 = 0
      BY <2>1, <2>4
    <3>2. CommandAt(order, n) = BeforeUpdate /\ CommandAt(order, n - 1) = Draw(j, Len(buffer[j]))
      BY <2>1, <2>3, <2>4, <3>1, CommandAtMeans
    <3> QED
      BY <2>2, <3>2, UpdatesOrdered
  <2>5. CASE n % 4 = 2
    <3>1. (n - 1) % 4 = 1
      BY <2>1, <2>5
    <3>2. CommandAt(order, n) = UpdateBuffer(buffer[i]) /\ CommandAt(order, n - 1) = BeforeUpdate
      BY <2>1, <2>3, <2>5, <3>1, CommandAtMeans
    <3> QED
      BY <2>2, <3>2, UpdatesOrdered
  <2>6. CASE n % 4 = 3
    <3>1. (n - 1) % 4 = 2
      BY <2>1, <2>6
    <3>2. CommandAt(order, n) = AfterUpdate /\ CommandAt(order, n - 1) = UpdateBuffer(buffer[j])
      BY <2>1, <2>3, <2>6, <3>1, CommandAtMeans
    <3> QED
      BY <2>2, <3>2, UpdatesOrdered
  <2>7. CASE n % 4 = 0
    <3>1. (n - 1) % 4 = 3
      BY <2>1, <2>7
    <3>2. CommandAt(order, n) = Draw(i, Len(buffer[i])) /\ CommandAt(order, n - 1) = AfterUpdate
      BY <2>1, <2>3, <2>7, <3>1, CommandAtMeans
    <3> QED
      BY <2>2, <3>2, UpdatesOrdered
  <2> QED
    BY <2>1, <2>4, <2>5, <2>6, <2>7, CommandAtMeans
<1> QED
  BY <1>1, <1>2 DEF Chained

LEMMA SubmitFrameSafe ==
  ASSUME QueueInv, GpuInv, submitFrame PROVE QueueInv' /\ GpuInv'
<1>1. /\ pc = "recorded" /\ pc' = "fence" /\ Submit(cmd)
      /\ UNCHANGED <<atlases, infs, images, text, buffer, cmd>>
  BY DEF submitFrame, frameVars
<1>2. Core /\ BufferInv /\ StopInv /\ CommandsInv /\ Plain /\ Plain'
  BY <1>1, OpenMeans DEF Plain
<1>3. BufferInv'
  BY <1>1, <1>2, BufferKept DEF BufferAt, Searching, Placing
<1>4. PICK order \in SetToSeqs(DOMAIN buffer) : cmd = Commands(order)
  BY <1>1, <1>2 DEF CommandsInv
<1>5. IsSeq(cmd)
  BY <1>2, <1>4, CommandsSeq DEF BufferInv
<1>6. Await
  <2>1. Batch = <<>>
    BY <1>1, <1>2, PlainMeans
  <2> QED
    BY <2>1, QueueEmpty
<1>7. Batch' = cmd
  BY <1>1 DEF Batch
<1>8. QueueInv' /\ DOMAIN gpu' = 1 .. Len(cmd) /\ Len(cmd) \in Nat
  BY <1>1, <1>5, <1>6, <1>7, QueueStarts
<1>9. Commands(order)' = Commands(order)
  BY <1>1 DEF Commands
<1>10. \E o \in SetToSeqs(DOMAIN buffer') : cmd' = Commands(o)'
  BY <1>1, <1>4, <1>9
<1>11. CommandsInv'
  <2>1. ASSUME NEW n \in DOMAIN gpu', n % 4 = 0 PROVE n - 2 \in DOMAIN gpu'
    BY <1>8, <2>1
  <2> QED
    BY <1>10, <2>1 DEF CommandsInv
<1>12. StopInv'
  BY <1>1, <1>2 DEF StopInv
<1> QED
  BY <1>1, <1>2, <1>3, <1>8, <1>11, <1>12, PlainStep

LEMMA NoInstances ==
  ASSUME NEW c PROVE AsMany(<<>>, <<>>, c)
<1>1. DOMAIN <<>> = {}
  OBVIOUS
<1>2. Spots(<<>>, c) = {} /\ Positions(<<>>, c) = {}
  BY <1>1 DEF Spots, Positions
<1> QED
  BY <1>2, FS_EmptySet DEF AsMany

LEMMA AwaitFrameSafe ==
  ASSUME QueueInv, GpuInv, awaitFrame PROVE QueueInv' /\ GpuInv'
<1>1. /\ pc = "fence" /\ pc' = "ready" /\ DOMAIN gpu = {} /\ text' = <<>> /\ buffer' = <<>>
      /\ UNCHANGED <<atlases, infs, images, gpu>>
  BY DEF awaitFrame, Await
<1>2. Core /\ BufferInv /\ Plain /\ Plain'
  BY <1>1, OpenMeans DEF Plain
<1>3. BufferAt'
  BY <1>1 DEF BufferAt, Searching, Placing
<1>4. /\ DOMAIN buffer' = {} /\ IsFiniteSet(DOMAIN buffer') /\ IsSeq(text')
      /\ DOMAIN infs' \subseteq Chars
  BY <1>1, <1>2, FS_EmptySet DEF IsSeq, BufferInv
<1>5. \A c \in Chars : AsMany(buffer', text', c)
  BY <1>1, NoInstances
<1>6. BufferInv'
  BY <1>3, <1>4, <1>5, BufferNext
<1>7. StopInv' /\ CommandsInv'
  BY <1>1 DEF StopInv, CommandsInv
<1>8. QueueInv'
  BY <1>1, <1>2, PlainNext, QueueStaysEmpty
<1> QED
  BY <1>1, <1>2, <1>6, <1>7, <1>8, PlainStep

LEMMA DestroySafe ==
  ASSUME QueueInv, GpuInv, destroy PROVE QueueInv' /\ GpuInv'
<1>1. pc \in {"ready", "failed"} /\ pc' = "closed" /\ gpu' = gpu
  BY DEF destroy
<1>2. Plain /\ Plain'
  BY <1>1 DEF Plain
<1> QED
  BY <1>1, <1>2, QuietQueue DEF GpuInv

-----------------------------------------------------------------------------
(* Steps of the GPU *)

LEMMA AtlasNumbers ==
  ASSUME IInv
  PROVE  Len(atlases) \in Nat /\ DOMAIN atlases = 1 .. Len(atlases)
BY LenProperties DEF IInv

(* Atlases have lower numbers than textures.                               *)
LEMMA ImageNumbers ==
  ASSUME ImagesInv
  PROVE  /\ DOMAIN atlases \cap Textures = {} /\ Created \cap Textures = {}
         /\ \A i \in DOMAIN atlases : atlases[i].rs \subseteq Textures
         /\ DOMAIN atlases \subseteq DOMAIN images /\ Textures \subseteq DOMAIN images
<1>1. MaxAtlases \in Nat
  BY TextAssumption
<1>2. \A i \in DOMAIN atlases : atlases[i].rs \subseteq Textures
  BY DEF Textures
<1>3. (DOMAIN atlases \cup Created) \cap Textures = {}
  BY <1>1 DEF ImagesInv
<1> QED
  BY <1>2, <1>3 DEF ImagesInv

LEMMA GpuMeans ==
  ASSUME Gpu, QueueInv
  PROVE  /\ UNCHANGED <<atlases, infs, text, buffer, cmd, pc, symbol, at, back>>
         /\ Batch' = Batch
         /\ pc \in {"created", "uploading", "stopping", "fence"}
<1>1. UNCHANGED <<atlases, infs, text, buffer, cmd, pc, symbol, at, back>>
  BY DEF Gpu, frameVars
<1>2. Batch' = Batch
  BY <1>1 DEF Batch, Texture
<1>3. pc \in {"created", "uploading", "stopping", "fence"}
  <2> SUFFICES ASSUME pc \notin {"created", "uploading", "stopping", "fence"} PROVE FALSE
    OBVIOUS
  <2>1. Batch = <<>>
    BY DEF Batch
  <2> QED
    BY <2>1, QueueEmpty DEF Gpu, Await
<1> QED
  BY <1>1, <1>2, <1>3

(* The next command of a batch whose commands wait for each other.         *)
LEMMA GpuNext ==
  ASSUME Gpu, QueueInv, pc # "stopping", Chained(Batch)
  PROVE  \E n \in 1 .. Len(Batch) :
           /\ QueueInv' /\ Len(Batch) \in Nat
           /\ DOMAIN gpu = n .. Len(Batch) /\ DOMAIN gpu' = n + 1 .. Len(Batch)
           /\ images' = After(Batch[n], images)
           /\ draw' = IF Batch[n].op = "updateBuffer" THEN Batch[n].data ELSE draw
<1>1. PICK n \in DOMAIN gpu : Runs(n)
  BY GpuRuns
<1>2. Batch' = Batch /\ pc' = pc
  BY GpuMeans
<1>3. /\ QueueInv' /\ Len(Batch) \in Nat /\ n \in 1 .. Len(Batch)
      /\ DOMAIN gpu = n .. Len(Batch) /\ DOMAIN gpu' = n + 1 .. Len(Batch)
      /\ gpu[n] = Batch[n]
  BY <1>1, <1>2, QueueSteps
<1> QED
  BY <1>1, <1>3 DEF Runs

(* What the GPU does to the images: to image x, and to no other.           *)
LEMMA GpuKeeps ==
  ASSUME QueueInv, GpuInv, Gpu, pc # "closed", NEW x \in DOMAIN images,
         DOMAIN images' = DOMAIN images, \A j \in DOMAIN images : j # x => images'[j] = images[j],
         DOMAIN images'[x] = {"layout", "texels"},
         DOMAIN images'[x].texels = DOMAIN images[x].texels,
         images'[x].layout = LayoutOf(x)',
         \A i \in DOMAIN images : i # x => LayoutOf(i)' = LayoutOf(i),
         AtlasesInv', UploadInv', CommandsInv'
  PROVE  GpuInv'
<1>1. UNCHANGED <<atlases, infs, text, buffer, cmd, pc, symbol, at, back>>
  BY GpuMeans
<1>2. Core /\ StopInv /\ BufferInv
  BY OpenMeans
<1>3. Created' = Created /\ Textures' = Textures
  BY <1>1 DEF Created, Textures
<1>4. ImagesInv'
  <2>1. ImagesInv
    BY <1>2 DEF Core
  <2>2. \A i \in DOMAIN images' : DOMAIN images'[i] = {"layout", "texels"}
    BY <2>1 DEF ImagesInv
  <2>3. \A i \in DOMAIN images : DOMAIN images'[i].texels = DOMAIN images[i].texels
    OBVIOUS
  <2>4. \A i \in DOMAIN atlases' \cup Created' : DOMAIN images'[i].texels = Whole
    BY <1>1, <1>3, <2>1, <2>3 DEF ImagesInv
  <2> QED
    BY <1>1, <1>3, <2>1, <2>2, <2>4 DEF ImagesInv
<1>5. LayoutInv'
  BY <1>2 DEF Core, LayoutInv
<1>6. StopInv'
  BY <1>1, <1>2 DEF StopInv
<1>7. BufferAt
  BY <1>2 DEF BufferInv, BufferAt
<1>8. BufferAt'
  BY <1>1, <1>7 DEF BufferAt, Searching, Placing
<1>9. BufferInv'
  BY <1>1, <1>2, <1>8, BufferKept
<1> QED
  BY <1>4, <1>5, <1>6, <1>9 DEF GpuInv

(* An atlas none of whose images changes.                                  *)
LEMMA ContentElsewhere ==
  ASSUME ImagesInv, AtlasesInv, NEW i \in DOMAIN atlases, NEW x,
         \A j \in DOMAIN images : j # x => images'[j] = images[j],
         x # i, \A m \in 2 .. Settled(i) : Src(atlases[i], m) # x
  PROVE  ContentOK(atlases[i], i, images', Settled(i), LeftOf(i))
<1>1. i \in DOMAIN images /\ atlases[i].rs \subseteq DOMAIN images
  BY ImageNumbers
<1>2. images'[i].texels = images[i].texels
  BY <1>1
<1>3. \A m \in 2 .. Settled(i) :
        Src(atlases[i], m) \in atlases[i].rs => images'[Src(atlases[i], m)] = images[Src(atlases[i], m)]
  BY <1>1
<1>4. ContentOK(atlases[i], i, images, Settled(i), LeftOf(i))
  BY DEF AtlasesInv
<1> QED
  BY <1>2, <1>3, <1>4, ContentKept

(* The sources of an atlas' copies are its own.                            *)
LEMMA SourceOwned ==
  ASSUME AtlasesInv, NEW i \in DOMAIN atlases, NEW m \in 2 .. Settled(i)
  PROVE  Src(atlases[i], m) \in atlases[i].rs
BY DEF AtlasesInv, ContentOK, CopyOK

LEMMA GpuCreated ==
  ASSUME IInv, QueueInv, GpuInv, Gpu, pc = "created" PROVE QueueInv' /\ GpuInv'
<1>1. UNCHANGED <<atlases, infs, text, buffer, cmd, pc, symbol, at, back>>
  BY GpuMeans
<1>2. Core /\ ImagesInv /\ LayoutInv /\ AtlasesInv
  BY OpenMeans DEF Core
<1>3. QueueInv' /\ DOMAIN gpu' = {} /\ images' = After(Prepare(at), images)
  <2>1. Batch = <<Prepare(at)>> /\ Len(Batch) = 1 /\ Batch[1] = Prepare(at)
    BY DEF Batch
  <2>2. Chained(Batch)
    BY <2>1 DEF Chained
  <2>3. PICK n \in 1 .. Len(Batch) :
          /\ QueueInv' /\ DOMAIN gpu' = n + 1 .. Len(Batch) /\ images' = After(Batch[n], images)
    BY <2>2, GpuNext
  <2>4. n = 1
    BY <2>1
  <2> QED
    BY <2>1, <2>3, <2>4
<1>4. at \in DOMAIN images /\ at \notin DOMAIN atlases /\ at \notin Textures /\ Created = {at}
  <2>1. Created = {at}
    BY DEF Created
  <2>2. at = Len(atlases) + 1
    BY DEF IInv
  <2> QED
    BY <1>2, <2>1, <2>2, AtlasNumbers, ImageNumbers DEF ImagesInv
<1>5. /\ DOMAIN images' = DOMAIN images
      /\ \A j \in DOMAIN images : j # at => images'[j] = images[j]
      /\ DOMAIN images'[at] = {"layout", "texels"}
      /\ DOMAIN images'[at].texels = DOMAIN images[at].texels
      /\ images'[at].layout = "SHADER_READONLY"
  BY <1>3, <1>4, AfterTransition DEF Prepare
<1>6. Textures' = Textures
  BY <1>1 DEF Textures
<1>7. PICK x : x = at
  OBVIOUS
<1>8. /\ LayoutOf(x)' = "SHADER_READONLY"
      /\ \A i : i # x => LayoutOf(i)' = LayoutOf(i)
  BY <1>1, <1>3, <1>4, <1>6, <1>7 DEF LayoutOf
<1>9. ASSUME NEW i \in DOMAIN atlases
      PROVE  ContentOK(atlases[i], i, images', Settled(i), LeftOf(i))
  <2>1. \A m \in 2 .. Settled(i) : Src(atlases[i], m) # at
    BY <1>2, <1>4, SourceOwned, ImageNumbers
  <2> QED
    BY <1>2, <1>4, <1>5, <2>1, ContentElsewhere
<1>10. \A i : Settled(i)' = Settled(i) /\ LeftOf(i)' = LeftOf(i)
  BY <1>1 DEF Settled, LeftOf
<1>11. AtlasesInv'
  BY <1>1, <1>2, <1>9, <1>10 DEF AtlasesInv
<1>12. UploadInv' /\ CommandsInv'
  BY <1>1 DEF UploadInv, CommandsInv, Placing
<1>13. /\ pc # "closed" /\ x \in DOMAIN images
       /\ DOMAIN images' = DOMAIN images
       /\ \A j \in DOMAIN images : j # x => images'[j] = images[j]
       /\ DOMAIN images'[x] = {"layout", "texels"}
       /\ DOMAIN images'[x].texels = DOMAIN images[x].texels
       /\ images'[x].layout = LayoutOf(x)'
  BY <1>4, <1>5, <1>7, <1>8
<1> QED
  BY <1>3, <1>8, <1>11, <1>12, <1>13, GpuKeeps

(* The texture of the glyph at hand is filled.                             *)
FillFirst(t) ==
  Transition(t, "UNDEFINED", "TRANSFER_DST",
             Scope(TOP_OF_PIPE, "NONE"), Scope(TRANSFER, "TRANSFER_WRITE"))
FillLast(t) ==
  Transition(t, "TRANSFER_DST", "TRANSFER_SRC",
             Scope(TRANSFER, "TRANSFER_WRITE"), Scope(GRAPHICS, "COLOR_READ"))

LEMMA FillingMeans ==
  ASSUME NEW t, NEW c
  PROVE  /\ IsSeq(Filling(t, c)) /\ Len(Filling(t, c)) = 3
         /\ Filling(t, c)[1] = FillFirst(t)
         /\ Filling(t, c)[2] = CopyBuffer(t, c)
         /\ Filling(t, c)[3] = FillLast(t)
<1>1. Filling(t, c) = <<FillFirst(t), CopyBuffer(t, c), FillLast(t)>>
  BY DEF Filling, FillFirst, FillLast
<1> DEFINE f == Filling(t, c)
<1>2. Len(f) = 3 /\ f = [n \in 1 .. 3 |-> f[n]]
  BY <1>1
<1>3. f[1] = FillFirst(t) /\ f[2] = CopyBuffer(t, c) /\ f[3] = FillLast(t)
  BY <1>1
<1> HIDE DEF f
<1>4. IsSeq(f)
  BY <1>2, SeqOfElements DEF IsSeq
<1> QED
  BY <1>2, <1>3, <1>4 DEF f

LEMMA FillingChained == ASSUME NEW t, NEW c PROVE Chained(Filling(t, c))
<1> DEFINE f == FillFirst(t)
           u == CopyBuffer(t, c)
           l == FillLast(t)
           w == Use(t, "transfer", "TRANSFER_WRITE")
<1>1. /\ f.op = "transition" /\ f.image = t
      /\ f.after.stages = TRANSFER /\ f.after.access = "TRANSFER_WRITE"
      /\ l.op = "transition" /\ l.image = t
      /\ l.before.stages = TRANSFER /\ l.before.access = "TRANSFER_WRITE"
      /\ u.op = "copyBuffer" /\ u.image = t
      /\ w.on = t /\ w.stage = "transfer" /\ w.access = "TRANSFER_WRITE"
  BY DEF FillFirst, FillLast, CopyBuffer, Transition, Scope, Use
<1>2. w \in Uses(u)
  <2> HIDE DEF u
  <2> QED
    BY <1>1 DEF Uses
<1> HIDE DEF f, u, l, w
<1>3. IsBarrier(f) /\ IsBarrier(l) /\ ~IsBarrier(u)
  BY <1>1 DEF IsBarrier
<1>4. Covers(f, f.after, u) /\ Covers(l, l.before, u)
  BY <1>1, <1>2 DEF Covers, TRANSFER
<1>5. Ordered(f, u) /\ Ordered(u, l)
  BY <1>3, <1>4 DEF Ordered
<1>6. ASSUME NEW n \in 2 .. 3 PROVE Ordered(Filling(t, c)[n - 1], Filling(t, c)[n])
  <2>1. (n = 2 /\ n - 1 = 1) \/ (n = 3 /\ n - 1 = 2)
    OBVIOUS
  <2> QED
    BY <1>5, <2>1, FillingMeans DEF f, u, l
<1> QED
  BY <1>6, FillingMeans DEF Chained

LEMMA FilledTexture ==
  ASSUME NEW imgs, NEW t \in DOMAIN imgs, NEW c, NEW k \in 1 .. 3,
         DOMAIN imgs[t].texels = BitmapOf(c),
         k = 3 => Holds(imgs[t], c),
         k # 1 => imgs[t].layout = "TRANSFER_DST"
  PROVE  LET m == After(Filling(t, c)[k], imgs) IN
         /\ DOMAIN m = DOMAIN imgs
         /\ \A j \in DOMAIN imgs : j # t => m[j] = imgs[j]
         /\ DOMAIN m[t] = {"layout", "texels"}
         /\ DOMAIN m[t].texels = DOMAIN imgs[t].texels
         /\ m[t].layout = IF k = 3 THEN "TRANSFER_SRC" ELSE "TRANSFER_DST"
         /\ k # 1 => Holds(m[t], c)
<1>1. CASE k = 1
  <2>1. Filling(t, c)[k] = FillFirst(t)
    BY <1>1, FillingMeans
  <2>2. k # 3
    BY <1>1
  <2> QED
    BY <1>1, <2>1, <2>2, AfterTransition DEF FillFirst
<1>2. CASE k = 2
  <2>1. Filling(t, c)[k] = CopyBuffer(t, c)
    BY <1>2, FillingMeans
  <2>2. k # 3 /\ imgs[t].layout = "TRANSFER_DST"
    BY <1>2
  <2> DEFINE m == After(CopyBuffer(t, c), imgs)
  <2>3. /\ DOMAIN m = DOMAIN imgs
        /\ \A j \in DOMAIN imgs : j # t => m[j] = imgs[j]
        /\ DOMAIN m[t] = {"layout", "texels"}
        /\ m[t].layout = "TRANSFER_DST"
        /\ DOMAIN m[t].texels = DOMAIN imgs[t].texels
        /\ \A s \in DOMAIN imgs[t].texels : m[t].texels[s] = c
    BY <2>2, AfterCopyBuffer
  <2> HIDE DEF m
  <2>4. Holds(m[t], c)
    BY <2>3 DEF Holds
  <2> QED
    BY <2>1, <2>2, <2>3, <2>4 DEF m
<1>3. CASE k = 3
  <2>1. Filling(t, c)[k] = FillLast(t)
    BY <1>3, FillingMeans
  <2>2. Holds(imgs[t], c)
    BY <1>3
  <2> DEFINE m == After(FillLast(t), imgs)
  <2>3. /\ DOMAIN m = DOMAIN imgs
        /\ \A j \in DOMAIN imgs : j # t => m[j] = imgs[j]
        /\ DOMAIN m[t] = {"layout", "texels"}
        /\ m[t].layout = "TRANSFER_SRC"
        /\ DOMAIN m[t].texels = DOMAIN imgs[t].texels
        /\ m[t].texels = imgs[t].texels
    BY AfterTransition DEF FillLast
  <2> HIDE DEF m
  <2>4. Holds(m[t], c)
    BY <2>2, <2>3 DEF Holds
  <2> QED
    BY <1>3, <2>1, <2>3, <2>4 DEF m
<1> QED
  BY <1>1, <1>2, <1>3

LEMMA GpuUploading ==
  ASSUME IInv, QueueInv, GpuInv, Gpu, pc = "uploading" PROVE QueueInv' /\ GpuInv'
<1>1. UNCHANGED <<atlases, infs, text, buffer, cmd, pc, symbol, at, back>>
  BY GpuMeans
<1>2. Core /\ ImagesInv /\ LayoutInv /\ AtlasesInv /\ UploadInv
  BY OpenMeans DEF Core
<1>3. PICK x : x = Texture
  OBVIOUS
<1>4. Texture' = Texture /\ Textures' = Textures
  BY <1>1 DEF Texture, Textures
<1>5. PICK k \in 1 .. 3 :
        /\ QueueInv' /\ DOMAIN gpu = k .. 3 /\ DOMAIN gpu' = k + 1 .. 3
        /\ images' = After(Filling(x, symbol)[k], images)
  <2>1. Batch = Filling(x, symbol)
    BY <1>3 DEF Batch
  <2>2. Len(Batch) = 3 /\ Chained(Batch)
    BY <2>1, FillingMeans, FillingChained
  <2>3. PICK n \in 1 .. Len(Batch) :
          /\ QueueInv' /\ DOMAIN gpu = n .. Len(Batch) /\ DOMAIN gpu' = n + 1 .. Len(Batch)
          /\ images' = After(Batch[n], images)
    BY <2>2, GpuNext
  <2> QED
    BY <2>1, <2>2, <2>3
<1>6. at \in DOMAIN atlases /\ x \in atlases[at].rs /\ x \in Textures /\ x \in DOMAIN images
      /\ x \notin DOMAIN atlases
  BY <1>2, <1>3, ImageNumbers DEF UploadInv, IInv, Placing
<1>7. LayoutOf(x) = IF k = 1 THEN "UNDEFINED" ELSE "TRANSFER_DST"
  <2>1. (1 \in DOMAIN gpu <=> k = 1) /\ 3 \in DOMAIN gpu
    BY <1>5
  <2> QED
    BY <1>3, <2>1 DEF LayoutOf
<1>8. LayoutOf(x)' = IF k = 3 THEN "TRANSFER_SRC" ELSE "TRANSFER_DST"
  <2>1. 1 \notin DOMAIN gpu' /\ (3 \in DOMAIN gpu' <=> k # 3)
    BY <1>5
  <2> QED
    BY <1>1, <1>3, <1>4, <1>6, <2>1 DEF LayoutOf
<1>9. \A i : i # x => LayoutOf(i)' = LayoutOf(i)
  BY <1>1, <1>3, <1>4 DEF LayoutOf
<1>10. /\ DOMAIN images[x].texels = BitmapOf(symbol)
       /\ k = 3 => Holds(images[x], symbol)
  <2>1. k = 3 => 2 \notin DOMAIN gpu
    BY <1>5
  <2> QED
    BY <1>2, <1>3, <2>1 DEF UploadInv
<1>11. images[x].layout = LayoutOf(x)
  BY <1>2, <1>6 DEF LayoutInv
<1>12. /\ DOMAIN images' = DOMAIN images
       /\ \A j \in DOMAIN images : j # x => images'[j] = images[j]
       /\ DOMAIN images'[x] = {"layout", "texels"}
       /\ DOMAIN images'[x].texels = DOMAIN images[x].texels
       /\ images'[x].layout = LayoutOf(x)'
       /\ k # 1 => Holds(images'[x], symbol)
  <2>1. k # 1 => images[x].layout = "TRANSFER_DST"
    BY <1>7, <1>11
  <2> DEFINE m == After(Filling(x, symbol)[k], images)
  <2>2. images' = m
    BY <1>5
  <2>3. /\ DOMAIN m = DOMAIN images
        /\ \A j \in DOMAIN images : j # x => m[j] = images[j]
        /\ DOMAIN m[x] = {"layout", "texels"}
        /\ DOMAIN m[x].texels = DOMAIN images[x].texels
        /\ m[x].layout = IF k = 3 THEN "TRANSFER_SRC" ELSE "TRANSFER_DST"
        /\ k # 1 => Holds(m[x], symbol)
    BY <1>6, <1>10, <2>1, FilledTexture
  <2> HIDE DEF m
  <2> QED
    BY <1>8, <2>2, <2>3
<1>13. ASSUME NEW i \in DOMAIN atlases
       PROVE  ContentOK(atlases[i], i, images', Settled(i), LeftOf(i))
  <2>1. x # i
    BY <1>6
  <2>2. ASSUME NEW m \in 2 .. Settled(i) PROVE Src(atlases[i], m) # x
    <3>1. CASE i = at
      <4>1. Settled(i) = Len(atlases[at].recorded) - 1
        BY <3>1 DEF Settled
      <4> QED
        BY <1>2, <1>3, <3>1, <4>1 DEF UploadInv
    <3>2. CASE i # at
      <4>1. atlases[i].rs \cap atlases[at].rs = {}
        BY <1>2, <1>6, <3>2 DEF ImagesInv
      <4> QED
        BY <1>2, <1>6, <4>1, SourceOwned
    <3> QED
      BY <3>1, <3>2
  <2> QED
    BY <1>2, <1>12, <2>1, <2>2, ContentElsewhere
<1>14. \A i : Settled(i)' = Settled(i) /\ LeftOf(i)' = LeftOf(i)
  BY <1>1 DEF Settled, LeftOf
<1>15. AtlasesInv'
  BY <1>1, <1>2, <1>13, <1>14 DEF AtlasesInv
<1>16. UploadInv'
  <2>1. /\ DOMAIN images'[Texture'].texels = BitmapOf(symbol')
        /\ 2 \notin DOMAIN gpu' => Holds(images'[Texture'], symbol')
    <3>1. 2 \notin DOMAIN gpu' => k # 1
      BY <1>5
    <3> QED
      BY <1>1, <1>3, <1>4, <1>10, <1>12, <3>1
  <2>2. \A n : Src(atlases'[at'], n) = Src(atlases[at], n)
    BY <1>1
  <2> QED
    BY <1>1, <1>2, <1>4, <2>1, <2>2 DEF UploadInv, Placing
<1>17. CommandsInv' /\ pc # "closed"
  BY <1>1 DEF CommandsInv
<1> QED
  BY <1>5, <1>6, <1>9, <1>12, <1>15, <1>16, <1>17, GpuKeeps

LEMMA GpuFence ==
  ASSUME QueueInv, GpuInv, Gpu, pc = "fence" PROVE QueueInv' /\ GpuInv'
<1>1. UNCHANGED <<atlases, infs, text, buffer, cmd, pc, symbol, at, back>>
  BY GpuMeans
<1>2. Core /\ BufferInv /\ StopInv /\ CommandsInv /\ Plain /\ Plain'
  BY <1>1, OpenMeans DEF Plain
<1>3. PICK order \in SetToSeqs(DOMAIN buffer) : cmd = Commands(order)
  BY <1>2 DEF CommandsInv
<1>4. Batch = Commands(order) /\ Batch = cmd
  BY <1>3 DEF Batch
<1>5. IsFiniteSet(DOMAIN buffer)
  BY <1>2 DEF BufferInv
<1>6. PICK n \in 1 .. Len(Batch) :
        /\ QueueInv' /\ Len(Batch) \in Nat
        /\ DOMAIN gpu = n .. Len(Batch) /\ DOMAIN gpu' = n + 1 .. Len(Batch)
        /\ images' = After(Batch[n], images)
        /\ draw' = IF Batch[n].op = "updateBuffer" THEN Batch[n].data ELSE draw
  BY <1>4, <1>5, CommandsChained, GpuNext
<1>7. Batch[n] = CommandAt(order, n) /\ n \in Nat
  <2>1. /\ Len(Commands(order)) = 4 * Len(order)
        /\ \A k \in 1 .. 4 * Len(order) : Commands(order)[k] = CommandAt(order, k)
    BY <1>5, CommandsSeq
  <2>2. n \in 1 .. 4 * Len(order)
    BY <1>4, <2>1
  <2> QED
    BY <1>4, <2>1, <2>2
<1>8. PICK i : i = order[(n + 3) \div 4]
  OBVIOUS
<1>9. images' = images
  <2>1. Batch[n].op \in {"transitionBuffer", "updateBuffer", "draw"}
    BY <1>7, <1>8, CommandAtMeans
    DEF BeforeUpdate, AfterUpdate, TransitionBuffer, UpdateBuffer, Draw
  <2> QED
    BY <1>6, <2>1 DEF After
<1>10. ASSUME NEW m \in DOMAIN gpu', m % 4 = 0, m - 2 \notin DOMAIN gpu'
       PROVE  draw' = cmd[m - 2].data
  <2>1. m \in Nat /\ m \in DOMAIN gpu /\ m > n
    BY <1>6, <1>7, <1>10
  <2>2. CASE m - 2 = n
    <3>1. n % 4 = 2
      BY <1>7, <1>10, <2>1, <2>2
    <3>2. Batch[n].op = "updateBuffer"
      <4>1. CommandAt(order, n) = UpdateBuffer(buffer[i])
        BY <1>7, <1>8, <3>1, CommandAtMeans
      <4> QED
        BY <1>7, <4>1 DEF UpdateBuffer
    <3> QED
      BY <1>4, <1>6, <2>2, <3>2
  <2>3. CASE m - 2 # n
    <3>1. m = n + 1 /\ n % 4 = 3 /\ m - 2 \notin DOMAIN gpu
      BY <1>6, <1>7, <1>10, <2>1, <2>3
    <3>2. Batch[n].op = "transitionBuffer"
      BY <1>7, <1>8, <3>1, CommandAtMeans DEF AfterUpdate, TransitionBuffer
    <3>3. draw' = draw
      BY <1>6, <3>2
    <3> QED
      BY <1>2, <1>10, <2>1, <3>1, <3>3 DEF CommandsInv
  <2> QED
    BY <2>2, <2>3
<1>11. Commands(order)' = Commands(order)
  BY <1>1 DEF Commands, BeforeUpdate, AfterUpdate
<1>12. \E o \in SetToSeqs(DOMAIN buffer') : cmd' = Commands(o)'
  BY <1>1, <1>3, <1>11
<1>13. CommandsInv'
  BY <1>1, <1>10, <1>12 DEF CommandsInv
<1>14. StopInv'
  BY <1>1, <1>2 DEF StopInv
<1>15. BufferInv'
  BY <1>1, <1>2, BufferKept DEF BufferAt, Searching, Placing
<1> QED
  BY <1>1, <1>2, <1>6, <1>9, <1>13, <1>14, <1>15, PlainStep

(* The commands of an atlas are a transition, copies and a transition.     *)
LEMMA StoppingMeans ==
  ASSUME Core, NEW i \in DOMAIN atlases, atlases[i].modifying,
         NEW b, b = Append(atlases[i].recorded, EndModifications(i))
  PROVE  /\ IsSeq(b) /\ Len(b) = Len(atlases[i].recorded) + 1
         /\ Len(atlases[i].recorded) \in Nat \ {0}
         /\ b[1] = BeginModifications(i)
         /\ \A n \in 1 .. Len(atlases[i].recorded) : b[n] = atlases[i].recorded[n]
         /\ b[Len(atlases[i].recorded) + 1] = EndModifications(i)
<1> DEFINE r == atlases[i].recorded
<1>1. /\ IsSeq(r) /\ Len(r) > 0
      /\ r[1] = BeginModifications(i)
  BY DEF Core, AtlasesInv, RecordingOK
<1>2. Len(r) \in Nat
  BY <1>1, SeqElements
<1> HIDE DEF r
<1>3. /\ IsSeq(b) /\ Len(b) = Len(r) + 1
      /\ b[Len(r) + 1] = EndModifications(i)
      /\ \A n \in 1 .. Len(r) : b[n] = r[n]
  BY <1>1, AppendIsSeq DEF r
<1>4. 1 \in 1 .. Len(r) /\ Len(r) \in Nat \ {0}
  BY <1>1, <1>2
<1> QED
  BY <1>1, <1>3, <1>4 DEF r

(* Only which of the copies are left matters.                              *)
LEMMA ContentLeft ==
  ASSUME NEW a, NEW i, NEW imgs, NEW n, NEW left, NEW left2, ContentOK(a, i, imgs, n, left),
         \A m \in 2 .. n : m \in left => m \in left2
  PROVE  ContentOK(a, i, imgs, n, left2)
BY DEF ContentOK

(* The transitions move no texel.                                          *)
LEMMA ContentMoved ==
  ASSUME NEW a, NEW i, NEW imgs, NEW imgs2, NEW n \in Nat, NEW left, NEW k, k \notin 2 .. n,
         ContentOK(a, i, imgs, n, left),
         imgs2[i].texels = imgs[i].texels, \A t \in a.rs : imgs2[t] = imgs[t]
  PROVE  ContentOK(a, i, imgs2, n, left \ {k})
<1>1. ContentOK(a, i, imgs2, n, left)
  BY ContentKept
<1>2. \A m \in 2 .. n : m \in left => m \in left \ {k}
  OBVIOUS
<1> QED
  BY <1>1, <1>2, ContentLeft

LEMMA StoppingImage ==
  ASSUME NEW a, NEW i, NEW imgs, NEW n \in Nat \ {0}, NEW k \in 1 .. n + 1, NEW c, NEW left,
         Shelved(a), ContentOK(a, i, imgs, n, left),
         i \in DOMAIN imgs, i \notin a.rs, a.rs \subseteq DOMAIN imgs,
         DOMAIN imgs[i] = {"layout", "texels"}, DOMAIN imgs[i].texels = Whole,
         \/ k = 1 /\ c = BeginModifications(i)
         \/ k \in 2 .. n /\ c = a.recorded[k]
         \/ k = n + 1 /\ c = EndModifications(i)
  PROVE  LET m == After(c, imgs) IN
         /\ DOMAIN m = DOMAIN imgs
         /\ \A j \in DOMAIN imgs : j # i => m[j] = imgs[j]
         /\ DOMAIN m[i] = {"layout", "texels"}
         /\ DOMAIN m[i].texels = DOMAIN imgs[i].texels
         /\ k = 1 => m[i].layout = "TRANSFER_DST"
         /\ k \in 2 .. n => m[i].layout = imgs[i].layout
         /\ k = n + 1 => m[i].layout = "SHADER_READONLY"
         /\ ContentOK(a, i, m, n, left \ {k})
<1> DEFINE m == After(c, imgs)
<1>1. ASSUME NEW from, NEW to, NEW before, NEW after, from # "UNDEFINED",
             c = Transition(i, from, to, before, after)
      PROVE  /\ DOMAIN m = DOMAIN imgs
             /\ \A j \in DOMAIN imgs : j # i => m[j] = imgs[j]
             /\ DOMAIN m[i] = {"layout", "texels"}
             /\ m[i].texels = imgs[i].texels
             /\ m[i].layout = to
             /\ \A t \in a.rs : m[t] = imgs[t]
  <2>1. m = After(Transition(i, from, to, before, after), imgs)
    BY <1>1
  <2> HIDE DEF m
  <2>2. /\ DOMAIN m = DOMAIN imgs
        /\ \A j \in DOMAIN imgs : j # i => m[j] = imgs[j]
        /\ DOMAIN m[i] = {"layout", "texels"}
        /\ m[i].texels = imgs[i].texels
        /\ m[i].layout = to
    BY <1>1, <2>1, AfterTransition
  <2>3. \A t \in a.rs : m[t] = imgs[t]
    BY <2>2
  <2> QED
    BY <2>2, <2>3
<1>2. CASE k = 1 /\ c = BeginModifications(i)
  <2> HIDE DEF m
  <2>1. /\ DOMAIN m = DOMAIN imgs
        /\ \A j \in DOMAIN imgs : j # i => m[j] = imgs[j]
        /\ DOMAIN m[i] = {"layout", "texels"}
        /\ m[i].texels = imgs[i].texels
        /\ m[i].layout = "TRANSFER_DST"
        /\ \A t \in a.rs : m[t] = imgs[t]
    BY <1>1, <1>2 DEF BeginModifications
  <2>2. k # n + 1 /\ k \notin 2 .. n /\ k = 1
    BY <1>2
  <2>3. ContentOK(a, i, m, n, left \ {k})
    BY <2>1, <2>2, ContentMoved
  <2> QED
    BY <2>1, <2>2, <2>3 DEF m
<1>3. CASE k \in 2 .. n /\ c = a.recorded[k]
  <2>1. k # 1 /\ k # n + 1
    BY <1>3
  <2>2. m = After(a.recorded[k], imgs)
    BY <1>3
  <2> HIDE DEF m
  <2>3. ContentOK(a, i, m, n, left \ {k})
    BY <1>3, <2>2, ContentCopied
  <2>4. a.recorded[k] = CopyImage(Src(a, k), i, Into(a, k))
    BY <1>3 DEF ContentOK, CopyOK
  <2>5. m = After(CopyImage(Src(a, k), i, Into(a, k)), imgs)
    BY <2>2, <2>4
  <2>6. /\ DOMAIN m = DOMAIN imgs
        /\ \A j \in DOMAIN imgs : j # i => m[j] = imgs[j]
        /\ DOMAIN m[i] = {"layout", "texels"}
        /\ DOMAIN m[i].texels = DOMAIN imgs[i].texels
        /\ m[i].layout = imgs[i].layout
    BY <2>5, AfterCopyImage
  <2> QED
    BY <1>3, <2>1, <2>3, <2>6 DEF m
<1>4. CASE k = n + 1 /\ c = EndModifications(i)
  <2> HIDE DEF m
  <2>1. /\ DOMAIN m = DOMAIN imgs
        /\ \A j \in DOMAIN imgs : j # i => m[j] = imgs[j]
        /\ DOMAIN m[i] = {"layout", "texels"}
        /\ m[i].texels = imgs[i].texels
        /\ m[i].layout = "SHADER_READONLY"
        /\ \A t \in a.rs : m[t] = imgs[t]
    BY <1>1, <1>4 DEF EndModifications
  <2>2. k # 1 /\ k \notin 2 .. n /\ k = n + 1
    BY <1>4
  <2>3. ContentOK(a, i, m, n, left \ {k})
    BY <2>1, <2>2, ContentMoved
  <2> QED
    BY <2>1, <2>2, <2>3 DEF m
<1> QED
  BY <1>2, <1>3, <1>4

(* The two transitions of an atlas, if nothing else, run in their order.   *)
LEMMA ModificationsOrdered ==
  ASSUME NEW i PROVE Ordered(BeginModifications(i), EndModifications(i))
<1> DEFINE b == BeginModifications(i)
           e == EndModifications(i)
<1>1. /\ b.op = "transition" /\ e.op = "transition"
      /\ b.after.stages = COLOR_ATTACHMENT_OUTPUT /\ e.before.stages = COLOR_ATTACHMENT_OUTPUT
  BY DEF BeginModifications, EndModifications, Transition, Scope
<1>2. "attachment output" \in COLOR_ATTACHMENT_OUTPUT
  BY DEF COLOR_ATTACHMENT_OUTPUT
<1> HIDE DEF b, e
<1>3. b.after.stages \cap e.before.stages # {} /\ IsBarrier(b) /\ IsBarrier(e)
  BY <1>1, <1>2 DEF IsBarrier
<1>4. Ordered(b, e)
  BY <1>3 DEF Ordered
<1> QED
  BY <1>4 DEF b, e

LEMMA GpuStopping ==
  ASSUME IInv, Submitting, QueueInv, GpuInv, Gpu, pc = "stopping" PROVE QueueInv' /\ GpuInv'
<1>1. UNCHANGED <<atlases, infs, text, buffer, cmd, pc, symbol, at, back>> /\ Batch' = Batch
  BY GpuMeans
<1>2. Core /\ ImagesInv /\ LayoutInv /\ AtlasesInv /\ StopInv
  BY OpenMeans DEF Core
<1>3. PICK x : x = at
  OBVIOUS
<1>4. x \in DOMAIN atlases /\ atlases[x].modifying /\ Shelved(atlases[x])
  BY <1>2, <1>3 DEF Submitting, StopInv, IInv
<1> DEFINE a == atlases[x]
           n == Len(a.recorded)
<1>5. Batch = Append(a.recorded, EndModifications(x))
  BY <1>3 DEF Batch
<1>6. /\ Len(Batch) = n + 1 /\ n \in Nat \ {0}
      /\ Batch[1] = BeginModifications(x)
      /\ \A m \in 1 .. n : Batch[m] = a.recorded[m]
      /\ Batch[n + 1] = EndModifications(x)
  BY <1>2, <1>4, <1>5, StoppingMeans
<1>7. Settled(x) = n /\ LeftOf(x) = DOMAIN gpu
  BY <1>3 DEF Settled, LeftOf
<1>8. ContentOK(a, x, images, n, DOMAIN gpu)
  BY <1>2, <1>4, <1>7 DEF AtlasesInv
<1>9. /\ x \in DOMAIN images /\ x \notin Textures /\ a.rs \subseteq Textures
      /\ a.rs \subseteq DOMAIN images
      /\ DOMAIN images[x] = {"layout", "texels"} /\ DOMAIN images[x].texels = Whole
  BY <1>2, <1>4, ImageNumbers DEF ImagesInv
<1>10. Textures' = Textures
  BY <1>1 DEF Textures
<1> HIDE DEF n
<1>11. PICK k \in DOMAIN gpu : Runs(k)
  BY GpuRuns
<1>12. /\ k \in 1 .. n + 1 /\ gpu[k] = Batch[k] /\ images' = After(Batch[k], images)
       /\ DOMAIN gpu' = DOMAIN gpu \ {k} /\ \A m \in DOMAIN gpu' : gpu'[m] = gpu[m]
  BY <1>6, <1>11 DEF Runs, QueueInv
(* The last transition does not run before the first.                      *)
<1>13. 1 \in DOMAIN gpu => n + 1 \in DOMAIN gpu /\ k # n + 1
  <2>1. ASSUME 1 \in DOMAIN gpu, k = n + 1 PROVE FALSE
    <3>1. 1 < k /\ gpu[1] = BeginModifications(x) /\ gpu[k] = EndModifications(x)
      BY <1>6, <1>12, <2>1 DEF QueueInv
    <3> QED
      BY <1>11, <2>1, <3>1, ModificationsOrdered DEF Runs, MayRun
  <2> QED
    BY <1>6, <2>1 DEF QueueInv
<1>14. QueueInv'
  <2>1. 1 \in DOMAIN gpu' => Len(Batch) \in DOMAIN gpu'
    BY <1>6, <1>12, <1>13
  <2>2. DOMAIN gpu' \subseteq 1 .. Len(Batch) /\ \A m \in DOMAIN gpu' : gpu'[m] = Batch[m]
    BY <1>12 DEF QueueInv
  <2> QED
    BY <1>1, <2>1, <2>2 DEF QueueInv
<1>15. LayoutOf(x) = IF 1 \notin DOMAIN gpu /\ n + 1 \in DOMAIN gpu
                       THEN "TRANSFER_DST" ELSE "SHADER_READONLY"
  BY <1>3, <1>6, <1>9 DEF LayoutOf
<1>16. LayoutOf(x)' = IF 1 \notin DOMAIN gpu' /\ n + 1 \in DOMAIN gpu'
                        THEN "TRANSFER_DST" ELSE "SHADER_READONLY"
  BY <1>1, <1>3, <1>6, <1>9, <1>10 DEF LayoutOf
<1>17. \A i : i # x => LayoutOf(i)' = LayoutOf(i)
  BY <1>1, <1>3, <1>10 DEF LayoutOf
<1>18. images[x].layout = LayoutOf(x)
  BY <1>2, <1>9 DEF LayoutInv
<1> HIDE DEF a
<1>19. /\ DOMAIN images' = DOMAIN images
       /\ \A j \in DOMAIN images : j # x => images'[j] = images[j]
       /\ DOMAIN images'[x] = {"layout", "texels"}
       /\ DOMAIN images'[x].texels = DOMAIN images[x].texels
       /\ images'[x].layout = LayoutOf(x)'
       /\ ContentOK(a, x, images', n, DOMAIN gpu')
  <2>1. PICK c : c = Batch[k]
    OBVIOUS
  <2>2. \/ k = 1 /\ c = BeginModifications(x)
        \/ k \in 2 .. n /\ c = a.recorded[k]
        \/ k = n + 1 /\ c = EndModifications(x)
    BY <1>6, <1>12, <2>1
  <2>3. Shelved(a) /\ x \notin a.rs
    BY <1>4, <1>9 DEF a
  <2> DEFINE m == After(c, images)
  <2>4. /\ DOMAIN m = DOMAIN images
        /\ \A j \in DOMAIN images : j # x => m[j] = images[j]
        /\ DOMAIN m[x] = {"layout", "texels"}
        /\ DOMAIN m[x].texels = DOMAIN images[x].texels
        /\ k = 1 => m[x].layout = "TRANSFER_DST"
        /\ k \in 2 .. n => m[x].layout = images[x].layout
        /\ k = n + 1 => m[x].layout = "SHADER_READONLY"
        /\ ContentOK(a, x, m, n, DOMAIN gpu \ {k})
    BY <1>6, <1>8, <1>9, <1>12, <2>2, <2>3, StoppingImage
  <2>5. images' = m
    BY <1>12, <2>1
  <2> HIDE DEF m
  <2>6. images'[x].layout = LayoutOf(x)'
    <3>1. CASE k = 1
      BY <1>6, <1>16, <1>11, <1>12, <1>13, <2>4, <2>5, <3>1
    <3>2. CASE k \in 2 .. n
      BY <1>6, <1>15, <1>16, <1>18, <1>12, <2>4, <2>5, <3>2
    <3>3. CASE k = n + 1
      BY <1>6, <1>16, <1>12, <2>4, <2>5, <3>3
    <3> QED
      BY <2>2, <3>1, <3>2, <3>3
  <2> QED
    BY <1>12, <2>4, <2>5, <2>6
<1>20. ASSUME NEW i \in DOMAIN atlases
       PROVE  ContentOK(atlases[i], i, images', Settled(i)', LeftOf(i)')
  <2>1. Settled(i)' = Settled(i)
    BY <1>1 DEF Settled
  <2>2. CASE i = x
    <3>1. LeftOf(i)' = DOMAIN gpu'
      BY <1>1, <1>3, <2>2 DEF LeftOf
    <3>2. Settled(i)' = n
      BY <1>7, <2>1, <2>2
    <3> QED
      BY <1>1, <1>19, <2>2, <3>1, <3>2 DEF a
  <2>3. CASE i # x
    <3>1. LeftOf(i)' = LeftOf(i)
      BY <1>1, <1>3, <2>3 DEF LeftOf
    <3>2. \A m \in 2 .. Settled(i) : Src(atlases[i], m) # x
      BY <1>2, <1>9, SourceOwned, ImageNumbers
    <3> QED
      BY <1>2, <1>19, <2>1, <2>3, <3>1, <3>2, ContentElsewhere
  <2> QED
    BY <2>2, <2>3
<1>21. AtlasesInv'
  BY <1>1, <1>2, <1>20 DEF AtlasesInv
<1>22. UploadInv' /\ CommandsInv' /\ pc # "closed"
  BY <1>1 DEF UploadInv, CommandsInv, Placing
<1> QED
  BY <1>9, <1>17, <1>19, <1>21, <1>14, <1>22, GpuKeeps

LEMMA GpuSafe ==
  ASSUME IInv, Submitting, QueueInv, GpuInv, Gpu PROVE QueueInv' /\ GpuInv'
BY GpuMeans, GpuCreated, GpuUploading, GpuStopping, GpuFence

-----------------------------------------------------------------------------
(* Submitting the atlases *)

LEMMA SubmitSafe ==
  ASSUME IInv, Submitting, QueueInv, GpuInv, stopModify, atlases[at].modifying
  PROVE  QueueInv' /\ GpuInv'
<1>1. /\ pc = "stop" /\ pc' = "stopping" /\ at <= Len(atlases) /\ at \in Nat \ {0}
      /\ Submit(Append(atlases[at].recorded, EndModifications(at)))
      /\ UNCHANGED <<atlases, infs, images, text, buffer, cmd, at, symbol>>
  BY DEF stopModify, frameVars, Submitting
<1>2. Core /\ ImagesInv /\ LayoutInv /\ AtlasesInv /\ StopInv /\ BufferInv /\ Plain
  BY <1>1, OpenMeans DEF Core, Plain
<1>3. PICK x : x = at
  OBVIOUS
<1>4. x \in DOMAIN atlases /\ atlases[x].modifying
  BY <1>1, <1>3, AtlasNumbers
<1> DEFINE b == Append(atlases[x].recorded, EndModifications(x))
<1>5. IsSeq(b) /\ Len(b) = Len(atlases[x].recorded) + 1 /\ Len(atlases[x].recorded) \in Nat
  BY <1>2, <1>4, StoppingMeans
<1>6. Await
  <2>1. Batch = <<>>
    BY <1>1, <1>2, PlainMeans
  <2> QED
    BY <2>1, QueueEmpty
<1>7. Batch' = b /\ Submit(b)
  BY <1>1, <1>3 DEF Batch
<1> HIDE DEF b
<1>8. QueueInv' /\ DOMAIN gpu' = 1 .. Len(atlases[x].recorded) + 1
  <2>1. PICK q : q = b
    OBVIOUS
  <2>2. IsSeq(q) /\ Submit(q) /\ Batch' = q /\ Len(q) = Len(atlases[x].recorded) + 1
    BY <1>5, <1>7, <2>1
  <2>3. QueueInv' /\ DOMAIN gpu' = 1 .. Len(q)
    BY <1>6, <2>2, QueueStarts
  <2> QED
    BY <2>2, <2>3
<1>9. Created = {} /\ Created' = {} /\ Textures' = Textures
  BY <1>1, <1>2, PlainMeans DEF Created, Textures
<1>10. \A i : Settled(i) = Len(atlases[i].recorded) /\ LeftOf(i) = Nat /\ LayoutOf(i) = PlainLayout(i)
  BY <1>2, PlainMeans
<1>11. ASSUME NEW i \in DOMAIN atlases
       PROVE  ContentOK(atlases[i], i, images, Settled(i)', LeftOf(i)')
  <2>1. Settled(i)' = Len(atlases[i].recorded)
    BY <1>1 DEF Settled
  <2>2. ContentOK(atlases[i], i, images, Len(atlases[i].recorded), Nat)
    BY <1>2, <1>10 DEF AtlasesInv
  <2>3. \A m \in 2 .. Len(atlases[i].recorded) : m \in LeftOf(i)'
    <3>1. CASE i = x
      <4>1. LeftOf(i)' = DOMAIN gpu'
        BY <1>1, <1>3, <3>1 DEF LeftOf
      <4> QED
        BY <1>5, <1>8, <3>1, <4>1
    <3>2. CASE i # x
      <4>1. LeftOf(i)' = Nat
        BY <1>1, <1>3, <3>2 DEF LeftOf
      <4> QED
        BY <4>1
    <3> QED
      BY <3>1, <3>2
  <2> QED
    BY <2>1, <2>2, <2>3, ContentLeft
<1>12. \A i : LayoutOf(i)' = PlainLayout(i)
  <2>1. 1 \in DOMAIN gpu'
    BY <1>5, <1>8
  <2> QED
    BY <1>1, <1>9, <2>1 DEF LayoutOf, PlainLayout
<1>13. ImagesInv'
  BY <1>1, <1>2, <1>9 DEF ImagesInv
<1>14. LayoutInv'
  BY <1>1, <1>2, <1>10, <1>12 DEF LayoutInv
<1>15. AtlasesInv'
  BY <1>1, <1>2, <1>11 DEF AtlasesInv
<1>16. StopInv'
  <2>1. atlases'[at'].modifying
    BY <1>1, <1>3, <1>4
  <2> QED
    BY <1>1, <1>2, <2>1 DEF StopInv
<1>17. UploadInv' /\ CommandsInv'
  BY <1>1 DEF UploadInv, CommandsInv, Placing
<1>18. BufferInv'
  BY <1>1, <1>2, BufferKept DEF BufferAt, Searching, Placing
<1> QED
  BY <1>8, <1>13, <1>14, <1>15, <1>16, <1>17, <1>18 DEF GpuInv

LEMMA StopModifySafe ==
  ASSUME IInv, Submitting, QueueInv, GpuInv, stopModify PROVE QueueInv' /\ GpuInv'
BY SubmitSafe, PassOverSafe

(* All copies of the atlas have run, and their textures are destroyed.     *)
LEMMA StoppedSafe ==
  ASSUME IInv, Submitting, QueueInv, GpuInv, stopped PROVE QueueInv' /\ GpuInv'
<1>1. /\ pc = "stopping" /\ pc' = "stop" /\ Await /\ at' = at + 1 /\ at \in Nat
      /\ images' = [i \in DOMAIN images \ atlases[at].rs |-> images[i]]
      /\ atlases' = [atlases EXCEPT ![at] = Emptied(atlases[at])]
      /\ UNCHANGED <<infs, gpu, text, buffer, cmd, symbol>>
  BY DEF stopped, frameVars, Submitting
<1>2. Core /\ ImagesInv /\ LayoutInv /\ AtlasesInv /\ StopInv /\ BufferInv
  BY <1>1, OpenMeans DEF Core
<1>3. PICK x : x = at
  OBVIOUS
<1>4. x \in DOMAIN atlases /\ atlases[x].modifying /\ Shelved(atlases[x])
  BY <1>1, <1>2, <1>3 DEF Submitting, StopInv, IInv
<1> DEFINE a == atlases[x]
           n == Len(a.recorded)
           e == Emptied(a)
<1>5. DOMAIN gpu = {} /\ n \in Nat
  <2>1. n \in Nat
    BY <1>2, <1>4, SeqElements DEF AtlasesInv, RecordingOK
  <2> QED
    BY <1>1, <2>1 DEF Await
<1>6. ContentOK(a, x, images, n, {})
  <2>1. Settled(x) = n /\ LeftOf(x) = {}
    BY <1>1, <1>3, <1>5 DEF Settled, LeftOf
  <2> QED
    BY <1>2, <1>4, <1>5, <2>1 DEF AtlasesInv
<1> HIDE DEF n
<1>7. /\ DOMAIN atlases' = DOMAIN atlases /\ atlases'[x] = e
      /\ \A i \in DOMAIN atlases : i # x => atlases'[i] = atlases[i]
  BY <1>1, <1>3, <1>4
<1>8. x \notin a.rs /\ a.rs \subseteq Textures /\ x \in DOMAIN images
      /\ DOMAIN atlases \cap Textures = {}
      /\ \A i \in DOMAIN atlases : i \in DOMAIN images /\ atlases[i].rs \subseteq Textures
  BY <1>2, <1>4, ImageNumbers
<1>9. /\ DOMAIN images' = DOMAIN images \ a.rs
      /\ \A i \in DOMAIN images' : images'[i] = images[i]
  BY <1>1, <1>3
<1>10. /\ RecordingOK(e, x) /\ ~e.modifying /\ e.rs = {} /\ e.glyphBounds = a.glyphBounds
       /\ ContentOK(e, x, images', Len(e.recorded), Nat)
  <2>1. PICK imgs : imgs = images'
    OBVIOUS
  <2>2. imgs[x] = images[x]
    BY <1>8, <1>9, <2>1
  <2>3. 2 .. n \cap {} = {}
    OBVIOUS
  <2>4. /\ RecordingOK(e, x) /\ ~e.modifying /\ e.rs = {}
        /\ ContentOK(e, x, imgs, Len(e.recorded), Nat)
    BY <1>4, <1>5, <1>6, <2>2, <2>3, ContentEmptied
  <2>5. e.glyphBounds = a.glyphBounds
    BY <1>4 DEF Emptied, Shelved, AtlasFields
  <2> HIDE DEF e
  <2> QED
    BY <2>1, <2>4, <2>5
<1> HIDE DEF a, e
<1>11. a = atlases[x]
  BY DEF a
<1>12. Created = {} /\ Created' = {} /\ Plain'
  BY <1>1 DEF Created, Plain
<1>13. Textures' = Textures \ a.rs
  <2>1. ASSUME NEW t, t \in Textures' PROVE t \in Textures \ a.rs
    <3>1. PICK i \in DOMAIN atlases : t \in atlases'[i].rs
      BY <1>7, <2>1 DEF Textures
    <3>2. i # x /\ atlases'[i] = atlases[i]
      BY <1>7, <1>10, <3>1
    <3>3. atlases[i].rs \cap a.rs = {}
      BY <1>2, <1>4, <1>11, <3>2 DEF ImagesInv
    <3> QED
      BY <1>8, <3>1, <3>2, <3>3
  <2>2. ASSUME NEW t, t \in Textures, t \notin a.rs PROVE t \in Textures'
    <3>1. PICK i \in DOMAIN atlases : t \in atlases[i].rs
      BY <2>2 DEF Textures
    <3>2. atlases'[i] = atlases[i] /\ i \in DOMAIN atlases'
      BY <1>7, <1>11, <2>2, <3>1
    <3> QED
      BY <3>1, <3>2 DEF Textures
  <2> QED
    BY <2>1, <2>2
<1>14. ImagesInv'
  <2>1. DOMAIN images' = DOMAIN atlases' \cup Textures' \cup Created'
    BY <1>2, <1>7, <1>8, <1>9, <1>12, <1>13 DEF ImagesInv
  <2>2. IsFiniteSet(DOMAIN images')
    BY <1>2, <1>9, FS_Subset DEF ImagesInv
  <2>3. \A i, j \in DOMAIN atlases' : i # j => atlases'[i].rs \cap atlases'[j].rs = {}
    BY <1>2, <1>7, <1>10 DEF ImagesInv
  <2>4. \A i \in DOMAIN images' : DOMAIN images'[i] = {"layout", "texels"}
    BY <1>2, <1>9 DEF ImagesInv
  <2>5. \A i \in DOMAIN atlases' \cup Created' : DOMAIN images'[i].texels = Whole
    BY <1>2, <1>7, <1>8, <1>9, <1>12 DEF ImagesInv
  <2>6. DOMAIN atlases' \cup Created' \subseteq 1 .. MaxAtlases
        /\ Textures' \subseteq {t \in Nat : t > MaxAtlases}
    BY <1>2, <1>7, <1>12, <1>13 DEF ImagesInv
  <2> QED
    BY <2>1, <2>2, <2>3, <2>4, <2>5, <2>6 DEF ImagesInv
<1>15. LayoutInv'
  <2>1. ASSUME NEW i \in DOMAIN images' PROVE images'[i].layout = LayoutOf(i)'
    <3>1. images'[i] = images[i] /\ i \in DOMAIN images /\ i \notin a.rs
      BY <1>9
    <3>2. images[i].layout = LayoutOf(i)
      BY <1>2, <3>1 DEF LayoutInv
    <3>4. LayoutOf(i) = PlainLayout(i)
      BY <1>1, <1>3, <1>5 DEF LayoutOf, PlainLayout
    <3>5. LayoutOf(i)' = PlainLayout(i)'
      BY <1>12, PlainNext
    <3>6. PlainLayout(i)' = PlainLayout(i)
      BY <1>13, <3>1 DEF PlainLayout
    <3> QED
      BY <3>1, <3>2, <3>4, <3>5, <3>6
  <2> QED
    BY <2>1 DEF LayoutInv
<1>16. ASSUME NEW i \in DOMAIN atlases
       PROVE  RecordingOK(atlases'[i], i) /\ ContentOK(atlases'[i], i, images', Settled(i)', LeftOf(i)')
  <2>1. Settled(i)' = Len(atlases'[i].recorded) /\ LeftOf(i)' = Nat
    BY <1>12, PlainNext
  <2>2. CASE i = x
    BY <1>7, <1>10, <2>1, <2>2
  <2>3. CASE i # x
    <3>1. RecordingOK(atlases[i], i) /\ ContentOK(atlases[i], i, images, Settled(i), LeftOf(i))
      BY <1>2 DEF AtlasesInv
    <3>2. Settled(i) = Len(atlases[i].recorded) /\ LeftOf(i) = Nat
      BY <1>1, <1>3, <2>3 DEF Settled, LeftOf
    <3>3. atlases[i].rs \cap a.rs = {}
      BY <1>2, <1>4, <1>11, <2>3 DEF ImagesInv
    <3>4. images'[i].texels = images[i].texels
      BY <1>8, <1>9
    <3>5. ASSUME NEW s \in atlases[i].rs PROVE images'[s] = images[s]
      <4>1. s \in DOMAIN images
        BY <1>2, <1>8 DEF ImagesInv
      <4> QED
        BY <1>9, <3>3, <4>1
    <3>6. ContentOK(atlases[i], i, images', Settled(i), LeftOf(i))
      BY <3>1, <3>4, <3>5, ContentKept
    <3> QED
      BY <1>7, <2>1, <2>3, <3>1, <3>2, <3>6
  <2> QED
    BY <2>2, <2>3
<1>17. AtlasesInv'
  BY <1>7, <1>16 DEF AtlasesInv
<1>18. StopInv'
  <2>1. \A i \in DOMAIN atlases' : i < at' => ~atlases'[i].modifying
    BY <1>1, <1>2, <1>3, <1>7, <1>10, AtlasNumbers DEF StopInv
  <2> QED
    BY <1>1, <2>1 DEF StopInv
<1>19. UploadInv' /\ CommandsInv'
  BY <1>1 DEF UploadInv, CommandsInv, Placing
<1>20. BufferInv'
  <2>1. \A i \in DOMAIN atlases :
          i \in DOMAIN atlases' /\ atlases'[i].glyphBounds = atlases[i].glyphBounds
    BY <1>7, <1>10, <1>11
  <2> QED
    BY <1>1, <1>2, <2>1, BufferKept DEF BufferAt, Searching, Placing
<1>21. QueueInv'
  <2>1. DOMAIN gpu' = {} /\ Batch' = <<>>
    BY <1>1 DEF Await, Batch
  <2> QED
    BY <2>1, QueueStaysEmpty
<1> QED
  BY <1>14, <1>15, <1>17, <1>18, <1>19, <1>20, <1>21 DEF GpuInv

-----------------------------------------------------------------------------
(* Preloading *)

(* The atlases tried are being modified, and nothing else changes.         *)
LEMMA TriedSafe ==
  ASSUME IInv, Core, Plain, NEW c \in Chars, NEW T, T = Tried(c)
  PROVE  /\ DOMAIN T = DOMAIN atlases
         /\ \A i \in DOMAIN atlases :
              /\ T[i].glyphBounds = atlases[i].glyphBounds /\ T[i].rs = atlases[i].rs
              /\ RecordingOK(T[i], i)
              /\ ContentOK(T[i], i, images, Len(T[i].recorded), Nat)
         /\ \A i \in FirstAccepting(c) : i \in DOMAIN atlases /\ T[i].modifying
<1>1. DOMAIN T = DOMAIN atlases
  BY DEF Tried
<1>2. ASSUME NEW i \in DOMAIN atlases
      PROVE  /\ T[i].glyphBounds = atlases[i].glyphBounds /\ T[i].rs = atlases[i].rs
             /\ RecordingOK(T[i], i)
             /\ ContentOK(T[i], i, images, Len(T[i].recorded), Nat)
             /\ i \in FirstAccepting(c) => T[i].modifying
  <2> DEFINE a == atlases[i]
             s == startModify(a, i)
             w == Wrapped(s, c)
  <2>1. Shelved(a) /\ RecordingOK(a, i) /\ ContentOK(a, i, images, Len(a.recorded), Nat)
    BY PlainMeans DEF IInv, Core, AtlasesInv
  <2>2. T[i] = w \/ T[i] = a
    BY DEF Tried
  <2>3. i \in FirstAccepting(c) => T[i] = w
    BY DEF Tried, FirstAccepting
  <2>4. Shelved(s) /\ s.glyphBounds = a.glyphBounds
    BY <2>1, StartModifyShelved
  <2>5. /\ RecordingOK(s, i) /\ s.modifying /\ s.rs = a.rs
        /\ ContentOK(s, i, images, Len(s.recorded), Nat)
    BY <2>1, ContentStarted
  <2> HIDE DEF s
  <2>6. /\ RecordingOK(w, i) /\ w.modifying = s.modifying /\ w.rs = s.rs
        /\ w.recorded = s.recorded
        /\ ContentOK(w, i, images, Len(s.recorded), Nat)
    BY <2>4, <2>5, ContentWrapped
  <2>7. w.glyphBounds = s.glyphBounds
    BY <2>4, WrappedShelved
  <2> HIDE DEF w, a
  <2>8. ContentOK(w, i, images, Len(w.recorded), Nat) /\ w.modifying
    BY <2>5, <2>6
  <2>9. a = atlases[i]
    BY DEF a
  <2>10. CASE T[i] = w
    BY <2>4, <2>5, <2>6, <2>7, <2>8, <2>9, <2>10
  <2>11. CASE T[i] = a
    <3>1. i \in FirstAccepting(c) => T[i].modifying
      BY <2>3, <2>8
    <3> QED
      BY <2>1, <2>9, <2>11, <3>1
  <2> QED
    BY <2>2, <2>10, <2>11
<1>3. FirstAccepting(c) \subseteq DOMAIN atlases
  BY DEF FirstAccepting
<1> QED
  BY <1>1, <1>2, <1>3

(* A new image for an atlas to come, which no atlas uses.                  *)
LEMMA SearchSafe ==
  ASSUME IInv, QueueInv, GpuInv, NEW c \in Chars, NEW from \in {"ready", "put"}, search(c, from),
         pc \in {"ready", "text"}, from = "ready" => pc = "ready",
         from = "put" => c \notin DOMAIN infs
  PROVE  QueueInv' /\ GpuInv'
<1>1. /\ symbol' = c /\ back' = from /\ atlases' = Tried(c)
      /\ UNCHANGED <<infs, draw, text, buffer, cmd>>
      /\ pc' \in {"accepted", "created"}
  BY DEF search, frameVars
<1>2. Core /\ ImagesInv /\ LayoutInv /\ AtlasesInv /\ BufferInv /\ Plain /\ pc # "fence"
  BY OpenMeans DEF Core, Plain
<1>3. PICK T : T = atlases'
  OBVIOUS
<1>4. /\ DOMAIN atlases' = DOMAIN atlases
      /\ \A i \in DOMAIN atlases :
           /\ atlases'[i].glyphBounds = atlases[i].glyphBounds /\ atlases'[i].rs = atlases[i].rs
           /\ RecordingOK(atlases'[i], i)
           /\ ContentOK(atlases'[i], i, images, Len(atlases'[i].recorded), Nat)
      /\ \A i \in FirstAccepting(c) : i \in DOMAIN atlases /\ atlases'[i].modifying
  <2>1. T = Tried(c)
    BY <1>1, <1>3
  <2>2. /\ DOMAIN T = DOMAIN atlases
        /\ \A i \in DOMAIN atlases :
              /\ T[i].glyphBounds = atlases[i].glyphBounds /\ T[i].rs = atlases[i].rs
              /\ RecordingOK(T[i], i)
              /\ ContentOK(T[i], i, images, Len(T[i].recorded), Nat)
        /\ \A i \in FirstAccepting(c) : i \in DOMAIN atlases /\ T[i].modifying
    BY <1>2, <2>1, TriedSafe
  <2> QED
    BY <1>3, <2>2
<1>5. Textures' = Textures /\ Created = {}
  <2>1. Textures' = Textures
    BY <1>4 DEF Textures
  <2> QED
    BY <1>2, <2>1, PlainMeans
<1>6. BufferInv'
  <2>1. BufferAt'
    BY <1>1, <1>2 DEF BufferAt, BufferInv, Searching, Placing
  <2> QED
    BY <1>1, <1>2, <1>4, <2>1, BufferKept
<1>7. StopInv' /\ CommandsInv'
  BY <1>1 DEF StopInv, CommandsInv
<1>8. \A i : Settled(i)' = Len(atlases'[i].recorded) /\ LeftOf(i)' = Nat
  BY <1>1 DEF Settled, LeftOf
<1>9. \A i \in DOMAIN images : images[i].layout = PlainLayout(i)
  BY <1>2, PlainMeans DEF LayoutInv
<1>10. \A i, j \in DOMAIN atlases' : i # j => atlases'[i].rs \cap atlases'[j].rs = {}
  BY <1>2, <1>4 DEF ImagesInv
<1>11. Await
  BY <1>2, PlainMeans, QueueEmpty
<1>12. CASE pc' = "accepted"
  <2>1. at' \in FirstAccepting(c) /\ UNCHANGED <<images, gpu>>
    BY <1>12 DEF search
  <2>2. Plain' /\ Created' = {} /\ Batch' = <<>>
    BY <1>12, PlainNext DEF Plain
  <2>3. ImagesInv'
    BY <1>2, <1>4, <1>5, <1>10, <2>1, <2>2 DEF ImagesInv
  <2>4. \A i : LayoutOf(i)' = PlainLayout(i)
    BY <1>5, <2>2, PlainNext DEF PlainLayout
  <2>5. LayoutInv'
    BY <1>9, <2>1, <2>4 DEF LayoutInv
  <2>6. AtlasesInv'
    BY <1>4, <1>8, <2>1 DEF AtlasesInv
  <2>7. UploadInv'
    BY <1>4, <1>12, <2>1 DEF UploadInv, Placing
  <2>8. QueueInv'
    BY <1>11, <2>1, <2>2, QueueStaysEmpty DEF Await
  <2> QED
    BY <1>6, <1>7, <2>3, <2>5, <2>6, <2>7, <2>8 DEF GpuInv
<1>13. CASE pc' = "created"
  <2>1. /\ at' = Len(atlases) + 1 /\ Len(atlases) < MaxAtlases
        /\ images' = Put(images, at', NewImage(Width, Height))
        /\ Submit(<<Prepare(at')>>)
    BY <1>13 DEF search
  <2>2. PICK x : x = at'
    OBVIOUS
  <2>3. /\ x \in 1 .. MaxAtlases /\ x \notin DOMAIN atlases /\ x \notin Textures
        /\ x \notin DOMAIN images
    <3>1. MaxAtlases \in Nat
      BY TextAssumption
    <3>2. x \in 1 .. MaxAtlases /\ x \notin DOMAIN atlases
      BY <2>1, <2>2, <3>1, AtlasNumbers
    <3>3. x \notin Textures
      BY <1>2, <3>1, <3>2 DEF ImagesInv
    <3> QED
      BY <1>2, <1>5, <3>2, <3>3 DEF ImagesInv
  <2> DEFINE new == NewImage(Width, Height)
  <2>4. DOMAIN new = {"layout", "texels"} /\ new.layout = "UNDEFINED" /\ DOMAIN new.texels = Whole
    BY DEF NewImage, Whole
  <2> HIDE DEF new
  <2>5. /\ DOMAIN images' = DOMAIN images \cup {x} /\ images'[x] = new
        /\ \A j \in DOMAIN images : images'[j] = images[j]
    BY <2>1, <2>2, <2>3 DEF Put, new
  <2>6. Created' = {x}
    BY <1>13, <2>2 DEF Created
  <2>7. QueueInv' /\ 1 \in DOMAIN gpu'
    <3>1. PICK b : b = <<Prepare(x)>>
      OBVIOUS
    <3>2. IsSeq(b)
      <4>1. b = [n \in 1 .. 1 |-> b[n]] /\ 1 \in Nat
        BY <3>1
      <4> QED
        BY <4>1, SeqOfElements DEF IsSeq
    <3>3. Batch' = b
      BY <1>13, <2>2, <3>1 DEF Batch
    <3>4. Submit(b)
      BY <2>1, <2>2, <3>1
    <3>5. Len(b) = 1
      BY <3>1
    <3>6. QueueInv' /\ DOMAIN gpu' = 1 .. Len(b)
      BY <1>11, <3>2, <3>3, <3>4, QueueStarts
    <3> QED
      BY <3>5, <3>6
  <2>8. ImagesInv'
    <3>1. IsFiniteSet(DOMAIN images')
      <4>1. IsFiniteSet(DOMAIN images)
        BY <1>2 DEF ImagesInv
      <4>2. IsFiniteSet(DOMAIN images \cup {x})
        BY <4>1, FS_AddElement
      <4> QED
        BY <2>5, <4>2
    <3>2. DOMAIN images' = DOMAIN atlases' \cup Textures' \cup Created'
      BY <1>2, <1>4, <1>5, <2>5, <2>6 DEF ImagesInv
    <3>3. DOMAIN atlases' \cup Created' \subseteq 1 .. MaxAtlases
          /\ Textures' \subseteq {t \in Nat : t > MaxAtlases}
      BY <1>2, <1>4, <1>5, <2>3, <2>6 DEF ImagesInv
    <3>4. \A i \in DOMAIN images' : DOMAIN images'[i] = {"layout", "texels"}
      BY <1>2, <2>4, <2>5 DEF ImagesInv
    <3>5. \A i \in DOMAIN atlases' \cup Created' : DOMAIN images'[i].texels = Whole
      BY <1>2, <1>4, <2>4, <2>5, <2>6, ImageNumbers DEF ImagesInv
    <3> QED
      BY <1>10, <3>1, <3>2, <3>3, <3>4, <3>5 DEF ImagesInv
  <2>9. LayoutInv'
    <3>1. LayoutOf(x)' = "UNDEFINED"
      BY <1>13, <2>2, <2>7 DEF LayoutOf
    <3>2. \A i : i # x => LayoutOf(i)' = PlainLayout(i)
      BY <1>5, <1>13, <2>2 DEF LayoutOf, PlainLayout
    <3>3. ASSUME NEW i \in DOMAIN images' PROVE images'[i].layout = LayoutOf(i)'
      <4>1. CASE i = x
        BY <2>4, <2>5, <3>1, <4>1
      <4>2. CASE i # x
        <5>1. i \in DOMAIN images /\ images'[i] = images[i]
          BY <2>5, <4>2
        <5> QED
          BY <1>9, <3>2, <4>2, <5>1
      <4> QED
        BY <4>1, <4>2
    <3> QED
      BY <3>3 DEF LayoutInv
  <2>10. AtlasesInv'
    <3>1. ASSUME NEW i \in DOMAIN atlases
          PROVE  ContentOK(atlases'[i], i, images', Len(atlases'[i].recorded), Nat)
      <4>1. i \in DOMAIN images /\ atlases'[i].rs \subseteq DOMAIN images
        BY <1>2, <1>4, ImageNumbers
      <4>2. images'[i].texels = images[i].texels /\ \A t \in atlases'[i].rs : images'[t] = images[t]
        BY <2>5, <4>1
      <4>3. ContentOK(atlases'[i], i, images, Len(atlases'[i].recorded), Nat)
        BY <1>4
      <4> QED
        BY <4>2, <4>3, ContentKept
    <3> QED
      BY <1>4, <1>8, <3>1 DEF AtlasesInv
  <2>11. UploadInv'
    BY <1>13 DEF UploadInv, Placing
  <2> QED
    BY <1>6, <1>7, <2>7, <2>8, <2>9, <2>10, <2>11 DEF GpuInv
<1> QED
  BY <1>1, <1>12, <1>13

LEMMA PreloadSafe ==
  ASSUME IInv, QueueInv, GpuInv, preload PROVE QueueInv' /\ GpuInv'
<1>1. PICK c \in Chars : search(c, "ready") /\ pc = "ready"
  BY DEF preload
<1> QED
  BY <1>1, SearchSafe

LEMMA NextCharSafe ==
  ASSUME IInv, QueueInv, GpuInv, nextChar PROVE QueueInv' /\ GpuInv'
<1>1. pc = "text"
  BY DEF nextChar
<1>2. PICK c \in Chars :
        \/ pc' = "put" /\ UNCHANGED <<atlases, infs, gpuVars, frameVars>>
        \/ c \notin DOMAIN infs /\ search(c, "put")
  BY DEF nextChar
<1>3. CASE pc' = "put" /\ UNCHANGED <<atlases, infs, gpuVars, frameVars>>
  BY <1>1, <1>3, KnownCharSafe
<1>4. CASE c \notin DOMAIN infs /\ search(c, "put")
  BY <1>1, <1>4, SearchSafe
<1> QED
  BY <1>2, <1>3, <1>4

(* The atlas that was created takes its place after the others.            *)
LEMMA NewAtlas ==
  ASSUME NEW i, NEW imgs, NEW c \in Chars
  PROVE  LET e == Wrapped(startModify(EmptyAtlas, i), c) IN
         /\ RecordingOK(e, i) /\ e.modifying /\ e.rs = {} /\ e.glyphBounds = <<>>
         /\ ContentOK(e, i, imgs, Len(e.recorded), Nat)
<1> DEFINE a == EmptyAtlas
           s == startModify(a, i)
           e == Wrapped(s, c)
<1>1. /\ Shelved(a) /\ a.glyphBounds = <<>> /\ a.rs = {} /\ a.recorded = <<>>
      /\ ~a.modifying
  BY EmptyShelved DEF EmptyAtlas
<1> HIDE DEF a
<1>2. IsSeq(<<>>) /\ Len(<<>>) = 0 /\ DOMAIN <<>> = {}
  BY DEF IsSeq
<1>3. RecordingOK(a, i)
  BY <1>1, <1>2 DEF RecordingOK
<1>4. ContentOK(a, i, imgs, Len(a.recorded), Nat)
  <2>1. Len(a.recorded) = 0 /\ DOMAIN a.glyphBounds = {}
    BY <1>1, <1>2
  <2> QED
    BY <2>1 DEF ContentOK
<1>5. Shelved(s) /\ s.glyphBounds = <<>>
  BY <1>1, StartModifyShelved
<1>6. /\ RecordingOK(s, i) /\ s.modifying /\ s.rs = {}
      /\ ContentOK(s, i, imgs, Len(s.recorded), Nat)
  BY <1>1, <1>3, <1>4, ContentStarted
<1> HIDE DEF s
<1>7. /\ RecordingOK(e, i) /\ e.modifying = s.modifying /\ e.rs = s.rs
      /\ e.recorded = s.recorded
      /\ ContentOK(e, i, imgs, Len(s.recorded), Nat)
  BY <1>5, <1>6, ContentWrapped
<1>8. e.glyphBounds = s.glyphBounds
  BY <1>5, WrappedShelved
<1> HIDE DEF e
<1>9. /\ RecordingOK(e, i) /\ e.modifying /\ e.rs = {} /\ e.glyphBounds = <<>>
      /\ ContentOK(e, i, imgs, Len(e.recorded), Nat)
  BY <1>5, <1>6, <1>7, <1>8
<1> QED
  BY <1>9 DEF e, s, a

LEMMA CreatedSafe ==
  ASSUME IInv, QueueInv, GpuInv, created PROVE QueueInv' /\ GpuInv'
<1>1. /\ pc = "created" /\ Await /\ at = Len(atlases) + 1 /\ symbol \in Chars
      /\ back \in {"ready", "put"}
      /\ atlases' = Append(atlases, Wrapped(startModify(EmptyAtlas, at), symbol))
      /\ UNCHANGED <<images, gpu, text, buffer, cmd>>
  BY DEF created, gpuVars, frameVars, IInv
<1>2. Core /\ ImagesInv /\ LayoutInv /\ AtlasesInv /\ BufferInv
  BY <1>1, OpenMeans DEF Core
<1>3. PICK x : x = at
  OBVIOUS
<1> DEFINE e == Wrapped(startModify(EmptyAtlas, x), symbol)
<1>4. /\ RecordingOK(e, x) /\ e.modifying /\ e.rs = {} /\ e.glyphBounds = <<>>
      /\ ContentOK(e, x, images, Len(e.recorded), Nat)
  BY <1>1, NewAtlas
<1> HIDE DEF e
<1>5. /\ DOMAIN atlases' = DOMAIN atlases \cup {x} /\ atlases'[x] = e
      /\ \A i \in DOMAIN atlases : atlases'[i] = atlases[i]
      /\ x \notin DOMAIN atlases
  <2>1. atlases' = Append(atlases, e)
    BY <1>1, <1>3 DEF e
  <2>2. /\ DOMAIN Append(atlases, e) = 1 .. Len(atlases) + 1
        /\ Append(atlases, e)[Len(atlases) + 1] = e
        /\ \A i \in 1 .. Len(atlases) : Append(atlases, e)[i] = atlases[i]
    BY AppendToElements DEF IInv
  <2> QED
    BY <1>1, <1>3, <2>1, <2>2, AtlasNumbers
<1>6. pc' \in {"accepted", "ready", "put"}
  BY <1>1 DEF created, Return
<1>7. Plain' /\ Created' = {} /\ Batch' = <<>> /\ pc' # "fence"
      /\ \A i : Settled(i)' = Len(atlases'[i].recorded) /\ LeftOf(i)' = Nat
                /\ LayoutOf(i)' = PlainLayout(i)'
  BY <1>6, PlainNext DEF Plain
<1>8. Textures' = Textures
  <2>1. ASSUME NEW t, t \in Textures PROVE t \in Textures'
    <3>1. PICK i \in DOMAIN atlases : t \in atlases[i].rs
      BY <2>1 DEF Textures
    <3>2. i \in DOMAIN atlases' /\ t \in atlases'[i].rs
      BY <1>5, <3>1
    <3> QED
      BY <3>2 DEF Textures
  <2>2. ASSUME NEW t, t \in Textures' PROVE t \in Textures
    <3>1. PICK i \in DOMAIN atlases' : t \in atlases'[i].rs
      BY <2>2 DEF Textures
    <3>2. i \in DOMAIN atlases /\ t \in atlases[i].rs
      BY <1>4, <1>5, <3>1
    <3> QED
      BY <3>2 DEF Textures
  <2> QED
    BY <2>1, <2>2
<1>9. Created = {x}
  BY <1>1, <1>3 DEF Created
<1>10. QueueInv'
  BY <1>1, <1>7, QueueStaysEmpty DEF Await
<1>11. ImagesInv'
  <2>1. DOMAIN images' = DOMAIN atlases' \cup Textures' \cup Created'
    BY <1>1, <1>2, <1>5, <1>7, <1>8, <1>9 DEF ImagesInv
  <2>2. /\ DOMAIN atlases' \cup Created' \subseteq 1 .. MaxAtlases
        /\ Textures' \subseteq {t \in Nat : t > MaxAtlases}
    BY <1>2, <1>5, <1>7, <1>8, <1>9 DEF ImagesInv
  <2>3. \A i, j \in DOMAIN atlases' : i # j => atlases'[i].rs \cap atlases'[j].rs = {}
    BY <1>2, <1>4, <1>5 DEF ImagesInv
  <2>4. \A i \in DOMAIN atlases' \cup Created' : DOMAIN images'[i].texels = Whole
    BY <1>1, <1>2, <1>5, <1>7, <1>9 DEF ImagesInv
  <2> QED
    BY <1>1, <1>2, <2>1, <2>2, <2>3, <2>4 DEF ImagesInv
<1>12. LayoutInv'
  <2>1. DOMAIN gpu = {}
    BY <1>1 DEF Await
  <2>2. \A i : LayoutOf(i) = PlainLayout(i)
    BY <1>1, <2>1 DEF LayoutOf, PlainLayout
  <2>3. \A i : LayoutOf(i)' = PlainLayout(i)
    BY <1>7, <1>8 DEF PlainLayout
  <2> QED
    BY <1>1, <1>2, <2>2, <2>3 DEF LayoutInv
<1>13. AtlasesInv'
  <2>1. ASSUME NEW i \in DOMAIN atlases'
        PROVE  /\ RecordingOK(atlases'[i], i)
               /\ ContentOK(atlases'[i], i, images', Settled(i)', LeftOf(i)')
    <3>1. CASE i = x
      <4>1. RecordingOK(atlases'[i], i) /\ ContentOK(atlases'[i], i, images, Len(atlases'[i].recorded), Nat)
        BY <1>4, <1>5, <3>1
      <4> QED
        BY <1>1, <1>7, <4>1
    <3>2. CASE i # x
      <4>1. i \in DOMAIN atlases /\ atlases'[i] = atlases[i]
        BY <1>5, <3>2
      <4>2. Settled(i) = Len(atlases[i].recorded) /\ LeftOf(i) = Nat
        BY <1>1 DEF Settled, LeftOf
      <4>3. RecordingOK(atlases[i], i) /\ ContentOK(atlases[i], i, images, Settled(i), LeftOf(i))
        BY <1>2, <4>1 DEF AtlasesInv
      <4> QED
        BY <1>1, <1>7, <4>1, <4>2, <4>3
    <3> QED
      BY <3>1, <3>2
  <2> QED
    BY <2>1 DEF AtlasesInv
<1>14. StopInv' /\ CommandsInv'
  BY <1>6 DEF StopInv, CommandsInv
<1>15. UploadInv'
  <2>1. pc' = "accepted" => at' = at
    BY <1>1 DEF created, Return
  <2>2. Placing' => pc' = "accepted"
    BY <1>6 DEF Placing
  <2> QED
    BY <1>3, <1>4, <1>5, <1>6, <2>1, <2>2 DEF UploadInv
<1>16. BufferInv'
  <2>1. Searching /\ (back = "ready" => buffer = <<>> /\ text = <<>>)
        /\ (back = "put" => symbol \notin DOMAIN infs)
    BY <1>1, <1>2 DEF BufferInv, Searching
  <2>2. CASE Accepts(EmptyAtlas, symbol)
    <3>1. pc' = "accepted" /\ UNCHANGED <<infs, symbol, back>>
      BY <2>2 DEF created
    <3>2. BufferAt'
      BY <1>1, <2>1, <3>1 DEF BufferAt
    <3>3. \A i \in DOMAIN atlases :
            i \in DOMAIN atlases' /\ atlases'[i].glyphBounds = atlases[i].glyphBounds
      BY <1>5
    <3> QED
      BY <1>1, <1>2, <3>1, <3>2, <3>3, BufferKept
  <2>3. CASE ~Accepts(EmptyAtlas, symbol)
    <3>1. infs' = Put(infs, symbol, x) /\ pc' = back
      BY <1>3, <2>3 DEF created, Return
    <3>2. BufferAt'
      BY <1>1, <2>1, <3>1 DEF BufferAt, Searching, Placing
    <3>3. symbol \notin DOMAIN infs \/ (buffer = <<>> /\ text = <<>>)
      BY <1>1, <2>1
    <3>4. /\ x \in DOMAIN atlases'
          /\ \A j \in DOMAIN atlases : j \in DOMAIN atlases' /\ atlases'[j] = atlases[j]
      BY <1>5
    <3>5. PICK c \in Chars : c = symbol
      BY <1>1
    <3> QED
      BY <1>1, <1>2, <3>1, <3>2, <3>3, <3>4, <3>5, BufferMapped
  <2> QED
    BY <2>2, <2>3
<1> QED
  BY <1>10, <1>11, <1>12, <1>13, <1>14, <1>15, <1>16 DEF GpuInv

(* Fewer images than numbers: one is free.                                 *)
LEMMA FreshNumber ==
  ASSUME IsFiniteSet(DOMAIN images)
  PROVE  FreshTexture \in Nat /\ FreshTexture > MaxAtlases /\ FreshTexture \notin DOMAIN images
<1> DEFINE n == Cardinality(DOMAIN images)
           I == MaxAtlases + 1 .. MaxAtlases + 1 + n
<1>1. n \in Nat /\ MaxAtlases \in Nat
  BY FS_CardinalityType, TextAssumption
<1>2. \E t \in I : t \notin DOMAIN images
  <2> SUFFICES ASSUME I \subseteq DOMAIN images PROVE FALSE
    OBVIOUS
  <2>1. Cardinality(I) <= n
    BY FS_Subset
  <2> HIDE DEF n
  <2>2. MaxAtlases + 1 \in Int /\ MaxAtlases + 1 + n \in Int
    BY <1>1
  <2>3. Cardinality(I) = IF MaxAtlases + 1 > MaxAtlases + 1 + n THEN 0
                         ELSE (MaxAtlases + 1 + n) - (MaxAtlases + 1) + 1
    BY <2>2, FS_Interval
  <2>4. Cardinality(I) = n + 1
    BY <1>1, <2>3
  <2> QED
    BY <1>1, <2>1, <2>4
<1>3. FreshTexture \in I /\ FreshTexture \notin DOMAIN images
  BY <1>2 DEF FreshTexture
<1> HIDE DEF n
<1> QED
  BY <1>1, <1>3

LEMMA UploadSafe ==
  ASSUME IInv, QueueInv, GpuInv, upload PROVE QueueInv' /\ GpuInv'
<1>1. /\ pc = "accepted" /\ pc' = "uploading" /\ at \in DOMAIN atlases /\ symbol \in Chars
      /\ UNCHANGED <<infs, text, buffer, cmd, symbol, at, back>>
      /\ Shelved(atlases[at])
  BY DEF upload, frameVars, IInv, Placing
<1>2. Core /\ ImagesInv /\ LayoutInv /\ AtlasesInv /\ UploadInv /\ BufferInv /\ Plain
  BY <1>1, OpenMeans DEF Core, Plain
<1>3. PICK x, t, c : x = at /\ t = FreshTexture /\ c = symbol
  OBVIOUS
<1> DEFINE a == atlases[x]
           b == Blitted(a, x, t, c)
           n == Len(a.recorded)
           new == NewImage(Glyph[c].width, Glyph[c].height)
<1>4. /\ images' = Put(images, t, new) /\ Submit(Filling(t, c))
      /\ atlases' = [atlases EXCEPT ![x] = b]
  BY <1>3 DEF upload, Filling
<1>5. t \in Nat /\ t > MaxAtlases /\ t \notin DOMAIN images
  BY <1>2, <1>3, FreshNumber DEF ImagesInv
<1>6. /\ \A i \in DOMAIN atlases : i \in DOMAIN images /\ atlases[i].rs \subseteq DOMAIN images
      /\ t \notin Textures /\ t \notin DOMAIN atlases
  BY <1>2, <1>5, ImageNumbers
<1>7. /\ a.modifying /\ RecordingOK(a, x) /\ IsSeq(a.recorded) /\ n \in Nat \ {0}
      /\ ContentOK(a, x, images, n, Nat)
  <2>1. a.modifying
    BY <1>1, <1>2, <1>3 DEF UploadInv, Placing
  <2>2. RecordingOK(a, x) /\ ContentOK(a, x, images, n, Nat)
    BY <1>1, <1>2, <1>3, PlainMeans DEF AtlasesInv
  <2>3. IsSeq(a.recorded) /\ n > 0
    BY <2>1, <2>2 DEF RecordingOK
  <2>4. n \in Nat
    BY <2>3, SeqElements
  <2> QED
    BY <2>1, <2>2, <2>3, <2>4
<1>8. /\ b.rs = a.rs \cup {t} /\ b.modifying /\ b.glyphBounds = a.glyphBounds
      /\ b.recorded = Append(a.recorded, CopyImage(t, x, PlaceOf(a, c)))
      /\ b.lastX = a.lastX /\ b.lastY = a.lastY /\ b.rwHeight = a.rwHeight
  <2>1. DOMAIN a = AtlasFields
    BY <1>1, <1>3 DEF Shelved
  <2> HIDE DEF a
  <2> QED
    BY <1>7, <2>1 DEF Blitted, AtlasFields
<1>9. /\ DOMAIN atlases' = DOMAIN atlases /\ atlases'[x] = b /\ x \in DOMAIN atlases
      /\ \A i \in DOMAIN atlases : i # x => atlases'[i] = atlases[i]
      /\ a = atlases[x]
  BY <1>1, <1>3, <1>4
<1> HIDE DEF a, b, n
<1>10. n = Len(a.recorded)
  BY DEF n
<1>11. /\ IsSeq(b.recorded) /\ Len(b.recorded) = n + 1
       /\ b.recorded[n + 1] = CopyImage(t, x, PlaceOf(a, c))
       /\ \A m \in 1 .. n : b.recorded[m] = a.recorded[m]
  BY <1>7, <1>8, <1>10, AppendIsSeq
<1>12. DOMAIN new = {"layout", "texels"} /\ new.layout = "UNDEFINED" /\ DOMAIN new.texels = BitmapOf(c)
  BY DEF NewImage, BitmapOf
<1> HIDE DEF new
<1>13. /\ DOMAIN images' = DOMAIN images \cup {t} /\ images'[t] = new
       /\ \A j \in DOMAIN images : images'[j] = images[j]
  BY <1>4, <1>5 DEF Put
<1>14. Texture' = t
  <2>1. Texture' = b.recorded[Len(b.recorded)].src
    BY <1>1, <1>3, <1>9 DEF Texture
  <2>2. Texture' = CopyImage(t, x, PlaceOf(a, c)).src
    BY <1>11, <2>1
  <2> QED
    BY <2>2 DEF CopyImage
<1>15. Created = {} /\ Created' = {}
  BY <1>1 DEF Created
<1>16. Textures' = Textures \cup {t}
  <2>1. ASSUME NEW s, s \in Textures' PROVE s \in Textures \cup {t}
    <3>1. PICK i \in DOMAIN atlases : s \in atlases'[i].rs
      BY <1>9, <2>1 DEF Textures
    <3>2. s \in atlases[i].rs \/ s = t
      BY <1>8, <1>9, <3>1
    <3> QED
      BY <3>2 DEF Textures
  <2>2. ASSUME NEW s, s \in Textures PROVE s \in Textures'
    <3>1. PICK i \in DOMAIN atlases : s \in atlases[i].rs
      BY <2>2 DEF Textures
    <3>2. i \in DOMAIN atlases' /\ s \in atlases'[i].rs
      BY <1>8, <1>9, <3>1
    <3> QED
      BY <3>2 DEF Textures
  <2>3. t \in Textures'
    <3>1. x \in DOMAIN atlases' /\ t \in atlases'[x].rs
      BY <1>8, <1>9
    <3> QED
      BY <3>1 DEF Textures
  <2> QED
    BY <2>1, <2>2, <2>3
<1>17. QueueInv' /\ DOMAIN gpu' = 1 .. 3
  <2>1. PICK q : q = Filling(t, c)
    OBVIOUS
  <2>2. Await
    BY <1>1, <1>2, PlainMeans, QueueEmpty
  <2>3. Batch' = q
    BY <1>1, <1>3, <1>14, <2>1 DEF Batch
  <2>4. IsSeq(q) /\ Len(q) = 3 /\ Submit(q)
    BY <1>4, <2>1, FillingMeans
  <2>5. QueueInv' /\ DOMAIN gpu' = 1 .. Len(q)
    BY <2>2, <2>3, <2>4, QueueStarts
  <2> QED
    BY <2>4, <2>5
<1>18. ImagesInv'
  <2>1. DOMAIN images' = DOMAIN atlases' \cup Textures' \cup Created'
    BY <1>2, <1>9, <1>13, <1>15, <1>16 DEF ImagesInv
  <2>2. IsFiniteSet(DOMAIN images')
    <3>1. IsFiniteSet(DOMAIN images)
      BY <1>2 DEF ImagesInv
    <3>2. IsFiniteSet(DOMAIN images \cup {t})
      BY <3>1, FS_AddElement
    <3> QED
      BY <1>13, <3>2
  <2>3. /\ DOMAIN atlases' \cup Created' \subseteq 1 .. MaxAtlases
        /\ Textures' \subseteq {s \in Nat : s > MaxAtlases}
    BY <1>2, <1>5, <1>9, <1>15, <1>16 DEF ImagesInv
  <2>4. ASSUME NEW i \in DOMAIN atlases', NEW j \in DOMAIN atlases', i # j
        PROVE  atlases'[i].rs \cap atlases'[j].rs = {}
    <3>1. atlases[i].rs \cap atlases[j].rs = {}
      BY <1>2, <1>9, <2>4 DEF ImagesInv
    <3>2. t \notin atlases[i].rs /\ t \notin atlases[j].rs
      BY <1>5, <1>6, <1>9
    <3>3. CASE i = x
      BY <1>8, <1>9, <2>4, <3>1, <3>2, <3>3
    <3>4. CASE j = x
      BY <1>8, <1>9, <2>4, <3>1, <3>2, <3>4
    <3>5. CASE i # x /\ j # x
      BY <1>9, <2>4, <3>1, <3>5
    <3> QED
      BY <3>3, <3>4, <3>5
  <2>5. \A i \in DOMAIN images' : DOMAIN images'[i] = {"layout", "texels"}
    BY <1>2, <1>12, <1>13 DEF ImagesInv
  <2>6. \A i \in DOMAIN atlases' \cup Created' : DOMAIN images'[i].texels = Whole
    BY <1>2, <1>6, <1>9, <1>13, <1>15 DEF ImagesInv
  <2> QED
    BY <2>1, <2>2, <2>3, <2>4, <2>5, <2>6 DEF ImagesInv
<1>19. LayoutInv'
  <2>1. LayoutOf(t)' = "UNDEFINED"
    BY <1>1, <1>14, <1>17 DEF LayoutOf
  <2>2. \A i : i # t => LayoutOf(i)' = PlainLayout(i)
    BY <1>1, <1>14, <1>16 DEF LayoutOf, PlainLayout
  <2>3. ASSUME NEW i \in DOMAIN images' PROVE images'[i].layout = LayoutOf(i)'
    <3>1. CASE i = t
      BY <1>12, <1>13, <2>1, <3>1
    <3>2. CASE i # t
      <4>1. i \in DOMAIN images /\ images'[i] = images[i]
        BY <1>13, <3>2
      <4>2. images[i].layout = PlainLayout(i)
        BY <1>2, <4>1, PlainMeans DEF LayoutInv
      <4> QED
        BY <2>2, <3>2, <4>1, <4>2
    <3> QED
      BY <3>1, <3>2
  <2> QED
    BY <2>3 DEF LayoutInv
<1>20. ASSUME NEW i \in DOMAIN atlases'
       PROVE  /\ RecordingOK(atlases'[i], i)
              /\ ContentOK(atlases'[i], i, images', Settled(i)', LeftOf(i)')
  <2>1. LeftOf(i)' = Nat
    BY <1>1 DEF LeftOf
  <2>2. /\ i \in DOMAIN atlases
        /\ images'[i].texels = images[i].texels
        /\ \A s \in atlases[i].rs : images'[s] = images[s]
    <3>1. i \in DOMAIN images /\ atlases[i].rs \subseteq DOMAIN images /\ i \in DOMAIN atlases
      BY <1>6, <1>9
    <3> QED
      BY <1>13, <3>1
  <2>3. CASE i = x
    <3>1. Settled(i)' = n
      <4>1. Settled(i)' = Len(b.recorded) - 1
        BY <1>1, <1>3, <1>9, <2>3 DEF Settled
      <4> QED
        BY <1>7, <1>11, <4>1
    <3>2. RecordingOK(b, x)
      <4>1. a.recorded[1] = BeginModifications(x)
        BY <1>7 DEF RecordingOK
      <4>2. b.recorded[1] = a.recorded[1]
        BY <1>7, <1>11
      <4> QED
        BY <1>7, <1>8, <1>11, <4>1, <4>2 DEF RecordingOK
    <3>3. \A r \in Rect : Above(r, a) \/ InRow(r, a) => Above(r, b) \/ InRow(r, b)
      BY <1>8 DEF Above, InRow
    <3>4. \A m \in 2 .. n : b.recorded[m] = a.recorded[m]
      BY <1>7, <1>11
    <3>5. ContentOK(b, x, images', n, Nat)
      BY <1>7, <1>8, <1>9, <2>2, <2>3, <3>3, <3>4, ContentKept
    <3> QED
      BY <1>9, <2>1, <2>3, <3>1, <3>2, <3>5
  <2>4. CASE i # x
    <3>1. Settled(i)' = Len(atlases[i].recorded)
      BY <1>1, <1>3, <1>9, <2>2, <2>4 DEF Settled
    <3>2. RecordingOK(atlases[i], i) /\ ContentOK(atlases[i], i, images, Len(atlases[i].recorded), Nat)
      BY <1>2, <2>2, PlainMeans DEF AtlasesInv
    <3>3. ContentOK(atlases[i], i, images', Len(atlases[i].recorded), Nat)
      BY <2>2, <3>2, ContentKept
    <3> QED
      BY <1>9, <2>1, <2>2, <2>4, <3>1, <3>2, <3>3
  <2> QED
    BY <2>3, <2>4
<1>21. AtlasesInv'
  BY <1>20 DEF AtlasesInv
<1>22. UploadInv'
  <2>1. PlaceOf(b, c) = PlaceOf(a, c)
    BY <1>8 DEF PlaceOf
  <2>2. ASSUME NEW m \in 2 .. n PROVE Src(b, m) # t
    <3>1. Src(a, m) \in a.rs
      BY <1>7, <2>2 DEF ContentOK, CopyOK
    <3>2. Src(b, m) = Src(a, m)
      BY <1>7, <1>11, <2>2 DEF Src
    <3> QED
      BY <1>5, <1>6, <1>9, <3>1, <3>2
  <2>3. atlases'[at'] = b /\ symbol' = c /\ at' = x
    BY <1>1, <1>3, <1>9
  <2>4. Len(b.recorded) > 1 /\ Len(b.recorded) - 1 = n
    BY <1>7, <1>11
  <2>5. DOMAIN images'[t].texels = BitmapOf(c) /\ 2 \in DOMAIN gpu'
    BY <1>12, <1>13, <1>17
  <2>6. b.recorded[Len(b.recorded)] = CopyImage(t, x, PlaceOf(b, c)) /\ t \in b.rs
    BY <1>8, <1>11, <2>1
  <2> QED
    BY <1>8, <1>14, <2>2, <2>3, <2>4, <2>5, <2>6 DEF UploadInv
<1>23. StopInv' /\ CommandsInv'
  BY <1>1 DEF StopInv, CommandsInv
<1>24. BufferInv'
  <2>1. BufferAt'
    BY <1>1, <1>2 DEF BufferAt, BufferInv, Searching, Placing
  <2>2. \A i \in DOMAIN atlases :
          i \in DOMAIN atlases' /\ atlases'[i].glyphBounds = atlases[i].glyphBounds
    BY <1>8, <1>9
  <2> QED
    BY <1>1, <1>2, <2>1, <2>2, BufferKept
<1> QED
  BY <1>17, <1>18, <1>19, <1>21, <1>22, <1>23, <1>24 DEF GpuInv

LEMMA PlaceSafe ==
  ASSUME IInv, QueueInv, GpuInv, place PROVE QueueInv' /\ GpuInv'
<1>1. /\ Placing /\ pc \in {"accepted", "uploading"} /\ at \in DOMAIN atlases /\ symbol \in Chars
      /\ HasRoom(atlases[at], symbol) /\ Shelved(atlases[at])
      /\ atlases' = [atlases EXCEPT ![at] = Placed(atlases[at], symbol)]
      /\ infs' = Put(infs, symbol, at)
      /\ back \in {"ready", "put"} /\ pc' = back
      /\ UNCHANGED <<images, gpu, text, buffer, cmd>>
  BY DEF place, gpuVars, frameVars, IInv, Placing, Return
<1>2. Core /\ ImagesInv /\ LayoutInv /\ AtlasesInv /\ UploadInv /\ BufferInv
  BY <1>1, OpenMeans DEF Core
<1>3. PICK x, c : x = at /\ c = symbol
  OBVIOUS
<1> DEFINE a == atlases[x]
           p == Placed(a, c)
           n == Len(a.recorded)
<1>4. /\ x \in DOMAIN atlases /\ DOMAIN atlases' = DOMAIN atlases /\ atlases'[x] = p
      /\ \A i \in DOMAIN atlases : i # x => atlases'[i] = atlases[i]
      /\ Shelved(a) /\ HasRoom(a, c) /\ c \in Chars
  BY <1>1, <1>3
<1>5. /\ p.rs = a.rs /\ p.recorded = a.recorded /\ p.modifying = a.modifying
      /\ p.glyphBounds = Put(a.glyphBounds, c, PlaceOf(a, c))
  BY <1>4 DEF Placed, Shelved, AtlasFields
<1>6. RecordingOK(a, x) /\ a.modifying /\ n \in Nat \ {0}
  <2>1. RecordingOK(a, x) /\ a.modifying
    BY <1>1, <1>2, <1>3 DEF AtlasesInv, UploadInv
  <2>2. IsSeq(a.recorded) /\ n > 0
    BY <2>1 DEF RecordingOK
  <2> QED
    BY <2>1, <2>2, SeqElements
<1> HIDE DEF a, p, n
<1>7. n = Len(a.recorded) /\ a = atlases[x]
  BY DEF n, a
<1>8. DOMAIN gpu = {}
  <2>1. CASE pc = "accepted"
    <3>1. Batch = <<>>
      BY <2>1 DEF Batch
    <3> QED
      BY <3>1, QueueEmpty DEF Await
  <2>2. CASE pc = "uploading"
    BY <2>2 DEF place, Await
  <2> QED
    BY <1>1, <2>1, <2>2
<1>9. ContentOK(p, x, images, n, Nat)
  <2>1. LeftOf(x) = Nat
    BY <1>1 DEF LeftOf
  <2>2. ContentOK(a, x, images, Settled(x), Nat)
    BY <1>2, <1>4, <1>7, <2>1 DEF AtlasesInv
  <2>3. CASE pc = "accepted"
    <3>1. Settled(x) = n /\ ~HasBitmap(c)
      BY <1>3, <1>7, <2>3 DEF Settled, place
    <3> QED
      BY <1>4, <1>6, <2>2, <3>1, ContentPlaced DEF p
  <2>4. CASE pc = "uploading"
    <3>1. Settled(x) = n - 1
      BY <1>3, <1>7, <2>4 DEF Settled
    <3>2. n > 1 /\ n - 1 \in Nat /\ n = (n - 1) + 1
      BY <1>2, <1>3, <1>6, <1>7, <2>4 DEF UploadInv
    <3>3. Src(a, n) = Texture
      BY <1>3, <1>7 DEF Src, Texture
    <3>4. /\ a.recorded[n] = CopyImage(Src(a, n), x, PlaceOf(a, c))
          /\ Src(a, n) \in a.rs
          /\ Holds(images[Src(a, n)], c)
      <4>1. 2 \notin DOMAIN gpu
        BY <1>8
      <4> QED
        BY <1>2, <1>3, <1>7, <2>4, <3>3, <4>1 DEF UploadInv
    <3>5. ContentOK(a, x, images, n - 1, Nat)
      BY <2>2, <3>1
    <3> QED
      BY <1>4, <1>6, <3>2, <3>4, <3>5, ContentPlaced DEF p
  <2> QED
    BY <1>1, <2>3, <2>4
<1>10. Plain' /\ Created = {} /\ Created' = {} /\ Batch' = <<>> /\ pc' # "fence"
       /\ \A i : Settled(i)' = Len(atlases'[i].recorded) /\ LeftOf(i)' = Nat
                 /\ LayoutOf(i)' = PlainLayout(i)'
  <2>1. Plain' /\ Created = {} /\ pc' # "fence"
    BY <1>1 DEF Plain, Created
  <2> QED
    BY <2>1, PlainNext
<1>11. \A i \in DOMAIN atlases : atlases'[i].rs = atlases[i].rs
  BY <1>4, <1>5, <1>7
<1>12. Textures' = Textures
  BY <1>4, <1>11 DEF Textures
<1>13. QueueInv'
  BY <1>1, <1>8, <1>10, QueueStaysEmpty
<1>14. ImagesInv'
  <2>1. \A i, j \in DOMAIN atlases' : i # j => atlases'[i].rs \cap atlases'[j].rs = {}
    BY <1>2, <1>4, <1>11 DEF ImagesInv
  <2> QED
    BY <1>1, <1>2, <1>4, <1>10, <1>12, <2>1 DEF ImagesInv
<1>15. LayoutInv'
  <2>1. ASSUME NEW i PROVE LayoutOf(i) = PlainLayout(i)
    BY <1>1, <1>8 DEF LayoutOf, PlainLayout
  <2>2. \A i : LayoutOf(i)' = PlainLayout(i)
    BY <1>10, <1>12 DEF PlainLayout
  <2> QED
    BY <1>1, <1>2, <2>1, <2>2 DEF LayoutInv
<1>16. ASSUME NEW i \in DOMAIN atlases'
       PROVE  /\ RecordingOK(atlases'[i], i)
              /\ ContentOK(atlases'[i], i, images', Settled(i)', LeftOf(i)')
  <2>1. CASE i = x
    <3>1. RecordingOK(p, x)
      BY <1>5, <1>6 DEF RecordingOK
    <3>2. Settled(i)' = n
      BY <1>4, <1>5, <1>7, <1>10, <2>1
    <3> QED
      BY <1>1, <1>4, <1>9, <1>10, <2>1, <3>1, <3>2
  <2>2. CASE i # x
    <3>1. i \in DOMAIN atlases /\ atlases'[i] = atlases[i]
      BY <1>4, <2>2
    <3>2. Settled(i) = Len(atlases[i].recorded) /\ LeftOf(i) = Nat
      BY <1>1, <1>3, <2>2 DEF Settled, LeftOf
    <3>3. RecordingOK(atlases[i], i) /\ ContentOK(atlases[i], i, images, Settled(i), LeftOf(i))
      BY <1>2, <3>1 DEF AtlasesInv
    <3> QED
      BY <1>1, <1>10, <3>1, <3>2, <3>3
  <2> QED
    BY <2>1, <2>2
<1>17. AtlasesInv'
  BY <1>16 DEF AtlasesInv
<1>18. UploadInv' /\ StopInv' /\ CommandsInv'
  BY <1>1 DEF UploadInv, StopInv, CommandsInv, Placing
<1>19. BufferInv'
  <2>1. Searching /\ (back = "ready" => buffer = <<>> /\ text = <<>>)
        /\ (back = "put" => symbol \notin DOMAIN infs)
    BY <1>1, <1>2 DEF BufferInv, Searching
  <2>2. BufferAt'
    BY <1>1, <2>1 DEF BufferAt, Searching, Placing
  <2>3. c \notin DOMAIN infs \/ (buffer = <<>> /\ text = <<>>)
    BY <1>1, <1>3, <2>1
  <2>4. \A j \in DOMAIN atlases :
          /\ j \in DOMAIN atlases'
          /\ \A d \in DOMAIN atlases[j].glyphBounds :
               d # c => /\ d \in DOMAIN atlases'[j].glyphBounds
                        /\ atlases'[j].glyphBounds[d] = atlases[j].glyphBounds[d]
    <3>1. \A d \in DOMAIN a.glyphBounds :
            d # c => /\ d \in DOMAIN p.glyphBounds /\ p.glyphBounds[d] = a.glyphBounds[d]
      BY <1>5 DEF Put
    <3> QED
      BY <1>4, <1>7, <3>1
  <2>5. x \in DOMAIN atlases' /\ infs' = Put(infs, c, x)
    BY <1>1, <1>3, <1>4
  <2> QED
    BY <1>1, <1>2, <1>4, <2>2, <2>3, <2>4, <2>5, BufferMapped
<1> QED
  BY <1>13, <1>14, <1>15, <1>17, <1>18, <1>19 DEF GpuInv

-----------------------------------------------------------------------------
(* The theorems on the GPU *)

LEMMA InitSafe == ASSUME Init PROVE QueueInv /\ GpuInv
<1>1. /\ atlases = <<>> /\ infs = <<>> /\ images = <<>> /\ gpu = <<>> /\ text = <<>>
      /\ buffer = <<>> /\ pc = "ready"
  BY DEF Init
<1>2. DOMAIN <<>> = {} /\ Len(<<>>) = 0 /\ IsSeq(<<>>) /\ IsFiniteSet({})
  BY FS_EmptySet DEF IsSeq
<1>3. Batch = <<>> /\ Created = {} /\ Textures = {}
  BY <1>1, <1>2 DEF Batch, Created, Textures
<1>4. QueueInv
  <2>1. DOMAIN gpu = {} /\ IsSeq(Batch)
    BY <1>1, <1>2, <1>3
  <2> QED
    BY <2>1 DEF QueueInv
<1>5. ImagesInv
  BY <1>1, <1>2, <1>3 DEF ImagesInv
<1>6. LayoutInv /\ AtlasesInv
  BY <1>1, <1>2 DEF LayoutInv, AtlasesInv
<1>7. UploadInv /\ StopInv /\ CommandsInv
  BY <1>1 DEF UploadInv, StopInv, CommandsInv, Placing
<1>8. BufferInv
  <2>1. \A c \in Chars : AsMany(buffer, text, c)
    BY <1>1, NoInstances
  <2> QED
    BY <1>1, <1>2, <2>1 DEF BufferInv, Searching, Placing
<1> QED
  BY <1>4, <1>5, <1>6, <1>7, <1>8 DEF GpuInv

LEMMA StutterSafe ==
  ASSUME QueueInv, GpuInv, UNCHANGED vars PROVE QueueInv' /\ GpuInv'
<1>1. UNCHANGED <<atlases, infs, images, draw, gpu, text, buffer, cmd, pc, symbol, at, back>>
  BY DEF vars, gpuVars, frameVars
<1>2. Batch' = Batch /\ Texture' = Texture
  BY <1>1 DEF Batch, Texture
<1>3. DOMAIN gpu' = DOMAIN gpu
  BY <1>1
<1>4. QueueInv'
  BY <1>1, <1>2 DEF QueueInv
<1>5. Textures' = Textures /\ Created' = Created
  BY <1>1 DEF Textures, Created
<1>6. \A i : Settled(i)' = Settled(i) /\ LeftOf(i)' = LeftOf(i) /\ LayoutOf(i)' = LayoutOf(i)
  BY <1>1, <1>2, <1>3, <1>5 DEF Settled, LeftOf, LayoutOf
<1>7. ASSUME pc # "closed" PROVE GpuInv'
  <2>1. Core /\ UploadInv /\ StopInv /\ BufferInv /\ CommandsInv
    BY <1>7, OpenMeans
  <2>2. ImagesInv'
    BY <1>1, <1>5, <2>1 DEF Core, ImagesInv
  <2>3. LayoutInv'
    BY <1>1, <1>6, <2>1 DEF Core, LayoutInv
  <2>4. AtlasesInv'
    BY <1>1, <1>6, <2>1 DEF Core, AtlasesInv
  <2>5. UploadInv'
    <3>1. \A n : Src(atlases'[at'], n) = Src(atlases[at], n)
      BY <1>1
    <3> QED
      BY <1>1, <1>2, <1>3, <2>1, <3>1 DEF UploadInv, Placing
  <2>6. StopInv'
    BY <1>1, <2>1 DEF StopInv
  <2>7. BufferInv'
    BY <1>1, <2>1, BufferKept DEF BufferAt, BufferInv, Searching, Placing
  <2>8. CommandsInv'
    <3>1. ASSUME NEW order PROVE Commands(order)' = Commands(order)
      BY <1>1 DEF Commands, BeforeUpdate, AfterUpdate
    <3>2. pc' \in {"recorded", "fence"} => \E order \in SetToSeqs(DOMAIN buffer') : cmd' = Commands(order)'
      BY <1>1, <2>1, <3>1 DEF CommandsInv
    <3> QED
      BY <1>1, <1>3, <2>1, <3>2 DEF CommandsInv
  <2> QED
    BY <2>2, <2>3, <2>4, <2>5, <2>6, <2>7, <2>8 DEF GpuInv, Core
<1>8. pc = "closed" => GpuInv'
  BY <1>1 DEF GpuInv
<1> QED
  BY <1>4, <1>7, <1>8

(* What is submitted and recorded fits the images, whatever is preloaded   *)
(* and drawn.                                                              *)
THEOREM GpuInvariance == Spec => [](IInv /\ Submitting /\ QueueInv /\ GpuInv)
<1>1. Init => IInv /\ Submitting /\ QueueInv /\ GpuInv
  BY InitIInv, InitSafe DEF Init, Submitting
<1>2. ASSUME IInv, Submitting, QueueInv, GpuInv, [Next]_vars
      PROVE  (IInv /\ Submitting /\ QueueInv /\ GpuInv)'
  <2>1. IInv' /\ Submitting'
    BY <1>2, StepKeeps, SubmittingKept
  <2>2. CASE UNCHANGED vars
    BY <1>2, <2>1, <2>2, StutterSafe
  <2>3. CASE Gpu
    BY <1>2, <2>1, <2>3, GpuSafe
  <2>4. CASE preload \/ nextChar
    BY <1>2, <2>1, <2>4, PreloadSafe, NextCharSafe
  <2>5. CASE created \/ upload \/ place
    BY <1>2, <2>1, <2>5, CreatedSafe, UploadSafe, PlaceSafe
  <2>6. CASE startDraw \/ put \/ endText
    BY <1>2, <2>1, <2>6, StartDrawSafe, PutSafe, EndTextSafe
  <2>7. CASE stopModify \/ stopped \/ record
    BY <1>2, <2>1, <2>7, StopModifySafe, StoppedSafe, RecordSafe
  <2>8. CASE submitFrame \/ awaitFrame \/ destroy
    BY <1>2, <2>1, <2>8, SubmitFrameSafe, AwaitFrameSafe, DestroySafe
  <2> QED
    BY <1>2, <2>2, <2>3, <2>4, <2>5, <2>6, <2>7, <2>8 DEF Next, Program
<1> QED
  BY <1>1, <1>2, PTL DEF Spec

LEMMA RunMeans ==
  ASSUME QueueInv, NEW n \in DOMAIN gpu
  PROVE  /\ gpu[n] = Batch[n] /\ Len(Batch) \in Nat /\ n \in 1 .. Len(Batch)
         /\ pc \in {"created", "uploading", "stopping", "fence"}
<1>1. gpu[n] = Batch[n] /\ Len(Batch) \in Nat /\ n \in 1 .. Len(Batch)
  BY SeqElements DEF QueueInv
<1>2. ASSUME pc \notin {"created", "uploading", "stopping", "fence"} PROVE FALSE
  <2>1. Batch = <<>>
    BY <1>2 DEF Batch
  <2> QED
    BY <2>1, QueueEmpty DEF Await
<1> QED
  BY <1>1, <1>2

(* What is legal of each command.                                          *)
LEMMA LegalTransition ==
  ASSUME NEW imgs, NEW d, NEW i \in DOMAIN imgs, NEW from, NEW to, NEW before, NEW after,
         from \in {"UNDEFINED", imgs[i].layout}
  PROVE  Legal(Transition(i, from, to, before, after), imgs, d)
BY DEF Legal, Transition

LEMMA LegalCopyBuffer ==
  ASSUME NEW imgs, NEW d, NEW i \in DOMAIN imgs, NEW c, imgs[i].layout = "TRANSFER_DST"
  PROVE  Legal(CopyBuffer(i, c), imgs, d)
BY DEF Legal, CopyBuffer

LEMMA LegalCopyImage ==
  ASSUME NEW imgs, NEW d, NEW i \in DOMAIN imgs, NEW s \in DOMAIN imgs, NEW r,
         imgs[s].layout = "TRANSFER_SRC", Texels(r) \subseteq DOMAIN imgs[i].texels
  PROVE  Legal(CopyImage(s, i, r), imgs, d)
BY DEF Legal, CopyImage

LEMMA LegalUpdate ==
  ASSUME NEW imgs, NEW d, NEW cmnd, cmnd.op \in {"updateBuffer", "transitionBuffer"}
  PROVE  Legal(cmnd, imgs, d)
BY DEF Legal

LEMMA LegalDraw ==
  ASSUME NEW imgs, NEW d, NEW i \in DOMAIN imgs, imgs[i].layout = "SHADER_READONLY",
         Len(d) \in Nat,
         \A n \in 1 .. Len(d) : \A t \in Texels(d[n].uv) :
           t \in DOMAIN imgs[i].texels /\ imgs[i].texels[t] = d[n].symbol
  PROVE  Legal(Draw(i, Len(d)), imgs, d)
BY DEF Legal, Draw

LEMMA LegalCreated ==
  ASSUME IInv, QueueInv, GpuInv, NEW n \in DOMAIN gpu, pc = "created"
  PROVE  Legal(gpu[n], images, draw)
<1>1. ImagesInv /\ Created = {at}
  BY OpenMeans DEF Core, Created
<1>2. Batch = <<Prepare(at)>>
  BY DEF Batch
<1>3. gpu[n] = Prepare(at)
  BY <1>2, RunMeans
<1>4. at \in DOMAIN images
  BY <1>1 DEF ImagesInv
<1> QED
  BY <1>3, <1>4, LegalTransition DEF Prepare

LEMMA LegalUploading ==
  ASSUME IInv, QueueInv, GpuInv, NEW n \in DOMAIN gpu, MayRun(n), pc = "uploading"
  PROVE  Legal(gpu[n], images, draw)
<1>1. ImagesInv /\ LayoutInv /\ UploadInv
  BY OpenMeans DEF Core
<1>2. Batch = Filling(Texture, symbol) /\ Len(Batch) = 3
  BY FillingMeans DEF Batch
<1>3. DOMAIN gpu = n .. 3 /\ n \in {1, 2, 3} /\ gpu[n] = Filling(Texture, symbol)[n]
  <2>1. Chained(Batch)
    BY <1>2, FillingChained
  <2>2. DOMAIN gpu = n .. Len(Batch)
    BY <2>1, FirstRuns
  <2> QED
    BY <1>2, <2>2, RunMeans
<1>4. Texture \in DOMAIN images
  BY <1>1, ImageNumbers DEF UploadInv, IInv, Placing
<1>5. images[Texture].layout = LayoutOf(Texture)
  BY <1>1, <1>4 DEF LayoutInv
<1>6. n # 1 => images[Texture].layout = "TRANSFER_DST"
  <2>1. ASSUME n # 1 PROVE 1 \notin DOMAIN gpu /\ 3 \in DOMAIN gpu
    BY <1>3, <2>1
  <2> QED
    BY <1>5, <2>1 DEF LayoutOf
<1>7. CASE n = 1
  <2>1. gpu[n] = FillFirst(Texture)
    BY <1>3, <1>7, FillingMeans
  <2> QED
    BY <1>4, <2>1, LegalTransition DEF FillFirst
<1>8. CASE n = 2
  <2>1. gpu[n] = CopyBuffer(Texture, symbol)
    BY <1>3, <1>8, FillingMeans
  <2> QED
    BY <1>4, <1>6, <1>8, <2>1, LegalCopyBuffer
<1>9. CASE n = 3
  <2>1. gpu[n] = FillLast(Texture)
    BY <1>3, <1>9, FillingMeans
  <2> QED
    BY <1>4, <1>6, <1>9, <2>1, LegalTransition DEF FillLast
<1> QED
  BY <1>3, <1>7, <1>8, <1>9

LEMMA LegalStopping ==
  ASSUME IInv, Submitting, QueueInv, GpuInv, NEW k \in DOMAIN gpu, MayRun(k), pc = "stopping"
  PROVE  Legal(gpu[k], images, draw)
<1>1. Core /\ ImagesInv /\ LayoutInv /\ AtlasesInv /\ StopInv
  BY OpenMeans DEF Core
<1>2. at \in DOMAIN atlases /\ atlases[at].modifying
  BY <1>1 DEF Submitting, StopInv
<1> DEFINE a == atlases[at]
           n == Len(a.recorded)
<1>3. Batch = Append(a.recorded, EndModifications(at))
  BY DEF Batch
<1>4. /\ Len(Batch) = n + 1 /\ n \in Nat \ {0}
      /\ Batch[1] = BeginModifications(at)
      /\ \A m \in 1 .. n : Batch[m] = a.recorded[m]
      /\ Batch[n + 1] = EndModifications(at)
  BY <1>1, <1>2, <1>3, StoppingMeans
<1>5. gpu[k] = Batch[k] /\ k \in 1 .. n + 1
  BY <1>4, RunMeans
<1>6. at \in DOMAIN images /\ at \notin Textures /\ DOMAIN images[at].texels = Whole
  BY <1>1, <1>2, ImageNumbers DEF ImagesInv
<1>7. images[at].layout = IF 1 \notin DOMAIN gpu /\ n + 1 \in DOMAIN gpu
                            THEN "TRANSFER_DST" ELSE "SHADER_READONLY"
  BY <1>1, <1>4, <1>6 DEF LayoutInv, LayoutOf
<1>8. Settled(at) = n
  BY DEF Settled
<1> HIDE DEF n
<1>9. CASE k = 1
  <2>1. gpu[k] = BeginModifications(at)
    BY <1>4, <1>5, <1>9
  <2>2. images[at].layout = "SHADER_READONLY"
    BY <1>7, <1>9
  <2> QED
    BY <1>6, <2>1, <2>2, LegalTransition DEF BeginModifications
<1>10. CASE k \in 2 .. n
  <2>1. PICK c \in Chars : CopyOK(a, at, k, c, images)
    BY <1>1, <1>2, <1>8, <1>10 DEF AtlasesInv, ContentOK
  <2> DEFINE r == Into(a, k)
             s == Src(a, k)
  <2>2. a.recorded[k] = CopyImage(s, at, r) /\ s \in a.rs /\ CopyFits(a, r, c)
    BY <2>1 DEF CopyOK
  <2> HIDE DEF r, s
  <2>3. gpu[k] = CopyImage(s, at, r)
    BY <1>4, <1>5, <1>10, <2>2
  <2>4. Texels(r) \subseteq Whole
    BY <2>2, InsideWhole DEF CopyFits
  <2>5. s \in Textures /\ s \in DOMAIN images
    BY <1>1, <1>2, <2>2, ImageNumbers
  <2>6. images[s].layout = "TRANSFER_SRC"
    BY <1>1, <1>6, <2>5 DEF LayoutInv, LayoutOf
  <2> QED
    BY <1>6, <2>3, <2>4, <2>5, <2>6, LegalCopyImage
<1>11. CASE k = n + 1
  <2>1. gpu[k] = EndModifications(at)
    BY <1>4, <1>5, <1>11
  <2>2. 1 \notin DOMAIN gpu
    <3>1. ASSUME 1 \in DOMAIN gpu PROVE FALSE
      <4>1. 1 < k /\ gpu[1] = BeginModifications(at)
        BY <1>4, <1>11, <3>1, RunMeans
      <4> QED
        BY <2>1, <3>1, <4>1, ModificationsOrdered DEF MayRun
    <3> QED
      BY <3>1
  <2>3. images[at].layout = "TRANSFER_DST"
    BY <1>7, <1>11, <2>2
  <2> QED
    BY <1>6, <2>1, <2>3, LegalTransition DEF EndModifications
<1> QED
  BY <1>4, <1>5, <1>9, <1>10, <1>11

(* Each fourth command is for the instances the second of its four wrote.  *)
LEMMA LastOfFour ==
  ASSUME NEW m \in Nat, NEW n \in 1 .. 4 * m, n % 4 = 0
  PROVE  /\ n - 2 \in 1 .. 4 * m /\ n - 2 \in Nat /\ n - 2 < n /\ (n - 2) % 4 = 2
         /\ (n - 2 + 3) \div 4 = (n + 3) \div 4 /\ (n + 3) \div 4 \in 1 .. m
<1>1. PICK j : j = n \div 4
  OBVIOUS
<1>2. j \in Int /\ n = (4 * j) + (n % 4)
  BY <1>1
<1>3. n = 4 * j
  BY <1>2
<1>4. j \in 1 .. m
  BY <1>2, <1>3
<1>5. (4 * j + 3) \div 4 = j /\ (4 * j - 2 + 3) \div 4 = j /\ (4 * j - 2) % 4 = 2
  BY <1>2
<1>6. 4 * j - 2 \in 1 .. 4 * m
  BY <1>4
<1> QED
  BY <1>3, <1>4, <1>5, <1>6

(* What a draw reads was written into the buffer by the write before it,   *)
(* and into the atlas before the frame.                                    *)
LEMMA LegalFence ==
  ASSUME IInv, QueueInv, GpuInv, NEW n \in DOMAIN gpu, MayRun(n), pc = "fence"
  PROVE  Legal(gpu[n], images, draw)
<1>1. /\ ImagesInv /\ LayoutInv /\ AtlasesInv /\ BufferInv /\ StopInv /\ CommandsInv /\ Plain
  BY OpenMeans DEF Core, Plain
<1>2. PICK order \in SetToSeqs(DOMAIN buffer) : cmd = Commands(order)
  BY <1>1 DEF CommandsInv
<1>3. Batch = Commands(order) /\ IsFiniteSet(DOMAIN buffer)
  BY <1>1, <1>2 DEF Batch, BufferInv
<1>4. /\ Len(Batch) = 4 * Len(order) /\ Len(order) \in Nat /\ DOMAIN order = 1 .. Len(order)
      /\ \A k \in 1 .. 4 * Len(order) : Batch[k] = CommandAt(order, k)
  BY <1>3, CommandsSeq
<1>5. n \in Nat /\ n \in 1 .. 4 * Len(order) /\ gpu[n] = CommandAt(order, n)
  BY <1>4, RunMeans
<1>6. DOMAIN gpu = n .. Len(Batch)
  BY <1>3, CommandsChained, FirstRuns
<1>7. PICK i : i = order[(n + 3) \div 4]
  OBVIOUS
<1>8. CASE n % 4 # 0
  <2>1. gpu[n].op \in {"updateBuffer", "transitionBuffer"}
    BY <1>5, <1>7, <1>8, CommandAtMeans DEF BeforeUpdate, AfterUpdate, TransitionBuffer, UpdateBuffer
  <2> QED
    BY <2>1, LegalUpdate
<1>9. CASE n % 4 = 0
  <2>1. /\ n - 2 \in 1 .. 4 * Len(order) /\ n - 2 \in Nat /\ n - 2 < n /\ (n - 2) % 4 = 2
        /\ (n - 2 + 3) \div 4 = (n + 3) \div 4 /\ (n + 3) \div 4 \in 1 .. Len(order)
    BY <1>4, <1>5, <1>9, LastOfFour
  <2>2. i \in DOMAIN buffer
    <3>1. order \in [1 .. Cardinality(DOMAIN buffer) -> DOMAIN buffer]
      BY DEF SetToSeqs
    <3>2. (n + 3) \div 4 \in DOMAIN order
      BY <1>4, <2>1
    <3> QED
      BY <1>7, <3>1, <3>2
  <2>3. draw = buffer[i]
    <3>1. n - 2 \notin DOMAIN gpu
      BY <1>5, <1>6, <2>1
    <3>2. draw = cmd[n - 2].data
      BY <1>1, <1>9, <3>1 DEF CommandsInv
    <3>3. cmd[n - 2] = CommandAt(order, n - 2)
      BY <1>2, <1>3, <1>4, <2>1
    <3>4. CommandAt(order, n - 2) = UpdateBuffer(buffer[i])
      BY <1>7, <2>1, CommandAtMeans
    <3> QED
      BY <3>2, <3>3, <3>4 DEF UpdateBuffer
  <2>4. gpu[n] = Draw(i, Len(draw))
    BY <1>5, <1>7, <1>9, <2>3, CommandAtMeans
  <2>5. i \in DOMAIN atlases /\ i \in DOMAIN images /\ i \notin Textures
        /\ DOMAIN images[i].texels = Whole
    BY <1>1, <2>2, ImageNumbers DEF BufferInv, ImagesInv
  <2>6. images[i].layout = "SHADER_READONLY"
    BY <1>1, <2>5, PlainMeans DEF LayoutInv, PlainLayout
  <2>7. Len(draw) \in Nat
    BY <1>1, <2>2, <2>3, SeqElements DEF BufferInv
  <2>8. ASSUME NEW m \in 1 .. Len(draw), NEW t \in Texels(draw[m].uv)
        PROVE  t \in DOMAIN images[i].texels /\ images[i].texels[t] = draw[m].symbol
    <3> DEFINE c == draw[m].symbol
               a == atlases[i]
    <3>1. c \in DOMAIN a.glyphBounds /\ draw[m].uv = a.glyphBounds[c]
      BY <1>1, <2>2, <2>3 DEF BufferInv
    <3>2. Texels(a.glyphBounds[c]) \subseteq Whole
      <4>1. /\ a.glyphBounds[c] \in Rect
            /\ a.glyphBounds[c].x + a.glyphBounds[c].width <= Width
            /\ a.glyphBounds[c].y + a.glyphBounds[c].height <= Height
        BY <2>5, <3>1 DEF IInv, Shelved
      <4> QED
        BY <4>1, InsideWhole
    <3>3. Shows(a, c, images[i])
      <4>1. Settled(i) = Len(a.recorded) /\ LeftOf(i) = Nat
        BY <1>1, PlainMeans
      <4>2. a.recorded = <<>>
        BY <1>1, <2>5 DEF AtlasesInv, RecordingOK, StopInv
      <4>3. Settled(i) = 0
        BY <4>1, <4>2
      <4>4. ContentOK(a, i, images, 0, Nat)
        BY <1>1, <2>5, <4>1, <4>3 DEF AtlasesInv
      <4> QED
        BY <3>1, <4>4 DEF ContentOK
    <3> QED
      BY <2>5, <2>8, <3>1, <3>2, <3>3 DEF Shows
  <2> QED
    BY <2>4, <2>5, <2>6, <2>7, <2>8, LegalDraw
<1> QED
  BY <1>8, <1>9

(* In whatever order the barriers that startModify, add, stopModify and    *)
(* draw record let the GPU run the commands of a submission, it finds every*)
(* image there, in the layout the command is for, and under each instance  *)
(* the glyph of its character.                                             *)
THEOREM CommandsAlwaysLegal == Spec => []CommandsLegal
<1>1. IInv /\ Submitting /\ QueueInv /\ GpuInv => CommandsLegal
  BY RunMeans, LegalCreated, LegalUploading, LegalStopping, LegalFence DEF CommandsLegal
<1> QED
  BY <1>1, GpuInvariance, PTL

(* Once the atlases are submitted, no temporary texture is left.           *)
THEOREM TexturesAlwaysFreed == Spec => []TexturesFreed
<1>1. ASSUME GpuInv, pc = "recorded" PROVE DOMAIN images = DOMAIN atlases
  <2>1. ImagesInv /\ AtlasesInv /\ StopInv /\ Created = {}
    BY <1>1, OpenMeans DEF Core, Created
  <2>2. \A i \in DOMAIN atlases : atlases[i].rs = {}
    BY <1>1, <2>1 DEF AtlasesInv, RecordingOK, StopInv
  <2>3. Textures = {}
    BY <2>2 DEF Textures
  <2> QED
    BY <2>1, <2>3 DEF ImagesInv
<1>2. GpuInv => TexturesFreed
  BY <1>1 DEF TexturesFreed
<1> QED
  BY <1>2, GpuInvariance, PTL

(* The order of the frame is that of every atlas of the buffer, once.      *)
LEMMA OrderOnto ==
  ASSUME IsFiniteSet(DOMAIN buffer), NEW order \in SetToSeqs(DOMAIN buffer)
  PROVE  /\ DOMAIN order = 1 .. Len(order) /\ Len(order) \in Nat
         /\ \A m \in 1 .. Len(order) : order[m] \in DOMAIN buffer
         /\ \A m, k \in 1 .. Len(order) : m # k => order[m] # order[k]
         /\ \A i \in DOMAIN buffer : \E m \in 1 .. Len(order) : order[m] = i
<1> DEFINE n == Cardinality(DOMAIN buffer)
           D == 1 .. n
<1>1. n \in Nat
  BY FS_CardinalityType
<1>2. order \in [D -> DOMAIN buffer] /\ \A m, k \in D : m # k => order[m] # order[k]
  BY DEF SetToSeqs
<1> HIDE DEF n
<1>3. Len(order) = n
  BY <1>1, <1>2
<1>4. order \in Injection(D, DOMAIN buffer)
  BY <1>2 DEF Injection, IsInjective
<1>5. Cardinality(D) = n
  <2>1. 1 \in Int /\ n \in Int
    BY <1>1
  <2>2. Cardinality(D) = IF 1 > n THEN 0 ELSE n - 1 + 1
    BY <2>1, FS_Interval
  <2> QED
    BY <1>1, <2>2
<1>6. order \in Surjection(D, DOMAIN buffer)
  BY <1>4, <1>5, FS_Injection DEF n
<1>7. \A i \in DOMAIN buffer : \E m \in D : order[m] = i
  BY <1>6 DEF Surjection
<1> QED
  BY <1>1, <1>2, <1>3, <1>7

(* The draws of the frame show each instance of the buffer once.           *)
LEMMA DrawsInstances ==
  ASSUME IsFiniteSet(DOMAIN buffer), NEW order \in SetToSeqs(DOMAIN buffer),
         cmd = Commands(order), \A i \in DOMAIN buffer : IsSeq(buffer[i]),
         NEW c, IsFiniteSet(Spots(buffer, c))
  PROVE  Cardinality(InstancesOf(c)) = Cardinality(Spots(buffer, c))
<1> DEFINE N == Len(order)
           S == Spots(buffer, c)
           T == InstancesOf(c)
<1>1. /\ DOMAIN order = 1 .. N /\ N \in Nat
      /\ \A m \in 1 .. N : order[m] \in DOMAIN buffer
      /\ \A m, k \in 1 .. N : m # k => order[m] # order[k]
      /\ \A i \in DOMAIN buffer : \E m \in 1 .. N : order[m] = i
  BY OrderOnto
<1>2. DOMAIN cmd = 1 .. 4 * N /\ \A n \in 1 .. 4 * N : cmd[n] = CommandAt(order, n)
  BY CommandsSeq
<1> HIDE DEF N
<1>3. ASSUME NEW n \in DOMAIN cmd
      PROVE  cmd[n].op = "draw" <=> \E m \in 1 .. N : n = 4 * m
  <2>1. n \in 1 .. 4 * N /\ n \in Nat
    BY <1>1, <1>2
  <2>2. PICK i : i = order[(n + 3) \div 4]
    OBVIOUS
  <2>3. CASE n % 4 # 0
    <3>1. cmd[n].op # "draw"
      BY <1>2, <2>1, <2>2, <2>3, CommandAtMeans
      DEF BeforeUpdate, AfterUpdate, TransitionBuffer, UpdateBuffer
    <3>2. \A m \in 1 .. N : n # 4 * m
      BY <1>1, <2>1, <2>3
    <3> QED
      BY <3>1, <3>2
  <2>4. CASE n % 4 = 0
    <3>1. cmd[n].op = "draw"
      BY <1>2, <2>1, <2>2, <2>4, CommandAtMeans DEF Draw
    <3>2. PICK m : m = n \div 4
      OBVIOUS
    <3>3. m \in Int /\ n = 4 * m
      BY <2>1, <2>4, <3>2
    <3>4. m \in 1 .. N
      BY <1>1, <2>1, <3>3
    <3> QED
      BY <3>1, <3>3, <3>4
  <2> QED
    BY <2>3, <2>4
<1>4. ASSUME NEW m \in 1 .. N
      PROVE  /\ 4 * m \in DOMAIN cmd
             /\ cmd[4 * m].count = Len(buffer[order[m]])
             /\ cmd[4 * m - 2].data = buffer[order[m]]
             /\ DOMAIN buffer[order[m]] = 1 .. Len(buffer[order[m]])
  <2>1. 4 * m \in 1 .. 4 * N /\ 4 * m \in Nat /\ (4 * m) % 4 = 0 /\ (4 * m + 3) \div 4 = m
    BY <1>1
  <2>2. /\ 4 * m - 2 \in 1 .. 4 * N /\ 4 * m - 2 \in Nat
        /\ (4 * m - 2) % 4 = 2 /\ (4 * m - 2 + 3) \div 4 = m
    BY <1>1
  <2>3. cmd[4 * m] = Draw(order[m], Len(buffer[order[m]]))
    <3>1. CommandAt(order, 4 * m) = Draw(order[m], Len(buffer[order[m]]))
      BY <2>1, CommandAtMeans
    <3> QED
      BY <1>2, <2>1, <3>1
  <2>4. cmd[4 * m - 2] = UpdateBuffer(buffer[order[m]])
    <3>1. CommandAt(order, 4 * m - 2) = UpdateBuffer(buffer[order[m]])
      BY <2>2, CommandAtMeans
    <3> QED
      BY <1>2, <2>2, <3>1
  <2>5. DOMAIN buffer[order[m]] = 1 .. Len(buffer[order[m]])
    BY <1>1, SeqElements
  <2> QED
    BY <1>2, <2>1, <2>3, <2>4, <2>5 DEF Draw, UpdateBuffer
<1>5. ASSUME NEW q
      PROVE  q \in T <=> \E m \in 1 .. N : \E n \in DOMAIN buffer[order[m]] :
                           buffer[order[m]][n].symbol = c /\ q = <<4 * m, n>>
  <2>1. q \in T <=> \E k \in DOMAIN cmd : /\ cmd[k].op = "draw"
                                          /\ \E n \in 1 .. cmd[k].count :
                                               cmd[k - 2].data[n].symbol = c /\ q = <<k, n>>
    BY DEF InstancesOf
  <2>2. ASSUME q \in T
        PROVE  \E m \in 1 .. N : \E n \in DOMAIN buffer[order[m]] :
                 buffer[order[m]][n].symbol = c /\ q = <<4 * m, n>>
    <3>1. PICK k \in DOMAIN cmd : /\ cmd[k].op = "draw"
                                  /\ \E n \in 1 .. cmd[k].count :
                                       cmd[k - 2].data[n].symbol = c /\ q = <<k, n>>
      BY <2>1, <2>2
    <3>2. PICK m \in 1 .. N : k = 4 * m
      BY <1>3, <3>1
    <3> QED
      BY <1>4, <3>1, <3>2
  <2>3. ASSUME NEW m \in 1 .. N, NEW n \in DOMAIN buffer[order[m]],
               buffer[order[m]][n].symbol = c, q = <<4 * m, n>>
        PROVE  q \in T
    <3>1. 4 * m \in DOMAIN cmd /\ cmd[4 * m].op = "draw"
      BY <1>3, <1>4
    <3>2. n \in 1 .. cmd[4 * m].count /\ cmd[4 * m - 2].data[n].symbol = c
      BY <1>4, <2>3
    <3> QED
      BY <2>1, <2>3, <3>1, <3>2
  <2> QED
    BY <2>2, <2>3
<1>6. ASSUME NEW q
      PROVE  q \in S <=> \E i \in DOMAIN buffer : \E n \in DOMAIN buffer[i] :
                           buffer[i][n].symbol = c /\ q = <<i, n>>
  BY DEF Spots
<1> DEFINE pos(i) == CHOOSE m \in 1 .. N : order[m] = i
           f == [q \in S |-> <<4 * pos(q[1]), q[2]>>]
<1>7. ASSUME NEW i \in DOMAIN buffer PROVE pos(i) \in 1 .. N /\ order[pos(i)] = i
  BY <1>1
<1>8. ASSUME NEW m \in 1 .. N PROVE pos(order[m]) = m
  <2>1. order[m] \in DOMAIN buffer
    BY <1>1
  <2>2. pos(order[m]) \in 1 .. N /\ order[pos(order[m])] = order[m]
    BY <1>7, <2>1
  <2> QED
    BY <1>1, <2>2
<1> HIDE DEF pos, S, T
<1>9. ASSUME NEW i \in DOMAIN buffer, NEW n \in DOMAIN buffer[i], buffer[i][n].symbol = c
      PROVE  <<i, n>> \in S /\ f[<<i, n>>] = <<4 * pos(i), n>>
  <2>1. <<i, n>> \in S
    BY <1>6, <1>9
  <2>2. <<i, n>>[1] = i /\ <<i, n>>[2] = n
    OBVIOUS
  <2> QED
    BY <2>1, <2>2
<1> HIDE DEF f
<1>10. DOMAIN f = S /\ f = [q \in S |-> f[q]]
  BY DEF f
<1>11. ASSUME NEW q \in S
       PROVE  \E i \in DOMAIN buffer : \E n \in DOMAIN buffer[i] :
                buffer[i][n].symbol = c /\ q = <<i, n>> /\ f[q] = <<4 * pos(i), n>> /\ f[q] \in T
  <2>1. PICK i \in DOMAIN buffer : \E n \in DOMAIN buffer[i] :
               buffer[i][n].symbol = c /\ q = <<i, n>>
    BY <1>6
  <2>2. PICK n \in DOMAIN buffer[i] : buffer[i][n].symbol = c /\ q = <<i, n>>
    BY <2>1
  <2>3. f[q] = <<4 * pos(i), n>>
    BY <1>9, <2>2
  <2>4. pos(i) \in 1 .. N /\ order[pos(i)] = i
    BY <1>7
  <2>5. f[q] \in T
    BY <1>5, <2>2, <2>3, <2>4
  <2> QED
    BY <2>2, <2>3, <2>5
<1>12. f \in [S -> T]
  BY <1>10, <1>11
<1>13. ASSUME NEW q \in S, NEW r \in S, f[q] = f[r] PROVE q = r
  <2>1. PICK i \in DOMAIN buffer : \E n \in DOMAIN buffer[i] : q = <<i, n>> /\ f[q] = <<4 * pos(i), n>>
    BY <1>11
  <2>2. PICK n \in DOMAIN buffer[i] : q = <<i, n>> /\ f[q] = <<4 * pos(i), n>>
    BY <2>1
  <2>3. PICK j \in DOMAIN buffer : \E l \in DOMAIN buffer[j] : r = <<j, l>> /\ f[r] = <<4 * pos(j), l>>
    BY <1>11
  <2>4. PICK l \in DOMAIN buffer[j] : r = <<j, l>> /\ f[r] = <<4 * pos(j), l>>
    BY <2>3
  <2>5. 4 * pos(i) = 4 * pos(j) /\ n = l
    BY <1>13, <2>2, <2>4
  <2>6. pos(i) \in Int /\ pos(j) \in Int
    BY <1>1, <1>7
  <2>7. pos(i) = pos(j)
    BY <2>5, <2>6
  <2>8. i = j
    BY <1>7, <2>7
  <2> QED
    BY <2>2, <2>4, <2>5, <2>8
<1>14. ASSUME NEW t \in T PROVE \E q \in S : f[q] = t
  <2>1. PICK m \in 1 .. N : \E n \in DOMAIN buffer[order[m]] :
               buffer[order[m]][n].symbol = c /\ t = <<4 * m, n>>
    BY <1>5
  <2>2. PICK n \in DOMAIN buffer[order[m]] : buffer[order[m]][n].symbol = c /\ t = <<4 * m, n>>
    BY <2>1
  <2>3. order[m] \in DOMAIN buffer /\ pos(order[m]) = m
    BY <1>1, <1>8
  <2>4. <<order[m], n>> \in S /\ f[<<order[m], n>>] = <<4 * m, n>>
    BY <1>9, <2>2, <2>3
  <2> QED
    BY <2>2, <2>4
<1>15. f \in Bijection(S, T)
  BY <1>12, <1>13, <1>14 DEF Bijection, Injection, Surjection, IsInjective
<1>16. ExistsBijection(S, T)
  BY <1>15 DEF ExistsBijection
<1>17. IsFiniteSet(S)
  BY DEF S
<1>18. Cardinality(T) = Cardinality(S)
  BY <1>16, <1>17, FS_Bijection
<1> QED
  BY <1>18 DEF S, T

(* A frame draws every character of its text, as often as it occurs in it, *)
(* whatever atlases they are in and in whatever order these are drawn.     *)
THEOREM FramesShowText == Spec => []FrameShowsText
<1>1. ASSUME GpuInv, pc = "recorded", NEW c \in Chars
      PROVE  Cardinality(InstancesOf(c)) = Cardinality(OccurrencesOf(c))
  <2>1. BufferInv /\ CommandsInv
    BY <1>1, OpenMeans
  <2>2. PICK order \in SetToSeqs(DOMAIN buffer) : cmd = Commands(order)
    BY <1>1, <2>1 DEF CommandsInv
  <2>3. /\ IsFiniteSet(DOMAIN buffer) /\ \A i \in DOMAIN buffer : IsSeq(buffer[i])
        /\ AsMany(buffer, text, c)
    BY <2>1 DEF BufferInv
  <2>4. Cardinality(InstancesOf(c)) = Cardinality(Spots(buffer, c))
    BY <2>2, <2>3, DrawsInstances DEF AsMany
  <2>5. OccurrencesOf(c) = Positions(text, c)
    BY DEF OccurrencesOf, Positions
  <2> QED
    BY <2>3, <2>4, <2>5 DEF AsMany
<1>2. GpuInv => FrameShowsText
  BY <1>1 DEF FrameShowsText
<1> QED
  BY <1>2, GpuInvariance, PTL
=============================================================================
