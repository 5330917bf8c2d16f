---------------------------- MODULE TextRenderer ----------------------------
(***************************************************************************)
(* The text renderer of the font examples, TextRenderer.java, in the loop  *)
(* DrawFont calls it from: glyphs are put into atlases when they are first *)
(* asked for, by copies that are recorded first and submitted before the   *)
(* frame that shows them.                                                  *)
(*                                                                         *)
(* The GPU runs what is submitted in any order the barriers among it       *)
(* allow, while the program waits.  Images are numbered: the image of atlas*)
(* i is image i, a temporary texture has a higher number, which is free    *)
(* again once it is destroyed.                                             *)
(***************************************************************************)
EXTENDS Atlas, FiniteSets, FiniteSetsExt, SequencesExt

CONSTANTS
  MaxAtlases,  (* bounds the atlases                                       *)
  MaxText      (* bounds the characters of a text                          *)

ASSUME TextAssumption == MaxAtlases \in Nat /\ MaxText \in Nat

VARIABLES
  atlases,    (* TextRenderer.atlases                                      *)
  infs,       (* the atlas of each character                               *)
  images,     (* the images there are                                      *)
  draw,       (* what the buffer draw holds on the GPU                     *)
  gpu,        (* what the queue has still to do, by place in the queue     *)
  text,       (* of the text to draw, what has been gone through           *)
  buffer,     (* the instances so far, by atlas                            *)
  cmd,        (* the command buffer of the frame                           *)
  pc,         (* where the program is                                      *)
  symbol,     (* the character at hand                                     *)
  at,         (* the atlas at hand                                         *)
  back        (* where preload returns to                                  *)

gpuVars == <<images, draw, gpu>>
frameVars == <<text, buffer, cmd>>
vars == <<atlases, infs, gpuVars, frameVars, pc, symbol, at, back>>

NoChar == "no character"

Init ==
  /\ atlases = <<>> /\ infs = <<>>
  /\ images = <<>> /\ draw = <<>> /\ gpu = <<>>
  /\ text = <<>> /\ buffer = <<>> /\ cmd = <<>>
  /\ pc = "ready" /\ symbol = NoChar /\ at = 0 /\ back = "ready"

(* A command may run that waits for none before it.                        *)
MayRun(n) == \A m \in DOMAIN gpu : m < n => ~Ordered(gpu[m], gpu[n])

Gpu ==
  \E n \in DOMAIN gpu :
    /\ MayRun(n)
    /\ images' = After(gpu[n], images)
    /\ draw' = IF gpu[n].op = "updateBuffer" THEN gpu[n].data ELSE draw
    /\ gpu' = [m \in DOMAIN gpu \ {n} |-> gpu[m]]
    /\ UNCHANGED <<atlases, infs, frameVars, pc, symbol, at, back>>

(* The commands get the next places.                                       *)
Submit(commands) ==
  LET last == Max(DOMAIN gpu \cup {0}) IN
  gpu' = [n \in DOMAIN gpu \cup last + 1 .. last + Len(commands) |->
            IF n \in DOMAIN gpu THEN gpu[n] ELSE commands[n - last]]

(* queue.await: everything submitted has run.                              *)
Await == DOMAIN gpu = {}

-----------------------------------------------------------------------------
(* preload *)

(* startModify and beginModifications; i is the image of the atlas.        *)
startModify(a, i) ==
  IF a.modifying THEN a
  ELSE [a EXCEPT !.modifying = TRUE,
                 !.recorded = <<BeginModifications(i)>>]

FirstAccepting(c) ==
  {i \in DOMAIN atlases :
     Accepts(atlases[i], c) /\ \A j \in 1 .. i - 1 : ~Accepts(atlases[j], c)}

(* The atlases up to the first that takes the character are tried, and are *)
(* being modified afterwards; all of them if none does.                    *)
Tried(c) ==
  [i \in DOMAIN atlases |->
     IF \A j \in 1 .. i - 1 : ~Accepts(atlases[j], c)
       THEN Wrapped(startModify(atlases[i], i), c) ELSE atlases[i]]

search(c, from) ==
  /\ symbol' = c
  /\ back' = from
  /\ atlases' = Tried(c)
  /\ \/ \E i \in FirstAccepting(c) :
          at' = i /\ pc' = "accepted" /\ UNCHANGED <<images, gpu>>
     \/ /\ FirstAccepting(c) = {}
        /\ Len(atlases) < MaxAtlases
        /\ at' = Len(atlases) + 1
        /\ images' = Put(images, at', NewImage(Width, Height))
        /\ Submit(<<Prepare(at')>>)
        /\ pc' = "created"
  /\ UNCHANGED <<infs, draw, frameVars>>

preload ==
  /\ pc = "ready"
  /\ \E c \in Chars : search(c, "ready")

(* preload returns, to the loop of draw with the character still at hand.  *)
Return ==
  /\ pc' = back /\ back' = "ready"
  /\ symbol' = IF back = "put" THEN symbol ELSE NoChar
  /\ at' = 0

(* The constructor of Atlas returns, and the new atlas is modified.  What  *)
(* addGlyph answers is not looked at.                                      *)
created ==
  /\ pc = "created"
  /\ Await
  /\ atlases' = Append(atlases, Wrapped(startModify(EmptyAtlas, at), symbol))
  /\ IF Accepts(EmptyAtlas, symbol)
       THEN pc' = "accepted" /\ UNCHANGED <<infs, symbol, at, back>>
       ELSE infs' = Put(infs, symbol, at) /\ Return
  /\ UNCHANGED <<gpuVars, frameVars>>

(* A number no image has.                                                  *)
FreshTexture ==
  CHOOSE t \in MaxAtlases + 1 .. MaxAtlases + 1 + Cardinality(DOMAIN images) :
    t \notin DOMAIN images

(* blitGlyph records the copy from a texture, and that it is to be         *)
(* destroyed.                                                              *)
Blitted(a, i, t, c) ==
  [a EXCEPT !.rs = @ \cup {t}, !.recorded = Append(@, CopyImage(t, i, PlaceOf(a, c)))]

(* blitGlyph makes a temporary texture, if there is a bitmap, and fills it.*)
upload ==
  /\ pc = "accepted" /\ HasBitmap(symbol)
  /\ LET t == FreshTexture IN
     /\ images' = Put(images, t, NewImage(Glyph[symbol].width, Glyph[symbol].height))
     /\ Submit(Filling(t, symbol))
     /\ atlases' = [atlases EXCEPT ![at] = Blitted(atlases[at], at, t, symbol)]
  /\ pc' = "uploading"
  /\ UNCHANGED <<infs, draw, frameVars, symbol, at, back>>

(* Once the texture is filled, or without one, the glyph has its place.    *)
place ==
  /\ \/ pc = "accepted" /\ ~HasBitmap(symbol)
     \/ pc = "uploading" /\ Await
  /\ atlases' = [atlases EXCEPT ![at] = Placed(@, symbol)]
  /\ infs' = Put(infs, symbol, at)
  /\ Return
  /\ UNCHANGED <<gpuVars, frameVars>>

-----------------------------------------------------------------------------
(* draw *)

startDraw ==
  /\ pc = "ready"
  /\ pc' = "text"
  /\ UNCHANGED <<atlases, infs, gpuVars, frameVars, symbol, at, back>>

(* getAtlas for the next character of the text.                            *)
nextChar ==
  /\ pc = "text" /\ Len(text) < MaxText
  /\ \E c \in Chars :
       \/ /\ c \in DOMAIN infs
          /\ symbol' = c /\ pc' = "put"
          /\ UNCHANGED <<atlases, infs, gpuVars, frameVars, at, back>>
       \/ c \notin DOMAIN infs /\ search(c, "put")

(* Mutant: a new buffer for each character.                                *)
putAlone ==
  /\ pc = "put"
  /\ LET i == infs[symbol]
         bounds == atlases[i].glyphBounds IN
     IF symbol \in DOMAIN bounds
     THEN /\ buffer' = Put(buffer, i, <<[symbol |-> symbol, uv |-> bounds[symbol]]>>)
          /\ text' = Append(text, symbol)
          /\ symbol' = NoChar
          /\ pc' = "text"
     ELSE pc' = "failed" /\ UNCHANGED <<buffer, text, symbol>>
  /\ UNCHANGED <<atlases, infs, gpuVars, cmd, at, back>>

(* The instance of the character; a glyph without bounds throws.           *)
put ==
  /\ pc = "put"
  /\ LET i == infs[symbol]
         bounds == atlases[i].glyphBounds IN
     IF symbol \in DOMAIN bounds
     THEN /\ buffer' = Put(buffer, i, Append(IF i \in DOMAIN buffer THEN buffer[i] ELSE <<>>,
                                            [symbol |-> symbol, uv |-> bounds[symbol]]))
          /\ text' = Append(text, symbol)
          /\ symbol' = NoChar
          /\ pc' = "text"
     ELSE pc' = "failed" /\ UNCHANGED <<buffer, text, symbol>>
  /\ UNCHANGED <<atlases, infs, gpuVars, cmd, at, back>>

endText ==
  /\ pc = "text"
  /\ at' = 1
  /\ pc' = "stop"
  /\ UNCHANGED <<atlases, infs, gpuVars, frameVars, symbol, back>>

(* stopModify and Atlas.submit, atlas by atlas.                            *)
stopModify ==
  /\ pc = "stop" /\ at <= Len(atlases)
  /\ IF atlases[at].modifying
       THEN /\ Submit(Append(atlases[at].recorded, EndModifications(at)))
            /\ pc' = "stopping"
            /\ UNCHANGED at
       ELSE at' = at + 1 /\ UNCHANGED <<gpu, pc>>
  /\ UNCHANGED <<atlases, infs, images, draw, frameVars, symbol, back>>

(* Nothing is left to copy or to destroy.                                  *)
Emptied(a) == [a EXCEPT !.modifying = FALSE, !.recorded = <<>>, !.rs = {}]

(* Mutant: the list rs is cleared without being run.                       *)
stoppedKeeping ==
  /\ pc = "stopping"
  /\ Await
  /\ atlases' = [atlases EXCEPT ![at] = Emptied(atlases[at])]
  /\ at' = at + 1
  /\ pc' = "stop"
  /\ UNCHANGED <<infs, images, draw, gpu, frameVars, symbol, back>>

(* submitBlocking returns: the temporary textures are destroyed.           *)
stopped ==
  /\ pc = "stopping"
  /\ Await
  /\ images' = [i \in DOMAIN images \ atlases[at].rs |-> images[i]]
  /\ atlases' = [atlases EXCEPT ![at] = Emptied(atlases[at])]
  /\ at' = at + 1
  /\ pc' = "stop"
  /\ UNCHANGED <<infs, draw, gpu, frameVars, symbol, back>>

(* The buffer may be written once the draw before has read it, ...         *)
BeforeUpdate == TransitionBuffer(Scope(GRAPHICS, "VERTEX_READ"), Scope(TRANSFER, "TRANSFER_WRITE"))

(* ... and read once it is written.                                        *)
AfterUpdate == TransitionBuffer(Scope(TRANSFER, "TRANSFER_WRITE"), Scope(GRAPHICS, "VERTEX_READ"))

(* Mutant: the draw does not wait for the write.                           *)
CommandsUnordered(order) ==
  [n \in 1 .. 4 * Len(order) |->
     LET i == order[(n + 3) \div 4] IN
     CASE n % 4 = 1 -> BeforeUpdate
       [] n % 4 = 2 -> UpdateBuffer(buffer[i])
       [] n % 4 = 3 -> BeforeUpdate
       [] n % 4 = 0 -> Draw(i, Len(buffer[i]))]

(* For each atlas its instances are written into the one buffer and drawn. *)
Commands(order) ==
  [n \in 1 .. 4 * Len(order) |->
     LET i == order[(n + 3) \div 4] IN
     CASE n % 4 = 1 -> BeforeUpdate
       [] n % 4 = 2 -> UpdateBuffer(buffer[i])
       [] n % 4 = 3 -> AfterUpdate
       [] n % 4 = 0 -> Draw(i, Len(buffer[i]))]

(* The order is that of a HashMap.                                         *)
record ==
  /\ pc = "stop" /\ at > Len(atlases)
  /\ \E order \in SetToSeqs(DOMAIN buffer) : cmd' = Commands(order)
  /\ at' = 0
  /\ pc' = "recorded"
  /\ UNCHANGED <<atlases, infs, gpuVars, text, buffer, symbol, back>>

-----------------------------------------------------------------------------
(* The loop of DrawFont *)

submitFrame ==
  /\ pc = "recorded"
  /\ Submit(cmd)
  /\ pc' = "fence"
  /\ UNCHANGED <<atlases, infs, images, draw, frameVars, symbol, at, back>>

(* What is left in the buffer draw is written over before it is read.      *)
awaitFrame ==
  /\ pc = "fence"
  /\ Await
  /\ draw' = <<>>
  /\ text' = <<>> /\ buffer' = <<>> /\ cmd' = <<>>
  /\ pc' = "ready"
  /\ UNCHANGED <<atlases, infs, images, gpu, symbol, at, back>>

(* TextRenderer.destroy, after the loop or after an error.                 *)
destroy ==
  /\ pc \in {"ready", "failed"}
  /\ images' = [i \in DOMAIN images \ DOMAIN atlases |-> images[i]]
  /\ pc' = "closed"
  /\ UNCHANGED <<atlases, infs, draw, gpu, frameVars, symbol, at, back>>

Program ==
  \/ preload \/ created \/ upload \/ place
  \/ startDraw \/ nextChar \/ put \/ endText \/ stopModify \/ stopped \/ record
  \/ submitFrame \/ awaitFrame \/ destroy

Next == Gpu \/ Program

Spec == Init /\ [][Next]_vars

-----------------------------------------------------------------------------
(* Properties *)

TypeOK ==
  /\ \A i \in DOMAIN atlases :
       /\ atlases[i].lastX \in 0 .. Width /\ atlases[i].lastY \in 0 .. Height
       /\ atlases[i].rwHeight \in 0 .. Height
       /\ DOMAIN atlases[i].glyphBounds \subseteq Chars
  /\ DOMAIN infs \subseteq Chars /\ \A c \in DOMAIN infs : infs[c] \in DOMAIN atlases
  /\ Len(text) <= MaxText
  /\ DOMAIN buffer \subseteq DOMAIN atlases
  /\ symbol \in Chars \cup {NoChar}
  /\ at \in 0 .. MaxAtlases + 1
  /\ back \in {"ready", "put"}
  /\ pc \in {"ready", "accepted", "created", "uploading", "text", "put", "stop", "stopping",
             "recorded", "fence", "failed", "closed"}

(* Whatever order the GPU takes, the command that runs next is legal:      *)
(* images are in the layout it was recorded for, copies stay inside, what  *)
(* it reads is there, and at each instance of a text the atlas shows the   *)
(* character it is for.                                                    *)
CommandsLegal == \A n \in DOMAIN gpu : MayRun(n) => Legal(gpu[n], images, draw)

(* The places of the glyphs of an atlas are apart and inside.              *)
AtlasesPacked == \A i \in DOMAIN atlases : Packed(atlases[i])

(* Where the frame draws a character: the instances of each draw, which the*)
(* update two commands before it has written.                              *)
InstancesOf(c) ==
  UNION {{<<k, i>> : i \in {j \in 1 .. cmd[k].count : cmd[k - 2].data[j].symbol = c}} :
            k \in {n \in DOMAIN cmd : cmd[n].op = "draw"}}

OccurrencesOf(c) == {n \in DOMAIN text : text[n] = c}

(* A frame draws the characters of its text, each as often as it occurs.   *)
FrameShowsText ==
  pc = "recorded" =>
    \A c \in Chars : Cardinality(InstancesOf(c)) = Cardinality(OccurrencesOf(c))

(* A text fails only on a glyph higher than any atlas can take.            *)
FailsOnlyIfTooHigh == pc = "failed" => Glyph[symbol].height >= Height

(* No temporary texture outlives the draw that submitted the copy from it. *)
TexturesFreed == pc = "recorded" => DOMAIN images = DOMAIN atlases
=============================================================================
