----------------------------- MODULE FrameLoop -----------------------------
(***************************************************************************)
(* The frame loop of ReniContext: prepareFrame, submitFrame and            *)
(* swapBuffers, the swap chain and the attachments they recreate, and what *)
(* they share with three actors that run at their own pace: the user, who  *)
(* resizes the window, the presentation engine behind the swap chain, and  *)
(* the GPU queue.                                                          *)
(*                                                                         *)
(* The order of the calls is that of the main loops under src/test, for a  *)
(* window with a depth buffer.  A size is a number that stands for width   *)
(* and height, which the code treats alike.                                *)
(***************************************************************************)
EXTENDS Integers, Sequences

CONSTANTS
  Sizes,          (* sizes the window may have                            *)
  Surfaces,       (* kinds of surface: a surface's extent limits for each *)
                  (* window size                                          *)
  ImageCount,     (* images of a swap chain                               *)
  DriverResults   (* what the driver answers on a surface that changed    *)

(* The driver can always answer success.                                   *)
ASSUME FrameLoopAssumption ==
  /\ Sizes \subseteq Nat
  /\ Surfaces \subseteq [Sizes -> [min : Nat, max : Nat]]
  /\ \A c \in Surfaces : \A s \in Sizes : c[s].min <= c[s].max
  /\ ImageCount \in Nat \ {0}
  /\ DriverResults \subseteq {"success", "suboptimal", "out_of_date", "lost"}
  /\ "success" \in DriverResults

VARIABLES
  limits,      (* the kind of surface the window has, which never changes *)
  actual,      (* the size of the window on screen                        *)
  cached,      (* GenericWindow's width and height, as of the last poll   *)
  chain,       (* SwapChain: extents, initialized, and the window size    *)
               (* its surface had when it was created                     *)
  attachment,  (* extents of the ChainBuffer's depth Image, 0 for none    *)
  frame,       (* index of the image acquired last                        *)
  acquired,    (* the images of the chain the program holds               *)
  semaphoreA,  (* signals of acquire that no submission has waited for,   *)
               (* undefined once there were two                           *)
  semaphoreB,  (* signals of submissions that no present has waited for   *)
  fenceA,      (* whether the fence is signalled                          *)
  gpu,         (* what the queue has still to do, in order                *)
  pc,          (* where the program is                                    *)
  caller,      (* which method called checkResize                         *)
  result       (* what the last acquire or present answered               *)

screen == <<limits, actual>>
window == <<limits, actual, cached>>
buffers == <<chain, attachment>>
sync == <<semaphoreA, semaphoreB, fenceA>>
vars == <<limits, actual, cached, chain, attachment, frame, acquired,
          semaphoreA, semaphoreB, fenceA, gpu, pc, caller, result>>

Images == 0 .. ImageCount - 1

(* Math.clamp                                                              *)
Clamp(n, caps) ==
  IF n < caps.min THEN caps.min ELSE IF n > caps.max THEN caps.max ELSE n

(* The swap chain created for a window of size n.                          *)
ChainFor(n) ==
  [extents |-> Clamp(n, limits[actual]), surface |-> actual, initialized |-> TRUE]

(* A chain is made anew after pollSize, then the depth buffer.             *)
Init ==
  /\ limits \in Surfaces
  /\ actual \in Sizes
  /\ cached = actual
  /\ chain = ChainFor(actual)
  /\ chain.extents > 0
  /\ attachment = actual
  /\ frame = 0
  /\ acquired = {}
  /\ semaphoreA = 0 /\ semaphoreB = 0 /\ fenceA = FALSE
  /\ gpu = <<>>
  /\ pc = "prepare"
  /\ caller = "prepareFrame"
  /\ result = "success"

-----------------------------------------------------------------------------
(* The user, the presentation engine and the GPU *)

Resize ==
  /\ pc # "closed"
  /\ actual' \in Sizes \ {actual}
  /\ UNCHANGED <<limits, cached, buffers, frame, acquired, sync, gpu, pc, caller, result>>

(* What vkAcquireNextImageKHR and vkQueuePresentKHR may answer: only a     *)
(* surface that changed since the chain was made is out of date, and the   *)
(* driver need not say so.                                                 *)
Answers ==
  {r \in DriverResults : r \in {"suboptimal", "out_of_date"} => actual # chain.surface}

Good == {"success", "suboptimal"}

(* A semaphore is binary: what a second signal does to it is undefined, and*)
(* so is the semaphore from then on.                                       *)
Undefined == 2

Signalled(n) == IF n = 0 THEN 1 ELSE Undefined

Waited(n) == IF n = 1 THEN 0 ELSE Undefined

(* The queue runs the submission: it waits for semaphoreA, then signals    *)
(* semaphoreB and the fence.                                               *)
Draw ==
  /\ gpu # <<>> /\ Head(gpu) = "draw"
  /\ semaphoreA > 0
  /\ gpu' = Tail(gpu)
  /\ semaphoreA' = Waited(semaphoreA)
  /\ semaphoreB' = Signalled(semaphoreB)
  /\ fenceA' = TRUE
  /\ UNCHANGED <<window, buffers, frame, acquired, pc, caller, result>>

Present ==
  /\ gpu # <<>> /\ Head(gpu) = "present"
  /\ semaphoreB > 0
  /\ gpu' = Tail(gpu)
  /\ semaphoreB' = Waited(semaphoreB)
  /\ UNCHANGED <<window, buffers, frame, acquired, semaphoreA, fenceA, pc, caller, result>>

(* The layout of a new depth image is changed.                             *)
Layout ==
  /\ gpu # <<>> /\ Head(gpu) = "layout"
  /\ gpu' = Tail(gpu)
  /\ UNCHANGED <<window, buffers, frame, acquired, sync, pc, caller, result>>

-----------------------------------------------------------------------------
(* prepareFrame *)

(* Mutant: no semaphore is handed to the driver.                           *)
acquireUnsignalled ==
  \/ \E i \in Images \ acquired :
       /\ frame' = i
       /\ acquired' = acquired \cup {i}
       /\ result' \in Answers \cap Good
       /\ UNCHANGED semaphoreA
  \/ /\ result' \in Answers \ Good
     /\ UNCHANGED <<frame, acquired, semaphoreA>>

(* SwapChain.acquire: blocks until there is an image; an error leaves index*)
(* and semaphore alone.                                                    *)
acquire ==
  \/ \E i \in Images \ acquired :
       /\ frame' = i
       /\ acquired' = acquired \cup {i}
       /\ semaphoreA' = Signalled(semaphoreA)
       /\ result' \in Answers \cap Good
  \/ /\ result' \in Answers \ Good
     /\ UNCHANGED <<frame, acquired, semaphoreA>>

prepareFrame ==
  /\ pc = "prepare"
  /\ acquire
  /\ caller' = "prepareFrame"
  /\ pc' = "check"
  /\ UNCHANGED <<window, buffers, semaphoreB, fenceA, gpu>>

(* Mutant: a suboptimal chain is replaced as well.                         *)
MustResizeSuboptimal ==
  result \in {"out_of_date", "suboptimal"} \/ cached # chain.extents

(* Mutant: the driver's word is enough.                                    *)
MustResizeReported == result = "out_of_date"

(* The size check on top of the driver's answer.                           *)
MustResize == result = "out_of_date" \/ cached # chain.extents

(* Mutant: no logical.await.                                               *)
checkResizeAtOnce ==
  /\ pc = "check"
  /\ MustResize
  /\ cached' = actual
  /\ pc' = "recreate"
  /\ UNCHANGED <<screen, buffers, frame, acquired, sync, gpu, caller, result>>

(* checkResize, up to pollSize: logical.await, then the window's size.     *)
checkResize ==
  /\ pc = "check"
  /\ MustResize
  /\ gpu = <<>>
  /\ cached' = actual
  /\ pc' = "recreate"
  /\ UNCHANGED <<screen, buffers, frame, acquired, sync, gpu, caller, result>>

(* checkResize on a chain that fits: go on, or throw.                      *)
keepSize ==
  /\ pc = "check"
  /\ ~MustResize
  /\ pc' = IF result \notin Good THEN "failed"
           ELSE IF caller = "prepareFrame" THEN "record" ELSE "events"
  /\ UNCHANGED <<window, buffers, frame, acquired, sync, gpu, caller, result>>

(* SwapChain.recreate: destroy, then create from the surface's current     *)
(* limits.  A driver may refuse, and refuses an empty extent; the old chain*)
(* is gone then.                                                           *)
recreateChain ==
  /\ pc = "recreate"
  /\ acquired' = {}
  /\ \/ /\ Clamp(cached, limits[actual]) > 0
        /\ chain' = ChainFor(cached)
        /\ pc' = "attachments"
     \/ /\ chain' = [ChainFor(cached) EXCEPT !.initialized = FALSE]
        /\ pc' = "failed"
  /\ UNCHANGED <<window, attachment, frame, sync, gpu, caller, result>>

(* Mutant: ChainBuffer.recreate does not call its superclass.              *)
recreateAttachmentsNever ==
  /\ pc = "attachments"
  /\ pc' = "layout"
  /\ UNCHANGED <<window, buffers, frame, acquired, sync, gpu, caller, result>>

(* Framebuffer.recreate: the depth image, at the size polled before, and a *)
(* submission for its layout.  Vulkan refuses an empty image, and may run  *)
(* out of memory for any; the old image is gone then.                      *)
recreateAttachments ==
  /\ pc = "attachments"
  /\ \/ /\ cached > 0
        /\ attachment' = cached
        /\ gpu' = Append(gpu, "layout")
        /\ pc' = "layout"
     \/ /\ attachment' = 0
        /\ pc' = "failed"
        /\ UNCHANGED gpu
  /\ UNCHANGED <<window, chain, frame, acquired, sync, caller, result>>

(* The end of Image.create: logical.await, and back in the caller of       *)
(* checkResize.                                                            *)
awaitLayout ==
  /\ pc = "layout"
  /\ gpu = <<>>
  /\ pc' = IF caller = "prepareFrame" THEN "reacquire" ELSE "events"
  /\ UNCHANGED <<window, buffers, frame, acquired, sync, gpu, caller, result>>

(* Mutant: prepareFrame returns without the second acquire.                *)
reacquireNever ==
  /\ pc = "reacquire"
  /\ pc' = "record"
  /\ UNCHANGED <<window, buffers, frame, acquired, sync, gpu, caller, result>>

(* The second acquire of prepareFrame; nobody looks at its answer.         *)
reacquire ==
  /\ pc = "reacquire"
  /\ acquire
  /\ pc' = "record"
  /\ UNCHANGED <<window, buffers, semaphoreB, fenceA, gpu, caller>>

-----------------------------------------------------------------------------
(* submitFrame *)

(* The command buffer recorded for image frame is submitted.               *)
submitFrame ==
  /\ pc = "record"
  /\ gpu' = Append(gpu, "draw")
  /\ pc' = "fence"
  /\ UNCHANGED <<window, buffers, frame, acquired, sync, caller, result>>

(* Mutant: the fence is not reset.                                         *)
awaitFenceKept ==
  /\ pc = "fence"
  /\ fenceA
  /\ gpu = <<>>
  /\ pc' = "swap"
  /\ UNCHANGED <<window, buffers, frame, acquired, sync, gpu, caller, result>>

(* Fence.await, Fence.reset and ReniQueue.await.                           *)
awaitFence ==
  /\ pc = "fence"
  /\ fenceA
  /\ gpu = <<>>
  /\ fenceA' = FALSE
  /\ pc' = "swap"
  /\ UNCHANGED <<window, buffers, frame, acquired, semaphoreA, semaphoreB, gpu, caller, result>>

-----------------------------------------------------------------------------
(* swapBuffers and the rest of the loop *)

(* GLFWWindow.swapAndPollSize, before it calls swapBuffers.                *)
pollSize ==
  /\ pc = "swap"
  /\ cached' = actual
  /\ pc' = "present"
  /\ UNCHANGED <<screen, buffers, frame, acquired, sync, gpu, caller, result>>

(* Whatever a present answers, it takes the image back and waits for       *)
(* semaphoreB on the queue.                                                *)
swapBuffers ==
  /\ pc = "present"
  /\ gpu' = Append(gpu, "present")
  /\ acquired' = acquired \ {frame}
  /\ result' \in Answers
  /\ caller' = "swapBuffers"
  /\ pc' = "check"
  /\ UNCHANGED <<window, buffers, frame, sync>>

(* Mutant: the device is not awaited at the end of a frame.                *)
endOfFrameAtOnce ==
  /\ pc = "events"
  /\ pc' \in {"prepare", "closing"}
  /\ UNCHANGED <<window, buffers, frame, acquired, sync, gpu, caller, result>>

(* Events are polled, the device awaited, and the window asked whether it  *)
(* should close.                                                           *)
endOfFrame ==
  /\ pc = "events"
  /\ gpu = <<>>
  /\ pc' \in {"prepare", "closing"}
  /\ UNCHANGED <<window, buffers, frame, acquired, sync, gpu, caller, result>>

(* The loop's catch block.                                                 *)
caught ==
  /\ pc = "failed"
  /\ pc' = "closing"
  /\ UNCHANGED <<window, buffers, frame, acquired, sync, gpu, caller, result>>

(* logical.await, then ReniContext.destroy: the chain goes if there is one.*)
destroy ==
  /\ pc = "closing"
  /\ gpu = <<>>
  /\ chain' = [chain EXCEPT !.initialized = FALSE]
  /\ acquired' = IF chain.initialized THEN {} ELSE acquired
  /\ pc' = "closed"
  /\ UNCHANGED <<window, attachment, frame, sync, gpu, caller, result>>

-----------------------------------------------------------------------------

Program ==
  \/ prepareFrame \/ checkResize \/ keepSize
  \/ recreateChain \/ recreateAttachments \/ awaitLayout \/ reacquire
  \/ submitFrame \/ awaitFence
  \/ pollSize \/ swapBuffers \/ endOfFrame \/ caught \/ destroy

Gpu == Draw \/ Present \/ Layout

Next == Resize \/ Program \/ Gpu

(* The program runs whenever no call of it blocks, and the GPU works off   *)
(* its queue; the window need not change.                                  *)
Spec == Init /\ [][Next]_vars /\ WF_vars(Program) /\ WF_vars(Gpu)

-----------------------------------------------------------------------------
(* Properties *)

Stages == {"prepare", "check", "recreate", "attachments", "layout", "reacquire", "record",
           "fence", "swap", "present", "events", "failed", "closing", "closed"}

TypeOK ==
  /\ limits \in Surfaces
  /\ actual \in Sizes /\ cached \in Sizes
  /\ chain \in [extents : Nat, surface : Sizes, initialized : BOOLEAN]
  /\ attachment \in Nat
  /\ frame \in Images /\ acquired \subseteq Images
  /\ semaphoreA \in 0 .. Undefined /\ semaphoreB \in 0 .. Undefined
  /\ fenceA \in BOOLEAN
  /\ gpu \in Seq({"draw", "present", "layout"})
  /\ pc \in Stages
  /\ caller \in {"prepareFrame", "swapBuffers"}
  /\ result \in DriverResults

(* Chain and depth image are destroyed, and the device shut down, only     *)
(* when the GPU has nothing left to do with them: the present of the frame *)
(* that revealed the new size is on the queue when recreate is decided.    *)
DestroysIdle == pc \in {"recreate", "attachments", "closed"} => gpu = <<>>

(* A frame leaves nothing behind, whatever the surface and the driver made *)
(* of it: no job, no image kept, and no signal of its acquires or of its   *)
(* submission that nobody waited for.                                      *)
SemaphoresBalanced ==
  pc = "prepare" =>
    semaphoreA # 1 /\ semaphoreB = 0 /\ gpu = <<>> /\ acquired = {}

(* An image acquired is given up, its signal pending, only where the       *)
(* surface had not allowed the size the window was polled at; and it takes *)
(* that, and the second acquire of the same prepareFrame, for semaphoreA to*)
(* be signalled a second time.                                             *)
OneSignal ==
  [][/\ semaphoreA = 1 /\ pc' = "recreate" /\ pc # "recreate"
          => Clamp(cached, limits[chain.surface]) # cached
     /\ semaphoreA' = Undefined /\ semaphoreA # Undefined
          => pc = "reacquire" /\ result \in Good]_vars

(* The fence the next submission signals is not signalled yet, so that     *)
(* submitFrame waits for its own frame.                                    *)
FenceFresh == pc = "record" => ~fenceA

(* Whenever a pass is recorded, chain and depth image were made for one    *)
(* and the same polled size, and differ by no more than the limits the     *)
(* surface had when the chain was made.                                    *)
AttachmentsFit ==
  pc \in {"record", "fence"} => chain.extents = Clamp(attachment, limits[chain.surface])

(* Only an image of the present chain that acquire returned is presented,  *)
(* unless the acquire was refused and its answer not looked at.            *)
PresentsAcquired ==
  pc \in {"swap", "present"} /\ result \in Good => frame \in acquired

(* What the queue and the fence hold at each point of the program.         *)
QueueInv ==
  /\ pc \in {"prepare", "recreate", "attachments", "reacquire", "record",
             "swap", "present", "closed"} => gpu = <<>>
  /\ pc = "check" /\ caller = "prepareFrame" => gpu = <<>>
  /\ pc = "fence" => gpu \in {<<>>, <<"draw">>}
  /\ pc = "layout" => gpu \in {<<>>, <<"layout">>}
  /\ pc \in {"check", "events", "failed", "closing"} => gpu \in {<<>>, <<"present">>}
  /\ fenceA <=> (pc = "fence" /\ gpu = <<>>)

(* The depth image was made for the size the chain was made for.           *)
Fit == chain.extents = Clamp(attachment, limits[chain.surface])

(* The chain has the size polled last, as far as the surface allowed it.   *)
Current ==
  cached = chain.extents \/ chain.extents = Clamp(cached, limits[chain.surface])

Preparing == caller = "prepareFrame"

(* How chain and depth image fit each other and the size polled last.      *)
SizesInv ==
  /\ pc \notin {"attachments", "failed", "closing", "closed"} => Fit
  /\ pc = "attachments" => chain.extents = Clamp(cached, limits[chain.surface])
  /\ pc \in {"layout", "reacquire"} => Current
  /\ pc \in {"events", "prepare"} \/ (pc = "check" /\ Preparing) => Current

(* The images held after an acquire with that answer.                      *)
Held == IF result \in Good THEN {frame} ELSE {}

(* What the semaphores and the held images are at each point of the        *)
(* program.  A signal outlives its image only from the check that gives the*)
(* image up to the submission after the second acquire.                    *)
SignalInv ==
  /\ pc \in {"prepare", "attachments", "layout", "reacquire", "events"} => acquired = {}
  /\ pc \in {"record", "fence", "swap", "present"} => acquired = Held
  /\ pc = "check" => acquired = IF Preparing THEN Held ELSE {}
  /\ \/ pc \in {"prepare", "swap", "present", "events"}
     \/ pc = "fence" /\ gpu = <<>>
     \/ pc \in {"check", "recreate", "attachments", "layout"} /\ ~Preparing
     => semaphoreA # 1
  /\ pc \in {"check", "recreate", "attachments", "layout", "reacquire"}
     => (semaphoreA = 1 => result \in Good)
  /\ pc = "reacquire" => Preparing
  /\ \/ pc \in {"prepare", "recreate", "attachments", "layout", "reacquire", "record"}
     \/ pc = "check" /\ Preparing
     \/ pc = "fence" /\ gpu # <<>>
     => semaphoreB = 0
  /\ pc \in {"swap", "present"} \/ (pc = "fence" /\ gpu = <<>>) => semaphoreB = 1
  /\ pc = "events" \/ (pc = "check" /\ ~Preparing) => semaphoreB = Len(gpu)

(* "Prepares the graphics context for rendering a frame" (prepareFrame):   *)
(* frame is an image the program holds, and its semaphore will be          *)
(* signalled.                                                              *)
FramePrepared == pc = "record" => frame \in acquired /\ semaphoreA = 1

(* The program waits for a fence no submission will signal, as the second  *)
(* acquire was refused.                                                    *)
Hangs == pc = "fence" /\ result \notin Good

(* The loop comes round for ever or is closed, unless it hangs or          *)
(* semaphoreA is undefined.                                                *)
LoopGoesOn ==
  \/ []<>(pc = "prepare")
  \/ <>(pc = "closed")
  \/ <>[]Hangs
  \/ <>(semaphoreA = Undefined)

(* Once the window keeps a size its surface allows, the chain gets it and  *)
(* is not recreated any more, whether or not the driver reports the change,*)
(* with the same exceptions.                                               *)
Settles ==
  \A s \in Sizes :
    <>[](actual = s /\ Clamp(s, limits[s]) = s) =>
      \/ <>[](chain.extents = s /\ pc # "recreate")
      \/ <>(pc = "closed")
      \/ <>[]Hangs
      \/ <>(semaphoreA = Undefined)
=============================================================================
