-------------------------- MODULE FrameLoopProofs --------------------------
EXTENDS FrameLoop, TLAPS

(* The queue with at most one job.                                         *)
LEMMA OneJob ==
  ASSUME NEW j \in {"draw", "present", "layout"}
  PROVE  /\ Append(<<>>, j) = <<j>>
         /\ Head(<<j>>) = j /\ Tail(<<j>>) = <<>>
         /\ <<j>> # <<>> /\ Len(<<j>>) = 1 /\ Len(<<>>) = 0
OBVIOUS

(* A clamped size is a natural number.                                     *)
LEMMA ClampType ==
  ASSUME NEW c \in Surfaces, NEW n \in Sizes, NEW t \in Sizes
  PROVE  Clamp(n, c[t]) \in Nat
BY FrameLoopAssumption DEF Clamp

(* A new chain has the type of a chain.                                    *)
LEMMA ChainType ==
  ASSUME limits \in Surfaces, actual \in Sizes, NEW n \in Sizes
  PROVE  ChainFor(n) \in [extents : Nat, surface : Sizes, initialized : BOOLEAN]
BY ClampType DEF ChainFor

-----------------------------------------------------------------------------
(* Types *)

(* What acquire does to the variables it changes.                          *)
LEMMA AcquireType ==
  ASSUME TypeOK, acquire
  PROVE  /\ frame' \in Images /\ acquired' \subseteq Images
         /\ semaphoreA' \in 0 .. Undefined
         /\ result' \in DriverResults
BY DEF TypeOK, acquire, Signalled, Undefined, Answers, Good

(* The initial state is well typed.                                        *)
LEMMA InitTypeOK == Init => TypeOK
<1> SUFFICES ASSUME Init PROVE TypeOK
  OBVIOUS
<1>1. chain \in [extents : Nat, surface : Sizes, initialized : BOOLEAN]
  BY ChainType DEF Init
<1>2. attachment \in Nat /\ frame \in Images
  BY FrameLoopAssumption DEF Init, Images
<1>3. result \in DriverResults
  BY FrameLoopAssumption DEF Init
<1>4. gpu \in Seq({"draw", "present", "layout"})
  BY DEF Init
<1>5. limits \in Surfaces /\ actual \in Sizes /\ cached \in Sizes /\ fenceA \in BOOLEAN /\ acquired \subseteq Images
  BY DEF Init
<1>6. /\ semaphoreA \in 0 .. Undefined /\ semaphoreB \in 0 .. Undefined
      /\ pc \in Stages /\ caller \in {"prepareFrame", "swapBuffers"}
  BY DEF Init, Undefined, Stages
<1>7. QED
  BY <1>1, <1>2, <1>3, <1>4, <1>5, <1>6 DEF TypeOK

(* Every step keeps the types.                                             *)
LEMMA NextTypeOK == TypeOK /\ [Next]_vars => TypeOK'
<1> SUFFICES ASSUME TypeOK, [Next]_vars PROVE TypeOK'
  OBVIOUS
<1> USE DEF TypeOK, screen, window, buffers, sync, Stages
<1>1. CASE UNCHANGED vars
  BY <1>1 DEF vars
<1>2. CASE Resize
  BY <1>2 DEF Resize
<1>3. CASE Draw
  BY <1>3 DEF Draw, Signalled, Waited, Undefined
<1>4. CASE Present
  BY <1>4 DEF Present, Waited, Undefined
<1>5. CASE prepareFrame
  BY <1>5, AcquireType DEF prepareFrame
<1>6. CASE checkResize
  BY <1>6 DEF checkResize
<1>7. CASE keepSize
  BY <1>7 DEF keepSize
<1>8. CASE recreateChain
  <2>1. chain' \in [extents : Nat, surface : Sizes, initialized : BOOLEAN]
    BY <1>8, ChainType DEF recreateChain
  <2>2. QED
    BY <1>8, <2>1 DEF recreateChain
<1>9. CASE recreateAttachments
  <2>1. attachment' \in Nat
    BY <1>9, FrameLoopAssumption DEF recreateAttachments
  <2>2. gpu' \in Seq({"draw", "present", "layout"})
    BY <1>9 DEF recreateAttachments
  <2>3. QED
    BY <1>9, <2>1, <2>2 DEF recreateAttachments
<1>10. CASE reacquire
  BY <1>10, AcquireType DEF reacquire
<1>11. CASE submitFrame
  BY <1>11 DEF submitFrame
<1>12. CASE awaitFence
  BY <1>12 DEF awaitFence
<1>13. CASE pollSize
  BY <1>13 DEF pollSize
<1>14. CASE swapBuffers
  BY <1>14 DEF swapBuffers, Answers
<1>15. CASE endOfFrame
  BY <1>15 DEF endOfFrame
<1>16. CASE caught
  BY <1>16 DEF caught
<1>17. CASE destroy
  BY <1>17 DEF destroy
<1>18. CASE Layout
  BY <1>18 DEF Layout
<1>19. CASE awaitLayout
  BY <1>19 DEF awaitLayout
<1>20. QED
  BY <1>1, <1>2, <1>3, <1>4, <1>5, <1>6, <1>7, <1>8, <1>9, <1>10, <1>11,
     <1>12, <1>13, <1>14, <1>15, <1>16, <1>17, <1>18, <1>19
  DEF Next, Program, Gpu

(* Every variable keeps its type.                                          *)
THEOREM TypeCorrect == Spec => []TypeOK
BY InitTypeOK, NextTypeOK, PTL DEF Spec

-----------------------------------------------------------------------------
(* The queue and the fence *)

(* The initial state has an idle queue and an unsignalled fence.           *)
LEMMA InitQueueInv == Init => QueueInv
BY DEF Init, QueueInv

(* Every step keeps the queue's discipline.                                *)
LEMMA NextQueueInv == TypeOK /\ QueueInv /\ [Next]_vars => QueueInv'
<1> SUFFICES ASSUME TypeOK, QueueInv, [Next]_vars PROVE QueueInv'
  OBVIOUS
<1> USE OneJob DEF QueueInv, TypeOK, Stages, screen, window, buffers, sync
<1>1. CASE UNCHANGED vars
  BY <1>1 DEF vars
<1>2. CASE Resize
  BY <1>2 DEF Resize
<1>3. CASE Draw
  BY <1>3 DEF Draw
<1>4. CASE Present
  BY <1>4 DEF Present
<1>5. CASE prepareFrame
  BY <1>5 DEF prepareFrame
<1>6. CASE checkResize
  BY <1>6 DEF checkResize
<1>7. CASE keepSize
  BY <1>7 DEF keepSize
<1>8. CASE recreateChain
  BY <1>8 DEF recreateChain
<1>9. CASE recreateAttachments
  BY <1>9 DEF recreateAttachments
<1>10. CASE reacquire
  BY <1>10 DEF reacquire
<1>11. CASE submitFrame
  BY <1>11 DEF submitFrame
<1>12. CASE awaitFence
  BY <1>12 DEF awaitFence
<1>13. CASE pollSize
  BY <1>13 DEF pollSize
<1>14. CASE swapBuffers
  BY <1>14 DEF swapBuffers
<1>15. CASE endOfFrame
  BY <1>15 DEF endOfFrame
<1>16. CASE caught
  BY <1>16 DEF caught
<1>17. CASE destroy
  BY <1>17 DEF destroy
<1>18. CASE Layout
  BY <1>18 DEF Layout
<1>19. CASE awaitLayout
  BY <1>19 DEF awaitLayout
<1>20. QED
  BY <1>1, <1>2, <1>3, <1>4, <1>5, <1>6, <1>7, <1>8, <1>9, <1>10, <1>11,
     <1>12, <1>13, <1>14, <1>15, <1>16, <1>17, <1>18, <1>19
  DEF Next, Program, Gpu

(* The queue and the fence are where the program expects them, on every    *)
(* surface and with every driver.                                          *)
THEOREM QueueDiscipline == Spec => []QueueInv
BY InitTypeOK, NextTypeOK, InitQueueInv, NextQueueInv, PTL DEF Spec

(* Nothing is destroyed while the GPU uses it.                             *)
THEOREM NothingDestroyedInUse == Spec => []DestroysIdle
<1>1. QueueInv => DestroysIdle
  BY DEF QueueInv, DestroysIdle
<1>2. QED
  BY <1>1, QueueDiscipline, PTL

(* A submission never finds its fence signalled already.                   *)
THEOREM FenceAlwaysFresh == Spec => []FenceFresh
<1>1. QueueInv => FenceFresh
  BY DEF QueueInv, FenceFresh
<1>2. QED
  BY <1>1, QueueDiscipline, PTL

-----------------------------------------------------------------------------
(* The sizes of chain and depth image *)

(* The initial chain and depth image were made for the window's size.      *)
LEMMA InitSizesInv == Init => SizesInv
BY DEF Init, ChainFor, SizesInv, Fit, Current

(* Every step keeps the sizes together, however the surface clamps them.   *)
LEMMA NextSizesInv == TypeOK /\ SizesInv /\ [Next]_vars => SizesInv'
<1> SUFFICES ASSUME TypeOK, SizesInv, [Next]_vars PROVE SizesInv'
  OBVIOUS
<1> USE DEF SizesInv, Fit, Current, Preparing, TypeOK, Stages, screen, window, buffers, sync
<1>1. CASE UNCHANGED vars
  BY <1>1 DEF vars
<1>2. CASE Resize
  BY <1>2 DEF Resize
<1>3. CASE Draw
  BY <1>3 DEF Draw, Signalled, Waited, Undefined
<1>4. CASE Present
  BY <1>4 DEF Present, Signalled, Waited, Undefined
<1>5. CASE prepareFrame
  BY <1>5 DEF prepareFrame, acquire
<1>6. CASE checkResize
  BY <1>6 DEF checkResize, MustResize
<1>7. CASE keepSize
  BY <1>7 DEF keepSize, MustResize, Good
<1>8. CASE recreateChain
  BY <1>8 DEF recreateChain, ChainFor
<1>9. CASE recreateAttachments
  BY <1>9 DEF recreateAttachments
<1>10. CASE reacquire
  BY <1>10 DEF reacquire, acquire
<1>11. CASE submitFrame
  BY <1>11 DEF submitFrame
<1>12. CASE awaitFence
  BY <1>12 DEF awaitFence
<1>13. CASE pollSize
  BY <1>13 DEF pollSize
<1>14. CASE swapBuffers
  BY <1>14 DEF swapBuffers
<1>15. CASE endOfFrame
  BY <1>15 DEF endOfFrame
<1>16. CASE caught
  BY <1>16 DEF caught
<1>17. CASE destroy
  BY <1>17 DEF destroy
<1>18. CASE Layout
  BY <1>18 DEF Layout
<1>19. CASE awaitLayout
  BY <1>19 DEF awaitLayout
<1>20. QED
  BY <1>1, <1>2, <1>3, <1>4, <1>5, <1>6, <1>7, <1>8, <1>9, <1>10, <1>11,
     <1>12, <1>13, <1>14, <1>15, <1>16, <1>17, <1>18, <1>19
  DEF Next, Program, Gpu

-----------------------------------------------------------------------------
(* Semaphores and images *)

(* An acquire from nothing holds the image it was given, if any; it signals*)
(* semaphoreA only with an image.                                          *)
LEMMA AcquireFromNone ==
  ASSUME TypeOK, acquired = {}, acquire
  PROVE  /\ acquired' = Held'
         /\ semaphoreA # 1 => (semaphoreA' = 1 => result' \in Good)
BY DEF TypeOK, Held, acquire, Signalled, Undefined, Answers

(* The initial state holds nothing.                                        *)
LEMMA InitSignalInv == Init => SignalInv
BY DEF Init, SignalInv, Preparing

(* Every step accounts for its signals and images.                         *)
LEMMA NextSignalInv == TypeOK /\ QueueInv /\ SignalInv /\ [Next]_vars => SignalInv'
<1> SUFFICES ASSUME TypeOK, QueueInv, SignalInv, [Next]_vars
             PROVE  SignalInv'
  OBVIOUS
<1> USE OneJob DEF SignalInv, QueueInv, Held, Preparing, TypeOK, Stages, screen, window, buffers, sync
<1>1. CASE UNCHANGED vars
  BY <1>1 DEF vars
<1>2. CASE Resize
  BY <1>2 DEF Resize
<1>3. CASE Draw
  BY <1>3 DEF Draw, Signalled, Waited, Undefined
<1>4. CASE Present
  BY <1>4 DEF Present, Signalled, Waited, Undefined
<1>5. CASE prepareFrame
  BY <1>5, AcquireFromNone DEF prepareFrame
<1>6. CASE checkResize
  BY <1>6 DEF checkResize, MustResize
<1>7. CASE keepSize
  BY <1>7 DEF keepSize, MustResize, Good
<1>8. CASE recreateChain
  BY <1>8 DEF recreateChain, ChainFor
<1>9. CASE recreateAttachments
  BY <1>9 DEF recreateAttachments
<1>10. CASE reacquire
  BY <1>10, AcquireFromNone DEF reacquire
<1>11. CASE submitFrame
  BY <1>11 DEF submitFrame
<1>12. CASE awaitFence
  BY <1>12 DEF awaitFence
<1>13. CASE pollSize
  BY <1>13 DEF pollSize
<1>14. CASE swapBuffers
  BY <1>14 DEF swapBuffers
<1>15. CASE endOfFrame
  BY <1>15 DEF endOfFrame
<1>16. CASE caught
  BY <1>16 DEF caught
<1>17. CASE destroy
  BY <1>17 DEF destroy
<1>18. CASE Layout
  BY <1>18 DEF Layout
<1>19. CASE awaitLayout
  BY <1>19 DEF awaitLayout
<1>20. QED
  BY <1>1, <1>2, <1>3, <1>4, <1>5, <1>6, <1>7, <1>8, <1>9, <1>10, <1>11,
     <1>12, <1>13, <1>14, <1>15, <1>16, <1>17, <1>18, <1>19
  DEF Next, Program, Gpu

(* Chain, depth image and polled size are where the program expects them,  *)
(* whatever the surface allows and however the window is resized.          *)
THEOREM SizesAccounted == Spec => []SizesInv
BY InitTypeOK, NextTypeOK, InitSizesInv, NextSizesInv, PTL DEF Spec

(* Signals and images are accounted for, whatever the surface allows, the  *)
(* driver answers and the user does to the window.                         *)
THEOREM SignalsAccounted == Spec => []SignalInv
BY InitTypeOK, NextTypeOK, InitQueueInv, NextQueueInv, InitSignalInv, NextSignalInv,
   PTL DEF Spec

(* A frame leaves no signal, job or image behind.                          *)
THEOREM FramesBalanced == Spec => []SemaphoresBalanced
<1>1. QueueInv /\ SignalInv => SemaphoresBalanced
  BY DEF QueueInv, SignalInv, SemaphoresBalanced
<1>2. QED
  BY <1>1, QueueDiscipline, SignalsAccounted, PTL

(* An image is given up only where the surface had not allowed the polled  *)
(* size, and semaphoreA is signalled twice only by the acquire after that. *)
THEOREM SignalledTwiceOnlyIfClamped == Spec => OneSignal
<1> DEFINE Step ==
      /\ semaphoreA = 1 /\ pc' = "recreate" /\ pc # "recreate"
           => Clamp(cached, limits[chain.surface]) # cached
      /\ semaphoreA' = Undefined /\ semaphoreA # Undefined
           => pc = "reacquire" /\ result \in Good
<1>1. TypeOK /\ QueueInv /\ SizesInv /\ SignalInv /\ [Next]_vars => [Step]_vars
  <2> SUFFICES ASSUME TypeOK, QueueInv, SizesInv, SignalInv, Next PROVE Step
    OBVIOUS
  <2> USE DEF SignalInv, Preparing, TypeOK, Undefined, screen, window, buffers, sync
  <2>1. CASE Resize
    BY <2>1 DEF Resize
  <2>2. CASE Draw
    BY <2>2 DEF Draw, Signalled, Waited
  <2>3. CASE Present
    BY <2>3 DEF Present, Signalled, Waited
  <2>4. CASE prepareFrame
    BY <2>4 DEF prepareFrame, acquire, Signalled
  <2>5. CASE checkResize
    BY <2>5 DEF checkResize, MustResize, SizesInv, Current, Fit, Good
  <2>6. CASE keepSize
    BY <2>6 DEF keepSize, MustResize, Good
  <2>7. CASE recreateChain
    BY <2>7 DEF recreateChain, ChainFor
  <2>8. CASE recreateAttachments
    BY <2>8 DEF recreateAttachments
  <2>9. CASE reacquire
    BY <2>9 DEF reacquire, acquire, Signalled
  <2>10. CASE submitFrame
    BY <2>10 DEF submitFrame
  <2>11. CASE awaitFence
    BY <2>11 DEF awaitFence
  <2>12. CASE pollSize
    BY <2>12 DEF pollSize
  <2>13. CASE swapBuffers
    BY <2>13 DEF swapBuffers
  <2>14. CASE endOfFrame
    BY <2>14 DEF endOfFrame
  <2>15. CASE caught
    BY <2>15 DEF caught
  <2>16. CASE destroy
    BY <2>16 DEF destroy
  <2>17. CASE Layout
    BY <2>17 DEF Layout
  <2>18. CASE awaitLayout
    BY <2>18 DEF awaitLayout
  <2>19. QED
    BY <2>1, <2>2, <2>3, <2>4, <2>5, <2>6, <2>7, <2>8, <2>9,
       <2>10, <2>11, <2>12, <2>13, <2>14, <2>15, <2>16, <2>17, <2>18
    DEF Next, Program, Gpu
<1>2. QED
  BY <1>1, TypeCorrect, QueueDiscipline, SizesAccounted, SignalsAccounted, PTL DEF Spec, OneSignal

(* A pass is recorded over a chain and a depth image made for one size.    *)
THEOREM AttachmentsAlwaysFit == Spec => []AttachmentsFit
<1>1. SizesInv => AttachmentsFit
  BY DEF SizesInv, Fit, AttachmentsFit
<1>2. QED
  BY <1>1, SizesAccounted, PTL

(* Only images the program holds are presented, where the acquire was      *)
(* granted.                                                                *)
THEOREM PresentsOnlyAcquired == Spec => []PresentsAcquired
<1>1. SignalInv => PresentsAcquired
  BY DEF SignalInv, Held, PresentsAcquired
<1>2. QED
  BY <1>1, SignalsAccounted, PTL
=============================================================================
