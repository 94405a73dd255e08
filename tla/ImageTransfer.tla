--------------------------- MODULE ImageTransfer ---------------------------
(***************************************************************************)
(* Fetching the image of one target: the `i` key and handle_request_image  *)
(* on the nodes that have an image, handle_image_shard (bin handlers.rs)   *)
(* and the ImageCache (app image_cache.rs) on the node that asked.         *)
(*                                                                         *)
(* Shards are unicast over the mesh or broadcast: any copy may be lost,    *)
(* repeated or reordered.  rx_loop runs one task per shard; the cache is   *)
(* updated under its mutex, the display later under the lock of AppState.  *)
(*                                                                         *)
(* handle_request_image sends every chunk as a block of its own with       *)
(* index 0 and k = n = 1, so a block's bucket holds one shard and is       *)
(* assembled by it.  Content is abstracted to the node it comes from.      *)
(***************************************************************************)
EXTENDS Integers, Sequences, SequencesExt, FiniteSets

CONSTANTS
    Responders,   \* the nodes that hear a request
    Blocks,       \* Blocks[r]: chunks of r's encoded image, at most 255
    MaxRequests,  \* bound: presses of `i`
    MaxTasks      \* bound: shards received

ASSUME ImageConstants ==
    /\ Blocks \in [Responders -> 1 .. 255]
    /\ MaxRequests \in Nat /\ MaxTasks \in Nat

VARIABLES
    requests,               \* requests sent so far
    serving,                \* serving[r][q]: chunks r has sent for request q, -1 before
    air,                    \* shards sent so far
    tasks,                  \* handler tasks that have not ended
    total_blocks_expected,  \* blocks of the image, 0 while absent
    assembled_blocks,       \* block id -> where its data comes from
    complete,               \* the image put together, <<>> while absent
    decoding,               \* decode tasks spawned and not finished
    image,                  \* app.image, <<>> for None
    image_rx,               \* app.image_rx, <<>> for None
    arrived,                \* shards received so far
    sources,                \* history: nodes whose shards were inserted
    completions             \* history: how often insert_shard returned true

cacheVars == <<total_blocks_expected, assembled_blocks, complete>>
histVars == <<arrived, sources, completions>>
imageVars == <<requests, serving, air, tasks, cacheVars, decoding, image, image_rx, histVars>>

Requests == 1 .. MaxRequests

ImageInit ==
    /\ requests = 0
    /\ serving = [r \in Responders |-> [q \in Requests |-> -1]]
    /\ air = {}
    /\ tasks = <<>>
    /\ total_blocks_expected = 0
    /\ assembled_blocks = [b \in {} |-> 0]
    /\ complete = <<>>
    /\ decoding = 0
    /\ image = <<>>
    /\ image_rx = <<>>
    /\ arrived = 0
    /\ sources = {}
    /\ completions = 0

---------------------------------------------------------------------------
(* Request and response *)

\* The key `i` for a target another node, or no node, is assigned to.
PressI ==
    /\ requests < MaxRequests
    /\ requests' = requests + 1
    /\ UNCHANGED <<serving, air, tasks, cacheVars, decoding, image, image_rx, histVars>>

Ready(r, q) == q <= requests /\ serving[r][q] = -1

\* No image to serve, or it cannot be encoded.
DeclineRequest(r, q) ==
    /\ Ready(r, q)
    /\ serving' = [serving EXCEPT ![r][q] = Blocks[r]]
    /\ UNCHANGED <<requests, air, tasks, cacheVars, decoding, image, image_rx, histVars>>

EncodeImage(r, q) ==
    /\ Ready(r, q)
    /\ serving' = [serving EXCEPT ![r][q] = 0]
    /\ UNCHANGED <<requests, air, tasks, cacheVars, decoding, image, image_rx, histVars>>

\* Chunk b of r's image.
Shard(r, b) == [from |-> r, total_blocks |-> Blocks[r], block_id |-> b]

\* One turn of the loop over the chunks; it suspends between bursts.
SendShard(r, q) ==
    /\ serving[r][q] \in 0 .. Blocks[r] - 1
    /\ air' = air \cup {Shard(r, serving[r][q])}
    /\ serving' = [serving EXCEPT ![r][q] = @ + 1]
    /\ UNCHANGED <<requests, tasks, cacheVars, decoding, image, image_rx, histVars>>

\* rx_loop: a copy arrives and gets a task.
RxShard ==
    /\ arrived < MaxTasks
    /\ arrived' = arrived + 1
    /\ \E s \in air :
           tasks' = Append(tasks, [shard |-> s, at |-> "spawned",
                                   completed |-> FALSE, blocks_done |-> 0])
    /\ UNCHANGED <<requests, serving, air, cacheVars, decoding, image, image_rx,
                   sources, completions>>

---------------------------------------------------------------------------
(* insert_shard *)

\* The first shard of a multi-block image fixes the number of blocks.
ExpectedAfter(s) ==
    IF s.total_blocks > 1 /\ total_blocks_expected = 0
    THEN s.total_blocks ELSE total_blocks_expected

\* The first data to arrive for a block is kept.
AssembledAfter(s) ==
    [b \in DOMAIN assembled_blocks \cup {s.block_id} |->
        IF b \in DOMAIN assembled_blocks THEN assembled_blocks[b] ELSE s.from]

\* Deviation: the last block is not waited for.
AllDoneButLast(expected, blocks) == \A b \in 0 .. expected - 2 : b \in DOMAIN blocks

\* Deviation: one block too many is waited for.
AllDoneAndOne(expected, blocks) == \A b \in 0 .. expected : b \in DOMAIN blocks

AllDone(expected, blocks) == \A b \in 0 .. expected - 1 : b \in DOMAIN blocks

\* Deviation: an image that is complete is completed again.
CompletesAgain(s) ==
    \/ ExpectedAfter(s) <= 1
    \/ AllDone(ExpectedAfter(s), AssembledAfter(s))

\* Does this shard complete the image?  Without a block count any block does.
Completes(s) ==
    /\ complete = <<>>
    /\ \/ ExpectedAfter(s) <= 1
       \/ AllDone(ExpectedAfter(s), AssembledAfter(s))

\* Data in block order, restricted to the blocks present.
PutTogether(s) ==
    IF ExpectedAfter(s) <= 1
    THEN <<<<AssembledAfter(s)[s.block_id], s.block_id>>>>
    ELSE [i \in 1 .. ExpectedAfter(s) |->
             <<IF i - 1 \in DOMAIN AssembledAfter(s)
               THEN AssembledAfter(s)[i - 1] ELSE "missing", i - 1>>]

\* blocks_assembled: a missing block count stands for one block.
BlocksAssembled(s) ==
    LET expected == IF ExpectedAfter(s) = 0 THEN 1 ELSE ExpectedAfter(s)
    IN  Cardinality({b \in 0 .. expected - 1 : b \in DOMAIN AssembledAfter(s)})

---------------------------------------------------------------------------
(* handle_image_shard *)

\* First half: insert_shard and blocks_assembled under the cache's mutex.
InsertShard(i) ==
    LET s == tasks[i].shard
    IN  /\ tasks[i].at = "spawned"
        /\ total_blocks_expected' = ExpectedAfter(s)
        /\ assembled_blocks' = AssembledAfter(s)
        /\ complete' = IF Completes(s) THEN PutTogether(s) ELSE complete
        /\ tasks' = [tasks EXCEPT ![i].at = "inserted",
                                  ![i].completed = Completes(s),
                                  ![i].blocks_done = BlocksAssembled(s)]
        /\ sources' = sources \cup {s.from}
        /\ completions' = completions + (IF Completes(s) THEN 1 ELSE 0)
        /\ UNCHANGED <<requests, serving, air, decoding, image, image_rx, arrived>>

\* Second half, when the image is complete: its decoding is spawned.
SpawnDecode(i) ==
    /\ tasks[i].at = "inserted"
    /\ tasks[i].completed
    /\ tasks' = RemoveAt(tasks, i)
    /\ decoding' = decoding + 1
    /\ UNCHANGED <<requests, serving, air, cacheVars, image, image_rx, histVars>>

\* Second half otherwise: the progress is displayed.
ShowProgress(i) ==
    /\ tasks[i].at = "inserted"
    /\ ~tasks[i].completed
    /\ tasks' = RemoveAt(tasks, i)
    /\ image_rx' = <<tasks[i].blocks_done, tasks[i].shard.total_blocks>>
    /\ UNCHANGED <<requests, serving, air, cacheVars, decoding, image, histVars>>

\* The decode task ends: the image replaces the progress.  If the bytes are no
\* JPEG they are displayed raw.
ShowImage ==
    /\ decoding > 0
    /\ decoding' = decoding - 1
    /\ image' = complete
    /\ image_rx' = <<>>
    /\ UNCHANGED <<requests, serving, air, tasks, cacheVars, histVars>>

HandleImageShard(i) == InsertShard(i) \/ SpawnDecode(i) \/ ShowProgress(i)

ImageNext ==
    \/ PressI
    \/ \E r \in Responders, q \in Requests :
           DeclineRequest(r, q) \/ EncodeImage(r, q) \/ SendShard(r, q)
    \/ RxShard
    \/ \E i \in 1 .. Len(tasks) : HandleImageShard(i)
    \/ ShowImage

\* A spawned task runs to its end.
Fairness ==
    /\ \A i \in 1 .. MaxTasks : WF_imageVars(i <= Len(tasks) /\ HandleImageShard(i))
    /\ WF_imageVars(ShowImage)

ImageSpec == ImageInit /\ [][ImageNext]_imageVars /\ Fairness

---------------------------------------------------------------------------
(* Properties *)

\* The image of r: all its chunks, in order.
ImageOf(r) == [i \in 1 .. Blocks[r] |-> <<r, i - 1>>]

\* insert_shard "returns true if the image for target_id is now complete":
\* whatever shards arrive again or late, one image is decoded once.
CompletedOnce == completions <= 1

\* "The receiver reassembles and displays the image": what is displayed has as
\* many chunks as one of the images sent, each in its place and none missing,
\* and is the image of the node that answered if only one did.  When several
\* answer, insert_shard keeps the first chunk to arrive for each place.
ShownIsSent ==
    image # <<>> =>
        /\ \E r \in Responders : Len(image) = Blocks[r]
        /\ \A i \in 1 .. Len(image) : image[i] \in sources \X {i - 1}
        /\ \A r \in Responders : sources = {r} => image = ImageOf(r)

\* Once a chunk has been inserted for every place of the image expected, the
\* image is displayed, however the tasks interleave.
EventuallyShown ==
    /\ total_blocks_expected > 0
    /\ 0 .. total_blocks_expected - 1 \subseteq DOMAIN assembled_blocks
    ~> image # <<>>
============================================================================
