------------------------------ MODULE ChunkStream ------------------------------
(***************************************************************************)
(* What a model client promises to its caller (StreamChunk of              *)
(* api/llm/client.go): increments in order, then one final chunk, then the *)
(* end of the channel. ModelStream implements it; ModelRound is built upon *)
(* it.                                                                     *)
(***************************************************************************)
EXTENDS Sequences

CONSTANTS
  Deltas,   \* increments of reasoning and text
  Finals    \* final chunks: an answer, an error, a cancellation

VARIABLES
  chunks,   \* what the client has put into the channel
  closed

chunkVars == <<chunks, closed>>

HasFinal == chunks # <<>> /\ chunks[Len(chunks)] \in Finals

ChunkInit == chunks = <<>> /\ closed = FALSE

Put(chunk) ==
  /\ ~closed /\ ~HasFinal
  /\ chunks' = Append(chunks, chunk) /\ UNCHANGED closed

CloseChannel == ~closed /\ HasFinal /\ closed' = TRUE /\ UNCHANGED chunks

ChunkNext == (\E chunk \in Deltas \cup Finals : Put(chunk)) \/ CloseChannel

ChunkSpec == ChunkInit /\ [][ChunkNext]_chunkVars
=============================================================================
