------------------------------- MODULE LLMStream -------------------------------
(***************************************************************************)
(* One answer of an LLM provider on its way to the client                  *)
(* (llm/openai_compat.go, llm/anthropic_provider.go, and their readers     *)
(* handler/ai_handler.go, service/ai_agent_service.go,                     *)
(* queue/ai_job_handler.go).                                               *)
(*                                                                         *)
(* ChatStream starts a goroutine that reads the provider's lines and sends *)
(* chunks into a buffered channel; the handler, the agent or the job       *)
(* receives them.  The two meet in the channel only: each may end first.   *)
(* Chat has no stream: it asks again until it has an answer.               *)
(***************************************************************************)
EXTENDS Naturals, Sequences

CONSTANTS Buffer,      \* capacity of the channel: 64
          MaxRetries,  \* of Chat: 3
          MaxTasks,    \* asynq's retries of a job: 2
          MaxLines     \* bound: lines of one answer

ASSUME StreamAssumption ==
  {Buffer, MaxRetries, MaxTasks, MaxLines} \subseteq Nat \ {0}

Provider == {"openai", "anthropic"}
Http == {"sse", "sync", "agent"}        \* answers to a request
Task == {"job", "chat"}                 \* results of an AI job
Line == {"text", "last", "stop", "error", "other"}
Outcome == {"answer", "refused", "busy", "unreachable"}

VARIABLES provider, kind,
          cancelled, \* the request's context has ended (client gone)
          expired,   \* the timeout of the stream's context has passed
          reader,    \* the goroutine: chunks it still has to send
          ch,        \* the channel
          consumer,  \* who ranges over it
          asked,     \* attempts of Chat
          stored,    \* ai:result:<job> in Redis
          retried,   \* runs of the job that were given up
          \* history variables
          lines,     \* lines read
          texts,     \* of them with text, while the context was alive
          got,       \* chunks of text received
          cut,       \* the stream ended without the provider's mark
          last,      \* the outcome of the last attempt
          lost       \* a result that was not stored, or a job given up

stream == <<reader, ch, consumer, lines, texts, got, cut>>
chat == <<asked, last>>
result == <<stored, lost>>
StreamVars == <<provider, kind, cancelled, expired, stream, chat, result, retried>>

Ended == [at |-> "ended", out |-> <<>>, returns |-> TRUE]
Scanning == [at |-> "scan", out |-> <<>>, returns |-> FALSE]
NoReader == [at |-> "none", out |-> <<>>, returns |-> FALSE]

StreamTypeOK ==
  /\ provider \in Provider /\ kind \in Http \union Task
  /\ {cancelled, expired, cut, lost} \subseteq BOOLEAN
  /\ reader.at \in {"none", "scan", "send", "ended"}
  /\ Len(reader.out) <= 2 /\ Len(ch) <= Buffer
  /\ reader.at # "send" => reader.out = <<>>
  /\ consumer \in {"start", "receive", "done", "error", "left", "over"}
  /\ asked \in 0..MaxRetries + 1 /\ last \in Outcome \union {"none"}
  /\ stored \in {"none", "streaming", "completed", "error"}
  /\ retried \in 0..MaxTasks
  /\ lines \in 0..MaxLines /\ got \in 0..texts /\ texts <= lines

StreamInit ==
  /\ provider \in Provider /\ kind \in Http \union Task
  /\ cancelled = FALSE /\ expired = FALSE
  /\ reader = NoReader /\ ch = <<>> /\ consumer = "start"
  /\ asked = 0 /\ stored = "none" /\ retried = 0
  /\ lines = 0 /\ texts = 0 /\ got = 0 /\ cut = FALSE /\ last = "none" /\ lost = FALSE

StreamDone == cancelled \/ expired
Waiting == consumer \in {"start", "receive"}

-----------------------------------------------------------------------------
(***************************************************************************)
(* The goroutine of ChatStream.                                            *)
(***************************************************************************)
\* Mutant: a finish_reason hides the text of its line.
OpenAIChunksStopFirst(line) ==
  CASE line = "text" -> <<"content">>
    [] line \in {"last", "stop"} -> <<"done">>
    [] OTHER -> <<>>

\* [DONE] or finish_reason "stop", with or without a text; an error in the
\* stream has no choices and is passed over.
OpenAIChunks(line) ==
  CASE line = "text" -> <<"content">>
    [] line = "last" -> <<"content", "done">>
    [] line = "stop" -> <<"done">>
    [] OTHER         -> <<>>

\* The text of content_block_delta is looked for one level too deep: none is
\* ever found.
AnthropicChunks(line) ==
  CASE line = "stop"  -> <<"done">>
    [] line = "error" -> <<"error">>
    [] OTHER          -> <<>>

Chunks(line) == IF provider = "openai" THEN OpenAIChunks(line) ELSE AnthropicChunks(line)

\* Mutant: the goroutine reads on after an error.
ReturnsOnDone(line) == \E i \in DOMAIN Chunks(line) : Chunks(line)[i] = "done"

\* The goroutine returns once these chunks are sent.
Returns(line) == \E i \in DOMAIN Chunks(line) : Chunks(line)[i] \in {"done", "error"}

\* A job's result is written after every chunk; errors of SET are logged.
storeResult(status) ==
  IF kind \notin Task THEN UNCHANGED result
  ELSE \/ stored' = status /\ UNCHANGED lost
       \/ lost' = TRUE /\ UNCHANGED stored

\* 200 from the provider, or an error that is answered at once.
ChatStream ==
  /\ kind # "chat" /\ consumer = "start"
  /\ \/ reader' = Scanning /\ consumer' = "receive" /\ UNCHANGED result
     \/ /\ consumer' = "error" /\ UNCHANGED reader
        /\ storeResult("error")
  /\ UNCHANGED <<provider, kind, cancelled, expired, ch, lines, texts, got, cut, chat, retried>>

\* One line, unless the context has ended by the time it is there.
ScanLine(line) ==
  /\ reader.at = "scan" /\ lines < MaxLines
  /\ lines' = lines + 1
  /\ IF StreamDone
     THEN reader' = Ended /\ cut' = TRUE /\ UNCHANGED texts
     ELSE /\ texts' = IF line \in {"text", "last"} THEN texts + 1 ELSE texts
          /\ reader' = [at |-> IF Chunks(line) = <<>> THEN "scan" ELSE "send",
                        out |-> Chunks(line), returns |-> Returns(line)]
          /\ UNCHANGED cut
  /\ UNCHANGED <<provider, kind, cancelled, expired, ch, consumer, got, chat, result, retried>>

\* The body ends, or reading it fails; the failure is reported if the context is
\* still alive.
ScanEnds(failed) ==
  /\ reader.at = "scan"
  /\ IF failed /\ ~StreamDone
     THEN reader' = [at |-> "send", out |-> <<"error">>, returns |-> TRUE] /\ UNCHANGED cut
     ELSE reader' = Ended /\ cut' = TRUE
  /\ UNCHANGED <<provider, kind, cancelled, expired, ch, consumer, lines, texts, got, chat, result, retried>>

\* ch <- chunk, which waits for room and for nothing else.  At its end the
\* goroutine closes the channel.
SendChunk ==
  /\ reader.at = "send" /\ Len(ch) < Buffer
  /\ ch' = Append(ch, Head(reader.out))
  /\ reader' = IF Len(reader.out) > 1 THEN [reader EXCEPT !.out = Tail(@)]
               ELSE IF reader.returns THEN Ended ELSE Scanning
  /\ UNCHANGED <<provider, kind, cancelled, expired, consumer, lines, texts, got, cut, chat, result, retried>>

-----------------------------------------------------------------------------
(***************************************************************************)
(* The consumers.                                                          *)
(***************************************************************************)
\* handleStream, handleNonStream and ExecuteAction stop at Done; the job does not.
ReceiveChunk ==
  /\ consumer = "receive" /\ ch # <<>>
  /\ ch' = Tail(ch)
  /\ CASE Head(ch) = "content" ->
            got' = got + 1 /\ storeResult("streaming") /\ UNCHANGED consumer
       [] Head(ch) = "done" ->
            /\ UNCHANGED got
            /\ storeResult("streaming")
            /\ consumer' = IF kind = "job" THEN consumer ELSE "done"
       [] OTHER -> consumer' = "error" /\ storeResult("error") /\ UNCHANGED got
  /\ UNCHANGED <<provider, kind, cancelled, expired, reader, lines, texts, cut, chat, retried>>

\* Mutant: nobody looks whether the channel is closed.
ChannelClosedUnseen ==
  /\ consumer = "receive" /\ ch = <<>> /\ reader = Ended /\ ~cut
  /\ consumer' = "done"
  /\ storeResult("completed")
  /\ UNCHANGED <<provider, kind, cancelled, expired, reader, ch, lines, texts, got, cut, chat, retried>>

\* The channel is closed and empty: whatever was received is the answer.
ChannelClosed ==
  /\ consumer = "receive" /\ ch = <<>> /\ reader = Ended
  /\ consumer' = "done"
  /\ storeResult("completed")
  /\ UNCHANGED <<provider, kind, cancelled, expired, reader, ch, lines, texts, got, cut, chat, retried>>

\* Only handleStream watches the request's context.
ClientSeenGone ==
  /\ kind = "sse" /\ consumer = "receive" /\ cancelled
  /\ consumer' = "left"
  /\ UNCHANGED <<provider, kind, cancelled, expired, reader, ch, lines, texts, got, cut, chat, result, retried>>

-----------------------------------------------------------------------------
(***************************************************************************)
(* Chat: attempts until one is final.                                      *)
(***************************************************************************)
\* 429, 502, 503, 504, a network error, and a body that cannot be read.
isRetriable(outcome) == outcome \in {"busy", "unreachable"}

\* Mutant: one attempt too few is made.
AttemptsLeftOff(n) == n < MaxRetries

AttemptsLeft(n) == n < MaxRetries + 1

\* The context may also end while an attempt or the delay before it is waited for.
Attempt(outcome) ==
  /\ kind = "chat" /\ consumer = "start" /\ ~StreamDone
  /\ asked' = asked + 1 /\ last' = outcome
  /\ IF isRetriable(outcome) /\ AttemptsLeft(asked + 1) THEN UNCHANGED <<consumer, result>>
     ELSE /\ consumer' = IF outcome = "answer" THEN "done" ELSE "error"
          /\ storeResult(IF outcome = "answer" THEN "completed" ELSE "error")
  /\ UNCHANGED <<provider, kind, cancelled, expired, reader, ch, lines, texts, got, cut, retried>>

ChatGivesUp ==
  /\ kind = "chat" /\ consumer = "start" /\ StreamDone
  /\ consumer' = "error"
  /\ storeResult("error")
  /\ UNCHANGED <<provider, kind, cancelled, expired, reader, ch, lines, texts, got, cut, chat, retried>>

-----------------------------------------------------------------------------
(***************************************************************************)
(* Contexts and workers.                                                   *)
(***************************************************************************)
ClientDisconnects ==
  /\ kind \in Http /\ Waiting /\ ~cancelled
  /\ cancelled' = TRUE
  /\ UNCHANGED <<provider, kind, expired, stream, chat, result, retried>>

TimeoutPasses ==
  /\ ~expired /\ (reader.at \in {"scan", "send"} \/ (kind = "chat" /\ Waiting))
  /\ expired' = TRUE
  /\ UNCHANGED <<provider, kind, cancelled, stream, chat, result, retried>>

\* asynq (external): the worker died, or the task's own timeout passed, before
\* the handler returned.
TaskGivenUp ==
  /\ kind \in Task /\ consumer \in {"start", "receive", "done", "error"}
  /\ IF retried < MaxTasks
     THEN /\ retried' = retried + 1 /\ consumer' = "start" /\ UNCHANGED lost
          /\ cancelled' = FALSE /\ expired' = FALSE /\ reader' = NoReader /\ ch' = <<>>
          /\ asked' = 0 /\ last' = "none" /\ cut' = FALSE
          /\ lines' = 0 /\ texts' = 0 /\ got' = 0
     ELSE /\ lost' = TRUE /\ consumer' = "over" /\ reader' = Ended /\ ch' = <<>>
          /\ UNCHANGED <<retried, cancelled, expired, chat, lines, texts, got, cut>>
  /\ UNCHANGED <<provider, kind, stored>>

\* The handler returned and asynq took note of it.
TaskOver ==
  /\ kind \in Task /\ consumer \in {"done", "error"}
  /\ consumer' = "over"
  /\ UNCHANGED <<provider, kind, cancelled, expired, reader, ch, lines, texts, got, cut, chat, result, retried>>

Consume == ReceiveChunk \/ ChannelClosed \/ ClientSeenGone \/ ChatStream \/ ChatGivesUp

StreamNext ==
  \/ Consume \/ SendChunk \/ TaskGivenUp \/ TaskOver
  \/ \E line \in Line : ScanLine(line)
  \/ \E failed \in BOOLEAN : ScanEnds(failed)
  \/ \E outcome \in Outcome : Attempt(outcome)
  \/ ClientDisconnects \/ TimeoutPasses

StreamSpec == StreamInit /\ [][StreamNext]_StreamVars

\* Goroutines run, timeouts pass, and reading ends once the context has.  The
\* provider may stay silent for ever.
StreamFairSpec ==
  /\ StreamSpec
  /\ WF_StreamVars(Consume) /\ WF_StreamVars(SendChunk)
  /\ WF_StreamVars(TimeoutPasses) /\ WF_StreamVars(TaskOver)
  /\ WF_StreamVars(StreamDone /\ ScanEnds(TRUE))

-----------------------------------------------------------------------------
(***************************************************************************)
(* Properties                                                              *)
(***************************************************************************)
\* An answer of an OpenAI-compatible provider that is given as complete holds
\* every text that was read, unless the stream ended without the provider's
\* mark: then a part of it is given as complete.
DoneMeansWhole ==
  provider = "openai" /\ consumer = "done" /\ kind # "chat" => got = texts \/ cut

\* Chat asks at most MaxRetries + 1 times, and gives up only on an error that is
\* final, at its last attempt, or at the end of its context.
RetriesUsedUp ==
  /\ asked <= MaxRetries + 1
  /\ kind = "chat" /\ consumer = "error" =>
       last = "refused" \/ asked = MaxRetries + 1 \/ StreamDone

\* Every request ends: with an answer, an error, or a client that left, also when
\* the provider falls silent in the middle of a stream.
RequestEnds == consumer = "receive" ~> consumer # "receive"

\* The goroutine waits for room in the channel, and nobody reads it any more.
Abandoned == reader.at = "send" /\ Len(ch) = Buffer /\ consumer = "left"

\* The goroutine ends, and with it its connection to the provider.  The one
\* exception is a client that leaves a stream while the channel is full.
ReaderEnds == reader.at # "none" ~> reader.at \in {"ended", "none"} \/ Abandoned

\* A job leaves a final result, unless a write to Redis failed or asynq gave up.
JobStored ==
  kind \in Task ~> stored \in {"completed", "error"} \/ lost
=============================================================================
