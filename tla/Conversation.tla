---------------------------- MODULE Conversation ----------------------------
(***************************************************************************)
(* A conversation through AnthropicAdapter (app/multi_provider.py) and     *)
(* StreamAccumulator (app/main.py).  The client, which speaks the OpenAI   *)
(* shape, builds a payload; prepare_request turns it into Anthropic blocks *)
(* or refuses it; the reply comes as events that translate_stream turns    *)
(* into chunks one by one, with what earlier events left it, and the       *)
(* accumulator puts the chunks together again for the log and the usage.   *)
(* The client appends the message it received and goes on.                 *)
(*                                                                         *)
(* The provider is external: it sends its blocks one after another, may    *)
(* fail and may stop anywhere, within the arguments of a call too.  A text *)
(* is the sequence of the fragments it was sent in, each the triple of its *)
(* message, its block and its place; an image is a text of its source.     *)
(* Roles and part types that behave alike are one value.                   *)
(***************************************************************************)
EXTENDS Integers, Sequences, SequencesExt, FiniteSets

CONSTANTS
  Null,          \* None: a missing value
  Said,          \* the messages a client may write, see Write
  MaxMessages, MaxReplies, MaxBlocks, MaxParts,   \* bounds
  Counts,        \* token counts the provider may report
  MaxTokens,     \* values of max_tokens, 0 where absent
  PartSize,      \* characters of a fragment
  Whole          \* fragments of the whole arguments of a call

\* The roles and types of parts that prepare_request tells apart, those it
\* refuses as one of each; the client writes any message but the replies.
Roles == {"system", "user", "assistant", "tool", "other"}
PartTypes == {"text", "image", "bare", "unsupported"}  \* bare: no object

\* Why a reply ends, for Anthropic and for OpenAI.
Reasons == {"end_turn", "max_tokens", "tool_use", "refusal"}
Finishes == {"stop", "length", "tool_calls", "refusal"}

ASSUME SizesAssumption ==
  PartSize \in Nat \ {0} /\ Whole \in Nat \ {0} /\ MaxTokens \subseteq Nat /\ Counts \subseteq Nat
ASSUME BoundsAssumption == MaxMessages \in Nat /\ MaxBlocks \in Nat /\ MaxParts \in Nat
ASSUME SaidAssumption ==
  \A said \in Said : said.role \in Roles \ {"assistant"} /\ said.types \in Seq(PartTypes)
\* What is missing is no number, no reason, no id of a call, no fragment, no text
\* and no content, which is a sequence of parts.
Fragment == Nat \X Nat \X Nat
Parts == [type : PartTypes, text : Seq(Fragment)]
ASSUME NullAssumption ==
  /\ Null \notin Nat /\ Null \notin Reasons \cup Finishes
  /\ Null \notin Nat \X Nat /\ Null \notin Fragment
  /\ Null \notin Seq(Fragment) /\ Null \notin Seq(Parts)

VARIABLES
  payload,       \* the messages of the client
  maxTokens,     \* of the call in progress
  phase,         \* "writing", "replying", "over" or "interrupted"
  reply,         \* external: what the provider has sent of its reply
  translator,    \* translate_stream: input_tokens and tool_indexes
  accumulator    \* StreamAccumulator

exchange == <<reply, translator, accumulator>>
vars == <<payload, maxTokens, phase, exchange>>

NoReply == [started |-> FALSE, input |-> Null, blocks |-> <<>>, reason |-> Null,
            output |-> Null, error |-> FALSE]
NewTranslator == [input |-> Null, tools |-> <<>>]
NewAccumulator == [content |-> <<>>, reasoning |-> <<>>, calls |-> <<>>, finish |-> Null,
                   prompt |-> Null, completion |-> Null, total |-> Null, error |-> FALSE]

-----------------------------------------------------------------------------
(* prepare_request: OpenAI messages to Anthropic blocks.                   *)

\* The text "None", which str() makes of a content that is null.
NoneText == <<<<0, 0, 0>>>>

Text(t) == [type |-> "text", text |-> t]

(* _anthropic_content on a list of parts; a string is one text part.  A    *)
(* part that is no object is left out.                                     *)
PartBlock(part) ==
  IF part.type = "bare" THEN <<>> ELSE <<[type |-> part.type, text |-> part.text]>>
PartBlocks(parts) == FlattenSeq([i \in DOMAIN parts |-> PartBlock(parts[i])])

AnthropicContent(content) ==
  IF content = Null THEN <<Text(NoneText)>> ELSE PartBlocks(content)

ContentRefused(content) ==
  content # Null /\ \E i \in DOMAIN content : content[i].type = "unsupported"

ToolUses(calls) ==
  [i \in DOMAIN calls |->
     [type |-> "tool_use", id |-> calls[i].id, input |-> calls[i].arguments]]

System(message) == message.role = "system"

(* What json.loads takes: "{}", which no provider sends in fragments, or   *)
(* the whole of what was sent for one call.                                *)
EmptyObject == <<<<0, 0, 1>>>>
Json(arguments) ==
  \/ arguments = EmptyObject
  \/ /\ Len(arguments) = Whole
     /\ \A k \in DOMAIN arguments : arguments[k] = <<arguments[1][1], arguments[1][2], k>>

(* Some message is refused: its role, a part, or arguments that are no JSON, *)
(* such as none at all or the beginning of some.                           *)
Refused(message) ==
  \/ message.role = "other"
  \/ message.role # "tool" /\ ContentRefused(message.content)
  \/ \E i \in DOMAIN message.calls : ~Json(message.calls[i].arguments)

Accepted(messages) == \A i \in DOMAIN messages : ~Refused(messages[i])

\* Mutant of Outgoing: the calls are sent only where there is no text.
OutgoingEither(message) ==
  IF message.role = "tool"
    THEN [role |-> "user",
          content |-> <<[type |-> "tool_result", id |-> message.answers,
                         content |-> message.content]>>]
    ELSE [role |-> message.role,
          content |-> IF message.content = Null THEN ToolUses(message.calls)
                      ELSE AnthropicContent(message.content)]

(* A tool result becomes a message of the user; its content goes as it is. *)
Outgoing(message) ==
  IF message.role = "tool"
    THEN [role |-> "user",
          content |-> <<[type |-> "tool_result", id |-> message.answers,
                         content |-> message.content]>>]
    ELSE [role |-> message.role,
          content |-> AnthropicContent(message.content) \o ToolUses(message.calls)]

(* The instructions are joined, the other messages go one by one.          *)
Instruction(message) ==
  IF System(message) THEN AnthropicContent(message.content) ELSE <<>>
Turn(message) == IF System(message) THEN <<>> ELSE <<Outgoing(message)>>

Prepared(messages) ==
  [system |-> FlattenSeq([i \in DOMAIN messages |-> Instruction(messages[i])]),
   messages |-> FlattenSeq([i \in DOMAIN messages |-> Turn(messages[i])])]

-----------------------------------------------------------------------------
(* translate_stream: one event to one chunk.                               *)

NoChunk == [content |-> Null, reasoning |-> Null, calls |-> {}, finish |-> Null,
            prompt |-> Null, completion |-> Null, total |-> Null, error |-> FALSE]

FinishReason(reason) ==
  CASE reason = "end_turn" -> "stop"
    [] reason = "stop_sequence" -> "stop"
    [] reason = "max_tokens" -> "length"
    [] reason = "tool_use" -> "tool_calls"
    [] OTHER -> reason

Total(prompt, completion) ==
  IF Null \in {prompt, completion} THEN Null ELSE prompt + completion

\* Mutant of ToolIndex: every fragment goes to the first call.
ToolIndexFirst(t, index) == 0

(* tool_indexes maps the block's index to the call's; 0 where unknown.     *)
ToolIndex(t, index) == IF index \in DOMAIN t.tools THEN t.tools[index] ELSE 0

NextCall(t) == Cardinality(DOMAIN t.tools)

OpensCall(event) == event.type = "content_block_start" /\ event.block = "tool"

Tracked(t, event) ==
  CASE event.type = "message_start" -> [t EXCEPT !.input = event.input]
    [] OpensCall(event) ->
         [t EXCEPT !.tools = [index \in DOMAIN t.tools \cup {event.index} |->
            IF index = event.index THEN NextCall(t) ELSE t.tools[index]]]
    [] OTHER -> t

Translated(t, event) ==
  CASE event.type = "message_start" -> [NoChunk EXCEPT !.prompt = event.input]
    [] OpensCall(event) ->
         [NoChunk EXCEPT !.calls =
            {[index |-> NextCall(t), id |-> event.id, arguments |-> <<>>]}]
    [] event.type = "text_delta" -> [NoChunk EXCEPT !.content = event.part]
    [] event.type = "thinking_delta" -> [NoChunk EXCEPT !.reasoning = event.part]
    [] event.type = "input_json_delta" ->
         [NoChunk EXCEPT !.calls =
            {[index |-> ToolIndex(t, event.index), id |-> Null, arguments |-> <<event.part>>]}]
    [] event.type = "message_delta" ->
         [NoChunk EXCEPT !.finish = FinishReason(event.reason), !.prompt = t.input,
                         !.completion = event.output, !.total = Total(t.input, event.output)]
    [] event.type = "error" -> [NoChunk EXCEPT !.error = TRUE]
    [] OTHER -> NoChunk

-----------------------------------------------------------------------------
(* StreamAccumulator.                                                      *)

Known(new, old) == IF new = Null THEN old ELSE new
Extended(text, part) == IF part = Null THEN text ELSE Append(text, part)

\* Mutant of Joined: a fragment replaces the arguments so far.
JoinedLast(calls, call) ==
  [index \in DOMAIN calls \cup {call.index} |->
     LET old == IF index \in DOMAIN calls THEN calls[index] ELSE [id |-> Null, arguments |-> <<>>]
     IN IF index # call.index THEN old
        ELSE [id |-> Known(call.id, old.id), arguments |-> call.arguments]]

Joined(calls, call) ==
  [index \in DOMAIN calls \cup {call.index} |->
     LET old == IF index \in DOMAIN calls THEN calls[index] ELSE [id |-> Null, arguments |-> <<>>]
     IN IF index # call.index THEN old
        ELSE [id |-> Known(call.id, old.id), arguments |-> old.arguments \o call.arguments]]

Consumed(a, chunk) ==
  [content |-> Extended(a.content, chunk.content),
   reasoning |-> Extended(a.reasoning, chunk.reasoning),
   calls |-> IF chunk.calls = {} THEN a.calls
             ELSE Joined(a.calls, CHOOSE call \in chunk.calls : TRUE),
   finish |-> Known(chunk.finish, a.finish),
   prompt |-> Known(chunk.prompt, a.prompt),
   completion |-> Known(chunk.completion, a.completion),
   total |-> Known(chunk.total, a.total),
   error |-> a.error \/ chunk.error]

(* sorted(): a set of numbers as an ascending sequence.                    *)
Rank(S, n) == Cardinality({m \in S : m < n})
Ascending(S) == [i \in 1 .. Cardinality(S) |-> CHOOSE n \in S : Rank(S, n) = i - 1]

(* response_payload: the calls sorted by index, null for no content.       *)
Content(text) == IF text = <<>> THEN Null ELSE text
Sorted(calls) ==
  LET indexes == Ascending(DOMAIN calls) IN [i \in DOMAIN indexes |-> calls[indexes[i]]]
Message(a) == [content |-> Content(a.content), calls |-> Sorted(a.calls), finish |-> a.finish]

Quarter(characters) == (characters + 3) \div 4

TextSize(messages) ==
  PartSize * Len(FlattenSeq([i \in DOMAIN messages |->
    IF messages[i].content = Null THEN <<>>
    ELSE FlattenSeq([j \in DOMAIN messages[i].content |->
           IF messages[i].content[j].type = "text" THEN messages[i].content[j].text ELSE <<>>])]))

(* estimate_requested_tokens: what is reserved for the call.               *)
Reserved == LET tokens == Quarter(TextSize(payload)) + maxTokens IN IF tokens < 1 THEN 1 ELSE tokens

\* Mutant of PromptEstimate: the tokens asked for are counted as prompt too.
PromptEstimateWhole == Reserved

PromptEstimate == LET tokens == Reserved - maxTokens IN IF tokens < 1 THEN 1 ELSE tokens

(* StreamAccumulator.usage: what the provider did not say is estimated.    *)
Usage(a) ==
  LET prompt == IF a.prompt = Null THEN PromptEstimate ELSE a.prompt
      completion == IF a.completion = Null
                      THEN Quarter(PartSize * (Len(a.content) + Len(a.reasoning)))
                      ELSE a.completion
  IN [prompt |-> prompt, completion |-> completion,
      total |-> IF a.total = Null THEN prompt + completion ELSE a.total]

(* generate: a stream is logged with the status its response began with,   *)
(* which was 200, or with none if reading it raised an exception.          *)
LoggedStatus == IF phase = "interrupted" THEN Null ELSE 200

-----------------------------------------------------------------------------
(* normalize_response: the same reply when it is not streamed.             *)

\* Block i of the reply to message m is a type and a number of fragments.
Fragments(i) == [k \in 1 .. reply.blocks[i].parts |-> <<Len(payload) + 1, i, k>>]
CallId(i) == <<Len(payload) + 1, i>>
OfType(type) == Ascending({i \in DOMAIN reply.blocks : reply.blocks[i].type = type})

\* What json.dumps makes of a block's input; there is none to dump where it is cut.
Dumped(i) == IF Fragments(i) = <<>> THEN EmptyObject ELSE Fragments(i)

Normalized ==
  LET texts == OfType("text")
      tools == OfType("tool")
  IN [content |-> Content(FlattenSeq([j \in DOMAIN texts |-> Fragments(texts[j])])),
      calls |-> [j \in DOMAIN tools |->
                   [id |-> CallId(tools[j]), arguments |-> Dumped(tools[j])]],
      finish |-> IF reply.reason = Null THEN Null ELSE FinishReason(reply.reason)]

-----------------------------------------------------------------------------
(* The steps.                                                              *)

Init ==
  /\ payload = <<>> /\ maxTokens = 0 /\ phase = "writing"
  /\ reply = NoReply /\ translator = NewTranslator /\ accumulator = NewAccumulator

Room == Len(payload) < MaxMessages

SentCalls(messages) == FlattenSeq([i \in DOMAIN messages |-> messages[i].calls])
SentIds == {SentCalls(payload)[i].id : i \in DOMAIN SentCalls(payload)}

(* What the client appends for a reply it got.                             *)
SentBack(message) ==
  [role |-> "assistant", answers |-> Null, calls |-> message.calls,
   content |-> IF message.content = Null THEN Null ELSE <<Text(message.content)>>]

(* The client writes a message: of a role, with parts of some types, or    *)
(* the answer to a call.                                                   *)
Write(said) ==
  /\ phase = "writing" /\ Room
  /\ \E answers \in IF said.role = "tool" THEN SentIds ELSE {Null} :
       payload' = Append(payload,
         [role |-> said.role, answers |-> answers, calls |-> <<>>,
          content |-> [k \in DOMAIN said.types |->
            [type |-> said.types[k],
             text |-> IF said.types[k] \in {"text", "image"}
                        THEN <<<<Len(payload) + 1, 0, k>>>> ELSE <<>>]]])
  /\ UNCHANGED <<maxTokens, phase, exchange>>

(* The call is made; one that is refused changes nothing.                  *)
Ask(tokens) ==
  /\ phase = "writing" /\ payload # <<>> /\ Accepted(payload)
  /\ Cardinality({i \in DOMAIN payload : payload[i].role = "assistant"}) < MaxReplies
  /\ phase' = "replying" /\ maxTokens' = tokens
  /\ reply' = NoReply /\ translator' = NewTranslator /\ accumulator' = NewAccumulator
  /\ UNCHANGED payload

(* An event arrives, is translated and accumulated.                        *)
Receive(event) ==
  /\ translator' = Tracked(translator, event)
  /\ accumulator' = Consumed(accumulator, Translated(translator, event))
  /\ UNCHANGED <<payload, maxTokens, phase>>

Sending == phase = "replying" /\ reply.started /\ reply.reason = Null /\ ~reply.error

StartMessage(input) ==
  /\ phase = "replying" /\ ~reply.started
  /\ reply' = [reply EXCEPT !.started = TRUE, !.input = input]
  /\ Receive([type |-> "message_start", input |-> input])

StartBlock(type) ==
  /\ Sending /\ Len(reply.blocks) < MaxBlocks
  /\ reply' = [reply EXCEPT !.blocks = Append(@, [type |-> type, parts |-> 0])]
  /\ LET index == Len(reply.blocks) IN
       Receive([type |-> "content_block_start", block |-> type, index |-> index,
                id |-> CallId(index + 1)])

DeltaOf == [text |-> "text_delta", thinking |-> "thinking_delta", tool |-> "input_json_delta"]

SendFragment ==
  LET last == Len(reply.blocks) IN
  /\ Sending /\ last > 0 /\ reply.blocks[last].parts < MaxParts
  /\ reply.blocks[last].type = "tool" => reply.blocks[last].parts < Whole
  /\ reply' = [reply EXCEPT !.blocks[last].parts = @ + 1]
  /\ Receive([type |-> DeltaOf[reply.blocks[last].type], index |-> last - 1,
              part |-> <<Len(payload) + 1, last, reply.blocks[last].parts + 1>>])

StopMessage(reason, output) ==
  /\ Sending
  /\ reply' = [reply EXCEPT !.reason = reason, !.output = output]
  /\ Receive([type |-> "message_delta", reason |-> reason, output |-> output])

Fail ==
  /\ Sending
  /\ reply' = [reply EXCEPT !.error = TRUE]
  /\ Receive([type |-> "error"])

(* The stream ends, wherever it is; the client keeps a complete message.   *)
End ==
  /\ phase = "replying"
  /\ IF reply.reason # Null /\ Room
       THEN /\ phase' = "writing"
            /\ payload' = Append(payload, SentBack(Message(accumulator)))
       ELSE phase' = "over" /\ UNCHANGED payload
  /\ UNCHANGED <<maxTokens, exchange>>

(* The connection breaks, or an event is no JSON.                          *)
Interrupt ==
  /\ phase = "replying" /\ phase' = "interrupted"
  /\ UNCHANGED <<payload, maxTokens, exchange>>

Next ==
  \/ \E said \in Said : Write(said)
  \/ \E tokens \in MaxTokens : Ask(tokens)
  \/ \E input \in Counts \cup {Null} : StartMessage(input)
  \/ \E type \in {"text", "thinking", "tool"} : StartBlock(type)
  \/ SendFragment
  \/ \E reason \in Reasons, output \in Counts \cup {Null} : StopMessage(reason, output)
  \/ Fail
  \/ End
  \/ Interrupt

Spec == Init /\ [][Next]_vars

-----------------------------------------------------------------------------
(* Properties.                                                             *)

Atoms == (0 .. MaxMessages + 1) \X (0 .. MaxBlocks) \X (0 .. MaxParts + 1)
IsText(text) == \A i \in DOMAIN text : text[i] \in Atoms

(* The call indexes run from zero without a gap, as the OpenAI shape       *)
(* numbers them, and every text is made of fragments.                      *)
TypeOK ==
  /\ phase \in {"writing", "replying", "over", "interrupted"} /\ maxTokens \in MaxTokens \cup {0}
  /\ \A i \in DOMAIN payload : payload[i].role \in Roles
  /\ IsText(accumulator.content) /\ IsText(accumulator.reasoning)
  /\ DOMAIN accumulator.calls = 0 .. Cardinality(DOMAIN accumulator.calls) - 1
  /\ DOMAIN translator.tools \subseteq 0 .. MaxBlocks

\* A call as a stream has it: nothing arrives of an input that is empty.
WithoutInput(call) ==
  IF call.arguments = EmptyObject THEN [call EXCEPT !.arguments = <<>>] ELSE call

(* A streamed reply, cut anywhere, says what the same reply says when it   *)
(* is not streamed: the text, the calls with their arguments and indexes   *)
(* (TypeOK), the finish reason, and, when the provider says both counts,   *)
(* the usage.  There are two exceptions: thinking is only streamed, and    *)
(* the arguments of a call without input are "" in a stream and "{}"       *)
(* otherwise.                                                              *)
StreamAgrees ==
  /\ TypeOK
  /\ phase # "writing" =>
       Message(accumulator)
         = [Normalized EXCEPT !.calls = [j \in DOMAIN @ |-> WithoutInput(@[j])]]
  /\ reply.reason # Null /\ Null \notin {reply.input, reply.output} =>
       Usage(accumulator) = [prompt |-> reply.input, completion |-> reply.output,
                             total |-> reply.input + reply.output]

\* When it says neither count, a reply of at most the tokens asked for is
\* estimated within what was reserved for the call, save for one token of a
\* call without text.
EstimateCovered ==
  phase = "replying" /\ accumulator.prompt = Null /\ accumulator.completion = Null
    /\ Usage(accumulator).completion <= maxTokens
    => Usage(accumulator).total <= Reserved + (IF TextSize(payload) = 0 THEN 1 ELSE 0)

\* The blocks or parts of one type, in order.
Typed(blocks, type) ==
  FlattenSeq([i \in DOMAIN blocks |-> IF blocks[i].type = type THEN <<blocks[i]>> ELSE <<>>])

\* The blocks of a sequence of Anthropic messages.
Blocks(messages) == FlattenSeq([i \in DOMAIN messages |-> messages[i].content])

\* The parts of one type that were written, in the instructions or elsewhere.
Written(message, system) ==
  IF message.role # "tool" /\ message.content # Null /\ System(message) = system
    THEN message.content ELSE <<>>
WrittenParts(type, system) ==
  Typed(FlattenSeq([i \in DOMAIN payload |-> Written(payload[i], system)]), type)

SentTexts ==
  LET texts == Typed(Blocks(Prepared(payload).messages), "text")
  IN FlattenSeq([i \in DOMAIN texts |-> IF texts[i].text = NoneText THEN <<>> ELSE <<texts[i]>>])

(* What is sent to the provider has every text and every image of the      *)
(* conversation once, in order, the instructions apart.  (NoneText, which  *)
(* nobody wrote, is sent besides for each message without content, such as *)
(* a reply of tool calls that the client sends back.  A bare part is       *)
(* neither a text nor an image: it is left out without a word.)            *)
PartsKept ==
  Accepted(payload) =>
    /\ \A type \in {"text", "image"} :
         Typed(Prepared(payload).system, type) = WrittenParts(type, TRUE)
    /\ SentTexts = WrittenParts("text", FALSE)
    /\ Typed(Blocks(Prepared(payload).messages), "image") = WrittenParts("image", FALSE)

\* The results that were written, each with the call it answers.
Results(messages) ==
  FlattenSeq([i \in DOMAIN messages |->
    IF messages[i].role = "tool"
      THEN <<[type |-> "tool_result", id |-> messages[i].answers, content |-> messages[i].content]>>
      ELSE <<>>])

(* Every call of the conversation is sent with its arguments, in order,    *)
(* and so is every result with its content, after the call it answers.     *)
CallsKept ==
  Accepted(payload) =>
    LET blocks == Blocks(Prepared(payload).messages) IN
    /\ Typed(blocks, "tool_use") = ToolUses(SentCalls(payload))
    /\ Typed(blocks, "tool_result") = Results(payload)
    /\ \A i \in DOMAIN blocks : blocks[i].type = "tool_result" =>
         \E j \in 1 .. i - 1 : blocks[j].type = "tool_use" /\ blocks[j].id = blocks[i].id

(* Whatever is not refused reaches the provider: texts, images, calls and  *)
(* results, each once and in order.                                        *)
HistoryKept == PartsKept /\ CallsKept

\* A block of a call whose arguments did not all arrive.
Cut(block) == block.type = "tool" /\ block.parts # Whole

(* A streamed reply that the client sends back is refused exactly if some  *)
(* call lacks arguments or a part of them: its arguments are no JSON, and  *)
(* the conversation is refused from then on.  Unstreamed, the same reply   *)
(* is accepted where none of its calls was cut, with or without input.     *)
RepliesAccepted ==
  /\ LET returned == {i \in DOMAIN payload : payload[i].role = "assistant"} IN
       phase = "writing" /\ returned # {} =>
         (Refused(payload[Max(returned)])
            <=> \E i \in DOMAIN reply.blocks : Cut(reply.blocks[i]))
  /\ (\A i \in DOMAIN reply.blocks : Cut(reply.blocks[i]) => reply.blocks[i].parts = 0)
       => ~Refused(SentBack(Normalized))

(* A reply that failed in mid-stream is logged as failed.                  *)
ErrorLogged ==
  phase = "over" /\ accumulator.error => LoggedStatus = Null \/ LoggedStatus >= 400
=============================================================================
