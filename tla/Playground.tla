------------------------------ MODULE Playground ------------------------------
(***************************************************************************)
(* The chat playground of the web console                                  *)
(* (web/default/src/features/playground): a list of messages in React      *)
(* state, saved to localStorage by every update; a server-sent event       *)
(* stream that writes the answer into the LAST message of the list; and    *)
(* user handlers that work on the list of the last render.                 *)
(* A user's click is handled and rendered in one step.  A stream's event   *)
(* only queues its update: until React renders, the handlers see the list  *)
(* as it was.                                                              *)
(***************************************************************************)
EXTENDS Integers, Sequences, SequencesExt

CONSTANTS MaxSends,   \* bound: the requests ever sent
          MaxChunks,  \* bound: the pieces all answers have together
          Pieces,     \* the pieces an answer may be made of
          Typed       \* what a user may type, tags included

None == 0
Streams == 1..MaxSends

\* A text is a sequence of tokens, fine enough for a tag to arrive in two
\* chunks and for the two halves of a tag to meet when what stood between
\* them is taken out.  White space (trim, the join of thoughts) is left out.
Open == <<"<thi", "nk>">>
Close == <<"</thi", "nk>">>
Text == "text"
ErrorText == "error"

Token == {Open[1], Close[1], Close[2], Text, ErrorText}

\* The fields and the buttons refuse an empty text; an empty piece is skipped.
ASSUME PlaygroundAssumption ==
    /\ MaxSends \in Nat
    /\ MaxChunks \in Nat
    /\ Pieces \subseteq Seq(Token) \ {<<>>}
    /\ Typed \subseteq Seq(Token) \ {<<>>}

VARIABLES
    messages,          \* the state of the hook, all queued updates applied
    view,              \* what the last render saw: the list and isGenerating
    stored,            \* localStorage
    source,            \* each SSE source
    sseSourceRef,      \* the source that Stop would close
    isStreamComplete,  \* isStreamCompleteRef, shared by all sources
    editing,           \* editingMessageKey
    nextKey,           \* nanoid()
    payload,           \* the statuses of the messages each request carried
    chunks,            \* the pieces received so far
    overlapped         \* for the properties: the user has sent a request, or
                       \* saved an edit over updates not yet rendered, while
                       \* an answer was being written

vars == <<messages, view, stored, source, sseSourceRef, isStreamComplete,
          editing, nextKey, payload, chunks, overlapped>>

Status == {"none", "loading", "streaming", "complete", "error"}
Unfinished == {"loading", "streaming"}

\* asked: the request the message was made for; writers: the ones whose pieces
\* it holds (both only for the properties).
Message == [key : Nat, from : {"user", "assistant"}, status : Status,
            content : Seq(Token), reasoning : Seq(Token), thinking : BOOLEAN,
            asked : Streams \cup {None}, writers : SUBSET Streams]

TypeOK ==
    /\ messages \in Seq(Message) /\ stored \in Seq(Message)
    /\ view.messages \in Seq(Message) /\ view.generating \in BOOLEAN
    /\ source \in [Streams -> {"unused", "open", "ended", "closed"}]
    /\ sseSourceRef \in Streams \cup {None}
    /\ isStreamComplete \in BOOLEAN
    /\ editing \in Nat /\ nextKey \in Nat \ {0}
    /\ payload \in [Streams -> SUBSET Status]
    /\ chunks \in 0..MaxChunks
    /\ overlapped \in BOOLEAN

Init ==
    /\ messages = <<>>
    /\ view = [messages |-> <<>>, generating |-> FALSE]
    /\ stored = <<>>
    /\ source = [s \in Streams |-> "unused"]
    /\ sseSourceRef = None
    /\ isStreamComplete = FALSE
    /\ editing = None
    /\ nextKey = 1
    /\ payload = [s \in Streams |-> {}]
    /\ chunks = 0
    /\ overlapped = FALSE
-----------------------------------------------------------------------------
(* Pure functions of lib/message-utils.ts. *)

\* indexOf: the first place from i on where pattern stands in content, or 0.
IndexOf(content, pattern, i) ==
    LET At == {j \in i..(Len(content) + 1 - Len(pattern)) :
                  SubSeq(content, j, j + Len(pattern) - 1) = pattern}
    IN  IF At = {} THEN 0 ELSE CHOOSE j \in At : \A k \in At : j <= k

\* Faulty variant: the closing tag is looked for from currentPos.
parseTurnFromPos(content, parse, pos) ==
    LET open  == IndexOf(content, Open, pos)
        inner == open + Len(Open)
        close == IndexOf(content, Close, pos)
        rest  == parse[close + Len(Close)]
    IN CASE open = 0 ->
              [visible |-> SubSeq(content, pos, Len(content)),
               reasoning |-> <<>>, unclosed |-> FALSE]
         [] open # 0 /\ close = 0 ->
              [visible |-> SubSeq(content, pos, open - 1),
               reasoning |-> SubSeq(content, inner, Len(content)),
               unclosed |-> TRUE]
         [] OTHER ->
              [visible |-> SubSeq(content, pos, open - 1) \o rest.visible,
               reasoning |-> SubSeq(content, inner, close - 1) \o rest.reasoning,
               unclosed |-> rest.unclosed]

\* One turn of the loop of parseThinkTags, at currentPos; parse[q] is what the
\* turns from q on find.
parseTurn(content, parse, pos) ==
    LET open  == IndexOf(content, Open, pos)
        inner == open + Len(Open)
        close == IndexOf(content, Close, inner)
        rest  == parse[close + Len(Close)]
    IN CASE open = 0 ->
              [visible |-> SubSeq(content, pos, Len(content)),
               reasoning |-> <<>>, unclosed |-> FALSE]
         [] open # 0 /\ close = 0 ->
              [visible |-> SubSeq(content, pos, open - 1),
               reasoning |-> SubSeq(content, inner, Len(content)),
               unclosed |-> TRUE]
         [] OTHER ->
              [visible |-> SubSeq(content, pos, open - 1) \o rest.visible,
               reasoning |-> SubSeq(content, inner, close - 1) \o rest.reasoning,
               unclosed |-> rest.unclosed]

parseThinkTags(content) ==
    LET parse[pos \in 1..(Len(content) + 1)] == parseTurn(content, parse, pos)
    IN  parse[1]

\* a || b for strings
OrElse(a, b) == IF a # <<>> THEN a ELSE b

finalizeMessage(m) ==
    LET parsed == parseThinkTags(m.content)
    IN [m EXCEPT !.content = parsed.visible,
                 !.reasoning = OrElse(@, parsed.reasoning),
                 !.thinking = FALSE]

Complete(m) == [finalizeMessage(m) EXCEPT !.status = "complete"]

processStreamingContent(m, piece) ==
    LET content == m.content \o piece
        parsed  == parseThinkTags(content)
    IN [m EXCEPT !.content = content,
                 !.reasoning = OrElse(parsed.reasoning, @),
                 !.thinking = parsed.unclosed]

WithError(m) ==
    [m EXCEPT !.content = <<ErrorText>>, !.status = "error", !.thinking = FALSE]

\* What the updater returns for the last message is passed as updated.
updateLastAssistantMessage(list, updated) ==
    IF list = <<>> \/ Last(list).from # "assistant"
    THEN list
    ELSE ReplaceAt(list, Len(list), updated)

updateAssistantMessageWithError(list) ==
    updateLastAssistantMessage(list, WithError(Last(list)))

\* Faulty variant: placeholders are sent too.
isAnyMessage(m) == m.from \in {"user", "assistant"}

isValidMessage(m) == m.from = "user" \/ m.content # <<>>

sanitizeMessagesOnLoad(list) ==
    LET Stuck == {i \in DOMAIN list : /\ list[i].from = "assistant"
                                      /\ list[i].status \in Unfinished}
        last  == CHOOSE i \in Stuck : \A j \in Stuck : j <= i
        final == finalizeMessage(list[last])
    IN IF Stuck = {} THEN list
       ELSE ReplaceAt(list, last,
              IF final.content # <<>> \/ final.reasoning # <<>>
              THEN [final EXCEPT !.status = "complete"]
              ELSE WithError(final))

createUserMessage(text) ==
    [key |-> nextKey, from |-> "user", status |-> "none", content |-> text,
     reasoning |-> <<>>, thinking |-> FALSE, asked |-> None, writers |-> {}]

\* Faulty variant: a status that no handler knows.
createPendingAssistantMessage(key, s) ==
    [key |-> key, from |-> "assistant", status |-> "pending", content |-> <<>>,
     reasoning |-> <<>>, thinking |-> FALSE, asked |-> s, writers |-> {}]

createLoadingAssistantMessage(key, s) ==
    [key |-> key, from |-> "assistant", status |-> "loading", content |-> <<>>,
     reasoning |-> <<>>, thinking |-> FALSE, asked |-> s, writers |-> {}]
-----------------------------------------------------------------------------
(* What the user does.  Each handler reads the list of the last render, and *)
(* its update is saved and rendered at once.                                *)

Shown == view.messages

Show(list, ref) ==
    /\ messages' = list
    /\ stored' = list
    /\ view' = [messages |-> list, generating |-> ref # None]
    /\ sseSourceRef' = ref

\* sendChat with the list that ends in the message of request s: the source
\* is opened and recorded as the current one, whatever was current before;
\* opening it may throw.
sendChat(s, list) ==
    /\ source[s] = "unused"
    /\ \A r \in Streams : r < s => source[r] # "unused"
    /\ isStreamComplete' = FALSE
    /\ payload' = [payload EXCEPT ![s] =
                     {list[i].status : i \in {j \in DOMAIN list : isValidMessage(list[j])}}]
    /\ \/ /\ source' = [source EXCEPT ![s] = "open"]
          /\ Show(list, s)
       \/ /\ source' = [source EXCEPT ![s] = "closed"]
          /\ Show(updateAssistantMessageWithError(list), None)
    /\ UNCHANGED chunks

handleSendMessage(text) ==
    \E s \in Streams :
        /\ sendChat(s, Shown \o <<createUserMessage(text),
                                  createLoadingAssistantMessage(nextKey + 1, s)>>)
        /\ nextKey' = nextKey + 2
        /\ UNCHANGED editing

\* The prompt field and its button are disabled while an answer is written ...
Send(text) ==
    /\ ~view.generating
    /\ handleSendMessage(text)
    /\ UNCHANGED overlapped

\* ... the suggestions below it are not.
Suggest ==
    /\ handleSendMessage(<<Text>>)
    /\ overlapped' = (overlapped \/ view.generating)

\* A message has its buttons below its content or its error, unless it is open
\* in the editor; guardAction disables them while an answer is written.
HasActions(m) ==
    /\ ~view.generating
    /\ editing # m.key
    /\ m.status = "error" \/ (m.content # <<>> /\ (m.from = "user" \/ ~m.thinking))

Regenerate(i) ==
    /\ HasActions(Shown[i])
    /\ Shown[i].from = "assistant" /\ Shown[i].status \notin Unfinished
    /\ \E s \in Streams :
        sendChat(s, Append(SubSeq(Shown, 1, i - 1),
                           createLoadingAssistantMessage(nextKey, s)))
    /\ nextKey' = nextKey + 1
    /\ UNCHANGED <<editing, overlapped>>

Edit(i) ==
    /\ HasActions(Shown[i])
    /\ Shown[i].content # <<>>
    /\ editing' = Shown[i].key
    /\ UNCHANGED <<messages, view, stored, source, sseSourceRef, isStreamComplete,
                   nextKey, payload, chunks, overlapped>>

CancelEdit ==
    /\ editing # None
    /\ editing' = None
    /\ UNCHANGED <<messages, view, stored, source, sseSourceRef, isStreamComplete,
                   nextKey, payload, chunks, overlapped>>

\* applyEdit stores the text as it was typed.  The buttons of an open editor
\* ask for a changed text and for nothing else.
Edited(i, text) == [Shown EXCEPT ![i].content = text]

CanApply(i, text) == editing = Shown[i].key /\ text # Shown[i].content

SaveEdit(i, text) ==
    /\ CanApply(i, text)
    /\ Show(Edited(i, text), sseSourceRef)
    /\ editing' = None
    /\ overlapped' = (overlapped \/ messages # Shown)
    /\ UNCHANGED <<source, isStreamComplete, nextKey, payload, chunks>>

SubmitEdit(i, text) ==
    /\ CanApply(i, text)
    /\ Shown[i].from = "user"
    /\ \E s \in Streams :
        sendChat(s, Append(SubSeq(Edited(i, text), 1, i),
                           createLoadingAssistantMessage(nextKey, s)))
    /\ editing' = None
    /\ nextKey' = nextKey + 1
    /\ overlapped' = (overlapped \/ view.generating)

Delete(i) ==
    /\ HasActions(Shown[i])
    /\ Show(RemoveAt(Shown, i), sseSourceRef)
    /\ UNCHANGED <<source, isStreamComplete, editing, nextKey, payload, chunks, overlapped>>

StoppedMessages ==
    LET m == Last(messages)
    IN updateLastAssistantMessage(messages, IF m.status \in Unfinished THEN Complete(m) ELSE m)

\* Faulty variant: the reference is dropped, the source goes on.
StopKeepsSource ==
    /\ view.generating
    /\ Show(StoppedMessages, None)
    /\ UNCHANGED <<source, isStreamComplete, editing, nextKey, payload, chunks, overlapped>>

\* stopGeneration: the current source is closed, the last message completed.
Stop ==
    /\ view.generating
    /\ source' = IF sseSourceRef = None THEN source
                 ELSE [source EXCEPT ![sseSourceRef] = "closed"]
    /\ Show(StoppedMessages, None)
    /\ UNCHANGED <<isStreamComplete, editing, nextKey, payload, chunks, overlapped>>

\* The page is loaded again: the sources are gone, the list is what was saved.
Load ==
    /\ LET list == sanitizeMessagesOnLoad(stored)
       IN Show(list, None)
    /\ source' = [s \in Streams |-> IF source[s] = "unused" THEN "unused" ELSE "closed"]
    /\ isStreamComplete' = FALSE
    /\ editing' = None
    /\ UNCHANGED <<nextKey, payload, chunks, overlapped>>
-----------------------------------------------------------------------------
(* The events of a source.  React runs the first queued update, and with it *)
(* the save, at once or at the next render; the later ones at the render.   *)

Queue(list) ==
    /\ messages' = list
    /\ stored' \in IF messages = view.messages THEN {stored, list} ELSE {stored}
    /\ UNCHANGED <<view, editing, nextKey, payload, overlapped>>

Render ==
    /\ view' = [messages |-> messages, generating |-> sseSourceRef # None]
    /\ stored' = messages
    /\ view' # view
    /\ UNCHANGED <<messages, source, sseSourceRef, isStreamComplete, editing,
                   nextKey, payload, chunks, overlapped>>

\* One piece of reasoning_content or of content, for the last message.
handleStreamUpdate(s, type, piece) ==
    LET m == Last(messages)
        extended == IF type = "reasoning"
                    THEN [m EXCEPT !.reasoning = @ \o piece, !.thinking = TRUE]
                    ELSE processStreamingContent(m, piece)
    IN
    /\ source[s] = "open"
    /\ chunks < MaxChunks
    /\ chunks' = chunks + 1
    /\ Queue(updateLastAssistantMessage(messages,
                IF m.status = "error" THEN m
                ELSE [extended EXCEPT !.status = "streaming", !.writers = @ \cup {s}]))
    /\ UNCHANGED <<source, sseSourceRef, isStreamComplete>>

ReasoningChunk(s) == handleStreamUpdate(s, "reasoning", <<Text>>)
ContentChunk(s, piece) == handleStreamUpdate(s, "content", piece)

handleStreamComplete ==
    LET m == Last(messages)
    IN updateLastAssistantMessage(messages,
         IF m.status \in {"complete", "error"} THEN m ELSE Complete(m))

\* Faulty variant: the source is closed, the reference stays.
DoneKeepsRef(s) ==
    /\ source[s] = "open"
    /\ isStreamComplete' = TRUE
    /\ source' = [source EXCEPT ![s] = "closed"]
    /\ Queue(handleStreamComplete)
    /\ UNCHANGED <<sseSourceRef, chunks>>

\* "[DONE]": the source is closed, and with it the reference is dropped.
Done(s) ==
    /\ source[s] = "open"
    /\ isStreamComplete' = TRUE
    /\ source' = [source EXCEPT ![s] = "closed"]
    /\ sseSourceRef' = None
    /\ Queue(handleStreamComplete)
    /\ UNCHANGED chunks

\* Faulty variant: the source is not closed.
handleErrorKeepsSource(s, after) ==
    /\ source[s] = "open"
    /\ sseSourceRef' = None
    /\ Queue(updateAssistantMessageWithError(messages))
    /\ UNCHANGED <<source, isStreamComplete, chunks>>

\* handleError, for a piece that cannot be parsed or a failed connection: it
\* is silent once any source has completed since the last request was sent.
handleError(s, after) ==
    /\ source[s] = "open"
    /\ IF isStreamComplete
       THEN /\ source' = [source EXCEPT ![s] = after]
            /\ UNCHANGED <<messages, view, stored, sseSourceRef, editing, nextKey,
                           payload, overlapped>>
       ELSE /\ source' = [source EXCEPT ![s] = "closed"]
            /\ sseSourceRef' = None
            /\ Queue(updateAssistantMessageWithError(messages))
    /\ UNCHANGED <<isStreamComplete, chunks>>

ParseError(s) == handleError(s, "open")
ConnectionError(s) == handleError(s, "ended")

\* The response ends without "[DONE]": no handler of the hook runs.
EndOfResponse(s) ==
    /\ source[s] = "open"
    /\ source' = [source EXCEPT ![s] = "ended"]
    /\ UNCHANGED <<messages, view, stored, sseSourceRef, isStreamComplete, editing,
                   nextKey, payload, chunks, overlapped>>

StreamEvent ==
    \E s \in Streams :
        \/ ReasoningChunk(s) \/ Done(s) \/ EndOfResponse(s)
        \/ ParseError(s) \/ ConnectionError(s)
        \/ \E piece \in Pieces : ContentChunk(s, piece)

Next ==
    \/ Suggest \/ Stop \/ CancelEdit \/ Load \/ Render
    \/ \E i \in DOMAIN Shown :
          Regenerate(i) \/ Edit(i) \/ Delete(i)
    \/ \E text \in Typed :
          \/ Send(text)
          \/ \E i \in DOMAIN Shown : SaveEdit(i, text) \/ SubmitEdit(i, text)
    \/ StreamEvent

Spec == Init /\ [][Next]_vars
-----------------------------------------------------------------------------
Finished(m) == m.status \notin Unfinished

\* A source is recorded exactly while the last message waits for its answer,
\* and no other message does; otherwise a message spins for ever with no Stop
\* button, or the buttons stay disabled.  So it is as long as no request was
\* sent while another was answered: the suggestions and the editor allow that,
\* and then an earlier message is left unfinished.
GenerationMatches ==
    ~overlapped =>
      /\ \A i \in DOMAIN messages : i < Len(messages) => Finished(messages[i])
      /\ (sseSourceRef # None) <=> (messages # <<>> /\ ~Finished(Last(messages)))

\* Whatever the user clicks: what Stop would close has not been closed yet,
\* so that Stop ends an answer or clears one that ended without "[DONE]".
StopHasASource == sseSourceRef # None => source[sseSourceRef] \in {"open", "ended"}

\* A piece is written into the message it was asked for, although the updaters
\* look for the last message and never for the one that belongs to the request
\* (with two requests open both write into the last one).
OwnAnswers ==
    ~overlapped =>
      \A i \in DOMAIN messages : messages[i].writers \subseteq {messages[i].asked}

\* What isValidMessage promises: no request carries a half-written answer.
PayloadIsSettled == \A s \in Streams : payload[s] \cap Unfinished = {}

\* isValidMessage only looks for empty content, and that is enough until a
\* request is sent while another is answered.
PayloadSettledAlone == ~overlapped => PayloadIsSettled

\* A left-to-right reading of an answer that knows no positions: half is set
\* when the token before began the tag that is waited for.
ThinkStep(acc, token) ==
    LET joined == acc.half /\ token = Close[2] IN
    IF acc.unclosed
    THEN IF joined THEN [acc EXCEPT !.unclosed = FALSE, !.half = FALSE,
                                    !.reasoning = SubSeq(@, 1, Len(@) - 1)]
                   ELSE [acc EXCEPT !.half = (token = Close[1]),
                                    !.reasoning = Append(@, token)]
    ELSE IF joined THEN [acc EXCEPT !.unclosed = TRUE, !.half = FALSE,
                                    !.visible = SubSeq(@, 1, Len(@) - 1)]
                   ELSE [acc EXCEPT !.half = (token = Open[1]),
                                    !.visible = Append(@, token)]

Unread == [visible |-> <<>>, reasoning |-> <<>>, unclosed |-> FALSE, half |-> FALSE]

ThinkReading(content) ==
    LET read[n \in 0..Len(content)] ==
            IF n = 0 THEN Unread ELSE ThinkStep(read[n - 1], content[n])
        acc == read[Len(content)]
    IN [visible |-> acc.visible, reasoning |-> acc.reasoning, unclosed |-> acc.unclosed]

\* parseThinkTags, which jumps from tag to tag, agrees with that reading on
\* every text, however it was cut into pieces and whoever wrote it.
ParseAgrees ==
    \A i \in DOMAIN messages :
        parseThinkTags(messages[i].content) = ThinkReading(messages[i].content)

\* A stream's events leave every message alone that was already finished, as
\* long as no request was sent while another was answered.
FinishedIsFinal ==
    [][StreamEvent /\ ~overlapped =>
         \A i \in DOMAIN messages :
             Finished(messages[i]) => i \in DOMAIN messages' /\ messages'[i] = messages[i]]_vars

=============================================================================
