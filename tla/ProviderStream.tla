--------------------------- MODULE ProviderStream ---------------------------
(***************************************************************************)
(* What the provider adapters make of an upstream answer.  An upstream     *)
(* stream is a script of frames that may at any point be cut by the        *)
(* network, report an error in-band, or simply end; an adapter turns each  *)
(* frame into chunks of the gateway's own shape.  A chunk either carries   *)
(* choices (text or the finish reason), usage, or both.                    *)
(***************************************************************************)
EXTENDS Naturals, Sequences

Providers == {"openai", "openrouter", "ollama", "self_hosted", "anthropic", "vertex_ai"}

Content   == [choices |-> TRUE, usage |-> FALSE]
UsageOnly == [choices |-> FALSE, usage |-> TRUE]
Both      == [choices |-> TRUE, usage |-> TRUE]

\* What each provider sends when nothing goes wrong, with one frame of text.
Script(provider) ==
    CASE provider = "anthropic"  -> <<"start", "text", "finish+usage", "stop">>
      [] provider = "openrouter" -> <<"text", "finish+usage">>
      [] provider = "vertex_ai"  -> <<"text", "finish+usage">>
      [] OTHER                   -> <<"text", "finish", "usage">>

Finishing == {"finish", "finish+usage"}

\* The frame at position i, or what may come in its place.
UpstreamFrames(provider, i) ==
    {"cut", "eof"} \cup
    (IF i <= Len(Script(provider)) THEN {Script(provider)[i], "error"} ELSE {})

\* What an adapter keeps between frames: role sent, and usage seen.
NewAdapter == [opened |-> FALSE, usage |-> FALSE]

Step(chunks, st, raises, ends) ==
    [chunks |-> chunks, st |-> st, raises |-> raises, ends |-> ends]

\* httpx.HTTPError becomes a ProviderCallError in every adapter.
NetworkCut(st) == Step(<<>>, st, "call", TRUE)

\* data: frames are validated as chunks and passed on; an error object is not
\* a chunk, and its ValidationError is nobody's ProviderCallError.
OpenAiStream(st, frame) ==
    CASE frame = "cut"   -> NetworkCut(st)
      [] frame = "error" -> Step(<<>>, st, "other", TRUE)
      [] frame = "eof"   -> Step(<<>>, st, "no", TRUE)
      [] frame = "usage" -> Step(<<UsageOnly>>, st, "no", FALSE)
      [] frame = "finish+usage" -> Step(<<Both>>, st, "no", FALSE)
      [] OTHER           -> Step(<<Content>>, st, "no", FALSE)

OpenRouterStream(st, frame) == OpenAiStream(st, frame)
OllamaStream(st, frame) == OpenAiStream(st, frame)

\* message_start opens and brings the input tokens, without which message_delta
\* reports no usage; an error event is none of the four that are looked at.
AnthropicStream(st, frame) ==
    CASE frame = "cut"   -> NetworkCut(st)
      [] frame \in {"eof", "stop"} -> Step(<<>>, st, "no", TRUE)
      [] frame = "error" -> Step(<<>>, st, "no", FALSE)
      [] frame = "start" -> Step(<<Content>>, [st EXCEPT !.opened = TRUE], "no", FALSE)
      [] frame = "finish+usage" ->
            Step(IF st.opened THEN <<Content, UsageOnly>> ELSE <<Content>>, st, "no", FALSE)
      [] OTHER           -> Step(<<Content>>, st, "no", FALSE)

\* A role chunk before the first frame, whatever it is; usage metadata is kept
\* and goes out in a chunk of its own once the stream has ended.
VertexStream(st, frame) ==
    LET role == IF st.opened THEN <<>> ELSE <<Content>>
        open == [st EXCEPT !.opened = TRUE]
    IN CASE frame = "cut"   -> NetworkCut(st)
         [] frame = "eof"   -> Step(IF st.usage THEN <<UsageOnly>> ELSE <<>>, st, "no", TRUE)
         [] frame = "error" -> Step(role, open, "no", FALSE)
         [] frame = "finish+usage" ->
               Step(role \o <<Content>>, [open EXCEPT !.usage = TRUE], "no", FALSE)
         [] OTHER           -> Step(role \o <<Content>>, open, "no", FALSE)

CreateStreaming(provider, st, frame) ==
    CASE provider = "anthropic"  -> AnthropicStream(st, frame)
      [] provider = "vertex_ai"  -> VertexStream(st, frame)
      [] provider = "openrouter" -> OpenRouterStream(st, frame)
      [] provider \in {"ollama", "self_hosted"} -> OllamaStream(st, frame)
      [] OTHER                   -> OpenAiStream(st, frame)

\* How a whole answer may come out: "call" is a ProviderCallError (network or
\* status), "other" a body that does not parse; the two translating adapters
\* also refuse a request for several choices.
OpenAiAnswers     == {"answer", "call", "other"}
OpenRouterAnswers == {"answer", "call", "other"}
OllamaAnswers     == {"answer", "call", "other"}
AnthropicAnswers  == {"answer", "call", "other", "unsupported"}
VertexAnswers     == {"answer", "call", "other", "unsupported"}

CreateNonStreaming(provider) ==
    CASE provider = "anthropic"  -> AnthropicAnswers
      [] provider = "vertex_ai"  -> VertexAnswers
      [] provider = "openrouter" -> OpenRouterAnswers
      [] provider \in {"ollama", "self_hosted"} -> OllamaAnswers
      [] OTHER                   -> OpenAiAnswers

\* The legacy endpoint goes to OpenAI only; embeddings to OpenAI and Vertex AI,
\* any other provider is an UnsupportedRequestError.
OpenAiCompletion == {"answer", "call", "other"}
OpenAiEmbeddings == {"answer", "call", "other"}
VertexEmbeddings == {"answer", "call", "other"}
CreateEmbeddings(provider) ==
    CASE provider = "openai"    -> OpenAiEmbeddings
      [] provider = "vertex_ai" -> VertexEmbeddings
      [] OTHER                  -> {"unsupported"}
=============================================================================
