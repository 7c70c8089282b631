------------------------------ MODULE Attachments ------------------------------
(***************************************************************************)
(* What becomes of what support code attaches, logs and links              *)
(* (src/src/runtime/attachment_manager/index.ts).                          *)
(*                                                                         *)
(* Data are bytes with how often they have been encoded in base64; a       *)
(* stream is the chunks it will give.                                      *)
(***************************************************************************)
EXTENDS Naturals, SequencesExt

Plain(bytes) == [bytes |-> bytes, encoded |-> 0]

Base64(data) == [data EXCEPT !.encoded = @ + 1]

(* A media type may say that the text that comes with it is in base64.     *)
MediaType(type) == [base64 |-> FALSE, type |-> type]

Unspecified == MediaType("")

(* The media type may be given alone, with a file name or not at all.      *)
NormaliseOptions(given) ==
    CASE given.as = "nothing" -> [mediaType |-> Unspecified, fileName |-> ""]
      [] given.as = "mediaType" -> [mediaType |-> given.mediaType, fileName |-> ""]
      [] given.as = "options" -> [mediaType |-> given.mediaType, fileName |-> given.fileName]

CreateStringAttachment(data, encoding, type, fileName) ==
    <<[body |-> data, encoding |-> encoding, mediaType |-> type, fileName |-> fileName]>>

CreateBufferAttachment(data, mediaType, fileName) ==
    CreateStringAttachment(Base64(data), "BASE64", mediaType, fileName)

CreateTextAttachment(data, mediaType, fileName) ==
    IF mediaType = Unspecified THEN CreateStringAttachment(data, "IDENTITY", MediaType("text/plain"), fileName)
    ELSE CreateStringAttachment(data, IF mediaType.base64 THEN "BASE64" ELSE "IDENTITY",
                                MediaType(mediaType.type), fileName)

(* All of its chunks, when it ends; a stream that fails attaches nothing.  *)
CreateStreamAttachment(data, mediaType, fileName) ==
    IF data.fails THEN <<>>
    ELSE CreateBufferAttachment(Plain(FlattenSeq(data.chunks)), mediaType, fileName)

(* The attachment, if the call does not throw.                             *)
Create(data, given) ==
    LET options == NormaliseOptions(given)
    IN IF data.kind = "text" THEN CreateTextAttachment(data.text, options.mediaType, options.fileName)
       ELSE IF options.mediaType = Unspecified THEN <<>>
       ELSE CASE data.kind = "buffer" ->
                     CreateBufferAttachment(data.buffer, options.mediaType, options.fileName)
              [] data.kind = "stream" ->
                     CreateStreamAttachment(data, options.mediaType, options.fileName)
              [] OTHER -> <<>>

AsText(text) == [kind |-> "text", text |-> text]

As(type) == [as |-> "mediaType", mediaType |-> MediaType(type)]

CreateLog(text) == Create(AsText(text), As("text/x.cucumber.log+plain"))

CreateLink(urls) ==
    Create(AsText(Plain(FlattenSeq([i \in DOMAIN urls |-> IF i = 1 THEN urls[i] ELSE <<"\n">> \o urls[i]]))),
           As("text/uri-list"))

(* The calls of support code, with options in one of the ways they may be given. *)
IsCall(call) ==
    /\ call.method \in {"attach", "log", "link"}
    /\ call.method = "attach" => call.given.as \in {"nothing", "mediaType", "options"}
    /\ call.method = "link" =>
           call.urls \in Seq({url \in ToSet(call.urls) : url \in Seq(ToSet(url))})

(* What a call of support code attaches.                                   *)
AttachmentOf(call) ==
    CASE call.method = "attach" -> Create(call.data, call.given)
      [] call.method = "log" -> CreateLog(call.text)
      [] call.method = "link" -> CreateLink(call.urls)

(* A stream is read while the support code goes on.                        *)
ComesLater(call) == call.method = "attach" /\ call.data.kind = "stream"
=============================================================================
