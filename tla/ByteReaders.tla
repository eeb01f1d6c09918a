----------------------------- MODULE ByteReaders ------------------------------
(* The three readers that take structured bytes from a stream whose chunks   *)
(* have other boundaries: consumePrefix of the session handshake, ByteReader *)
(* of the SOCKS negotiation, and PtyFrameDecoder. A behaviour reads one wire *)
(* that a correct client has written; the chunks arrive in any sizes.        *)
EXTENDS Naturals, Sequences, SequencesExt

CONSTANTS
  FrameBytes,   \* SESSION_AUTH_FRAME_BYTES
  Header,       \* PTY_FRAME_HEADER_LENGTH; here the last header byte is the length
  MaxFrame,     \* PTY_MAX_FRAME_LENGTH
  MaxFrames,    \* bound: frames of a behaviour
  Payload       \* application bytes behind the handshake

ASSUME ReaderAssumption ==
  /\ {FrameBytes, MaxFrame, MaxFrames} \subseteq Nat /\ Header \in Nat \ {0}
  /\ Payload \in Seq(Nat)

VARIABLES
  job,        \* [kind, ...]: what the client sends
  arrived,    \* bytes of the wire handed out by the stream
  buffer,     \* the reader's bytes, concatenated and cut
  step,       \* what is read next; "open", "refused", "failed"
  got,        \* what was read: SOCKS fields, frames, the prefix
  replies,    \* answers of the SOCKS side
  passed      \* bytes handed on

readerVars == <<job, arrived, buffer, step, got, replies, passed>>

--------------------------------------------------------------------------------
\* What clients send. Bytes that only fill a field are 7.
Fill(n) == [i \in 1 .. n |-> 7]
Socks5 == [kind : {"socks5"}, methods : {<<0>>, <<2, 0>>, <<2>>}, command : {1, 2},
           address : {<<1>> \o Fill(4), <<3, 2>> \o Fill(2), <<4>> \o Fill(16), <<9>>}]
Socks4 == [kind : {"socks4"}, command : {1, 2}, ip : {Fill(4), <<0, 0, 0, 1>>}, user : {<<>>, Fill(2)}]
Auth == [kind : {"auth"}]
Frames == [kind : {"frames"}, lengths : UNION {[1 .. n -> 0 .. MaxFrame + 1] : n \in 0 .. MaxFrames}]
Jobs == Socks5 \union Socks4 \union Auth \union Frames

Is4a(ip) == SubSeq(ip, 1, 3) = <<0, 0, 0>> /\ ip[4] # 0
Frame(n) == Fill(Header - 1) \o <<n>> \o Fill(n)
Wire(j) ==
  CASE j.kind = "socks5" -> <<5, Len(j.methods)>> \o j.methods \o <<5, j.command, 0>>
                              \o j.address \o Fill(2) \o Payload
    [] j.kind = "socks4" -> <<4, j.command>> \o Fill(2) \o j.ip \o j.user \o <<0>>
                              \o (IF Is4a(j.ip) THEN Fill(3) \o <<0>> ELSE <<>>) \o Payload
    [] j.kind = "auth" -> Fill(FrameBytes) \o Payload
    [] j.kind = "frames" -> FlattenSeq([i \in DOMAIN j.lengths |-> Frame(j.lengths[i])])

FirstStep(j) == CASE j.kind = "auth" -> "prefix" [] j.kind = "frames" -> "frame" [] OTHER -> "version"

ReaderInit ==
  /\ job \in Jobs
  /\ arrived = 0 /\ buffer = <<>> /\ step = FirstStep(job)
  /\ got = <<>> /\ replies = <<>> /\ passed = <<>>

\* Mutant: a new chunk takes the place of the rest of the last one.
Joined_Replaces(rest, chunk) == chunk
Joined(rest, chunk) == rest \o chunk

\* iterator.next() yields a chunk of any size.
ChunkArrives(n) ==
  /\ step \notin {"refused", "failed", "finished"}
  /\ arrived + n <= Len(Wire(job))
  /\ arrived' = arrived + n
  /\ buffer' = Joined(buffer, SubSeq(Wire(job), arrived + 1, arrived + n))
  /\ UNCHANGED <<job, step, got, replies, passed>>

--------------------------------------------------------------------------------
\* read(n): only when so much is buffered; the rest stays.
Taken(n) == SubSeq(buffer, 1, n)
Reads(at, n) == step = at /\ Len(buffer) >= n /\ buffer' = SubSeq(buffer, n + 1, Len(buffer))
Field(value) == got' = Append(got, value)
Refuses == step' = "refused" /\ replies' = Append(replies, "no")

Prefix ==
  /\ Reads("prefix", FrameBytes)
  /\ Field(Taken(FrameBytes)) /\ step' = "open"
  /\ UNCHANGED <<job, arrived, replies, passed>>

Version ==
  /\ Reads("version", 1)
  /\ step' = IF Taken(1) = <<5>> THEN "count" ELSE "command"
  /\ UNCHANGED <<job, arrived, got, replies, passed>>

MethodCount ==
  /\ Reads("count", 1)
  /\ step' = "methods" /\ Field(Taken(1)[1])
  /\ UNCHANGED <<job, arrived, replies, passed>>

Methods ==
  /\ Reads("methods", Last(got))
  /\ IF 0 \in ToSet(Taken(Last(got)))
     THEN step' = "request" /\ replies' = Append(replies, "no authentication")
     ELSE Refuses
  /\ got' = <<>>
  /\ UNCHANGED <<job, arrived, passed>>

\* The address type tells how long the address is.
Request ==
  /\ Reads("request", 4)
  /\ LET command == Taken(4)[2]  type == Taken(4)[4] IN
       IF command # 1 \/ type \notin {1, 3, 4}
       THEN Refuses /\ UNCHANGED got
       ELSE /\ step' = IF type = 3 THEN "name length" ELSE "address"
            /\ Field(IF type = 1 THEN 4 ELSE 16)
            /\ UNCHANGED replies
  /\ UNCHANGED <<job, arrived, passed>>

NameLength ==
  /\ Reads("name length", 1)
  /\ step' = "address" /\ got' = <<Taken(1)[1]>>
  /\ UNCHANGED <<job, arrived, replies, passed>>

Address ==
  /\ Reads("address", Last(got))
  /\ step' = "port" /\ got' = <<Taken(Last(got))>>
  /\ UNCHANGED <<job, arrived, replies, passed>>

Port ==
  /\ Reads("port", 2)
  /\ step' = "connect"
  /\ UNCHANGED <<job, arrived, got, replies, passed>>

Command4 ==
  /\ Reads("command", 1 + 2 + 4)
  /\ step' = "user" /\ got' = <<Taken(1)[1], SubSeq(Taken(7), 4, 7), <<>>>>
  /\ UNCHANGED <<job, arrived, replies, passed>>

\* readCString(): byte by byte up to a zero.
CString ==
  /\ Reads(step, 1) /\ step \in {"user", "host"}
  /\ IF Taken(1) # <<0>>
     THEN got' = [got EXCEPT ![3] = @ \o Taken(1)] /\ UNCHANGED <<step, replies>>
     ELSE IF step = "user"
     THEN IF got[1] # 1 THEN Refuses /\ UNCHANGED got
          ELSE IF Is4a(got[2])
          THEN step' = "host" /\ got' = [got EXCEPT ![3] = <<>>] /\ UNCHANGED replies
          ELSE step' = "connect" /\ got' = <<got[2]>> /\ UNCHANGED replies
     ELSE step' = "connect" /\ got' = <<got[3]>> /\ UNCHANGED replies
  /\ UNCHANGED <<job, arrived, passed>>

\* connectTcp, and the answer to the client.
Connect ==
  /\ step = "connect"
  /\ \/ step' = "open" /\ replies' = Append(replies, "granted")
     \/ step' = "refused" /\ replies' = Append(replies, "failed")
  /\ UNCHANGED <<job, arrived, buffer, got, passed>>

\* remaining() and the wrapped stream: first what is buffered, then the stream.
HandOn ==
  /\ step = "open" /\ buffer # <<>>
  /\ passed' = passed \o buffer /\ buffer' = <<>>
  /\ UNCHANGED <<job, arrived, step, got, replies>>

\* PtyFrameDecoder.push(): the length is checked before the body has arrived.
FrameLength == buffer[Header]
DecodeFrame ==
  /\ step = "frame" /\ Len(buffer) >= Header
  /\ IF FrameLength > MaxFrame
     THEN step' = "failed" /\ UNCHANGED <<got, buffer>>
     ELSE /\ Reads("frame", Header + FrameLength)
          /\ Field(SubSeq(buffer, Header + 1, Header + FrameLength)) /\ UNCHANGED step
  /\ UNCHANGED <<job, arrived, replies, passed>>

\* The wire ends before the handshake or a frame is complete, or a timeout.
EndsEarly ==
  /\ step \notin {"open", "refused", "failed", "finished", "connect"}
  /\ step' = IF step = "frame" /\ buffer = <<>> THEN "finished" ELSE "failed"
  /\ UNCHANGED <<job, arrived, buffer, got, replies, passed>>

ReaderNext ==
  \/ \E n \in 1 .. Len(Wire(job)) : ChunkArrives(n)
  \/ Prefix \/ Version \/ MethodCount \/ Methods \/ Request \/ NameLength \/ Address \/ Port
  \/ Command4 \/ CString \/ Connect \/ HandOn \/ DecodeFrame \/ EndsEarly

ReaderSpec == ReaderInit /\ [][ReaderNext]_readerVars

--------------------------------------------------------------------------------
ReaderTypeOK ==
  /\ job \in Jobs /\ arrived \in 0 .. Len(Wire(job))
  /\ {buffer, passed} \subseteq Seq(Nat)
  /\ step \in {"prefix", "version", "count", "methods", "request", "name length", "address", "port",
               "command", "user", "host", "connect", "open", "frame", "finished", "refused", "failed"}
  /\ replies \in Seq({"no", "no authentication", "granted", "failed"})

\* The host a SOCKS request names.
HostOf(j) ==
  IF j.kind = "socks5" THEN SubSeq(j.address, IF j.address[1] = 3 THEN 3 ELSE 2, Len(j.address))
  ELSE IF Is4a(j.ip) THEN Fill(3) ELSE j.ip

(* However the wire is cut into chunks, each reader takes what the client    *)
(* wrote: a handshake is passed only with its own bytes, and the application *)
(* bytes behind it, and no others, are handed on in their order; frames come *)
(* out whole and in their order; a SOCKS client that asks for something else *)
(* than CONNECT without authentication is never granted it.                  *)
ReadersExact ==
  /\ step = "open" => IsPrefix(passed \o buffer, Payload)
  /\ step = "open" /\ job.kind = "auth" => got = <<Fill(FrameBytes)>>
  /\ job.kind = "frames" =>
       /\ IsPrefix([i \in DOMAIN got |-> Len(got[i])], job.lengths)
       /\ step = "finished" /\ arrived = Len(Wire(job)) => Len(got) = Len(job.lengths)
  /\ "granted" \in ToSet(replies) =>
       /\ job.command = 1 /\ got = <<HostOf(job)>>
       /\ job.kind = "socks5" => 0 \in ToSet(job.methods) /\ job.address[1] \in {1, 3, 4}
=============================================================================
