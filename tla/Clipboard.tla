------------------------------ MODULE Clipboard ------------------------------
(***************************************************************************)
(* Clipboard control: ClipboardManage::Init on the dispatch thread, with the *)
(* conversion of an image to PNG in a buffer that grows.                     *)
(*                                                                         *)
(* The clipboard is shared with the other programs of the desktop: who has   *)
(* it open excludes the others, and what it holds changes when they have.    *)
(* Init opens it twice: to ask for the best format and to take the data.     *)
(*                                                                         *)
(* A content is an image or another kind (texts, lists of files, metafiles), *)
(* which Init looks at and leaves; Windows derives the formats of one kind   *)
(* from each other, so the best format names the kind.  An image is the      *)
(* sequence of sizes in which libpng hands over its bytes.                   *)
(***************************************************************************)
EXTENDS Dispatcher, Naturals

CONSTANTS WordSize,    \* 2^32: sizes are uint32_t
          FirstSize,   \* 4096: the first size of the buffer
          Chunks,      \* sizes of one call of write_to_bufio
          MaxImage     \* bound: bytes of an image

ASSUME ClipboardAssumption ==
  /\ WordSize \in Nat /\ FirstSize \in 1..(WordSize - 1)
  /\ Chunks \subseteq Nat \ {0} /\ MaxImage \in Nat

VARIABLES
  clipOpen,     \* "service", "other", or "nobody" has the clipboard open
  content,      \* what it holds
  iType,        \* the format Init works with
  io,           \* WriteBufferIo: pos, size; and alloc, the bytes behind buf
  new_size,     \* local of write_to_bufio
  chunk,        \* its argument size
  written       \* history: bytes written by finished calls

image == <<io, new_size, chunk, written>>
clipboardVars == <<clipOpen, content, iType, image>>

Kinds == {"image", "other"}
Empty == "none"
NoBuffer == [pos |-> 0, size |-> 0, alloc |-> 0]

ClipboardInit ==
  /\ clipOpen = "nobody" /\ content = Empty
  /\ iType = Empty
  /\ io = NoBuffer /\ new_size = 0 /\ chunk = 0 /\ written = 0

-----------------------------------------------------------------------------
(* The other programs.                                                        *)

OtherOpens ==
  /\ clipOpen = "nobody"
  /\ clipOpen' = "other"
  /\ UNCHANGED <<dpc, content, iType, image>>

OtherCloses ==
  /\ clipOpen = "other"
  /\ clipOpen' = "nobody"
  /\ content' \in Kinds \cup {Empty}
  /\ UNCHANGED <<dpc, iType, image>>

-----------------------------------------------------------------------------
(* ClipboardManage::Init.                                                     *)

\* GetClipboardFormat opens the clipboard and closes it again; 0 on failure.
GetClipboardFormat ==
  /\ Goto("format", "available")
  /\ \/ clipOpen = "nobody" /\ iType' = content
     \/ iType' = Empty
  /\ UNCHANGED <<clipOpen, content, image>>

IsClipboardFormatAvailable ==
  /\ \/ /\ iType # Empty /\ content = iType
        /\ Goto("available", "openclip") /\ UNCHANGED iType
     \/ /\ iType = Empty \/ content # iType
        /\ Goto("available", "idle") /\ iType' = Empty
  /\ UNCHANGED <<clipOpen, content, image>>

OpenClipboard ==
  /\ \/ /\ clipOpen = "nobody" /\ Goto("openclip", "data")
        /\ clipOpen' = "service" /\ UNCHANGED iType
     \/ /\ Goto("openclip", "idle")
        /\ iType' = Empty /\ UNCHANGED clipOpen
  /\ UNCHANGED <<content, image>>

\* Seeded fault: the return on NULL does not close the clipboard.
GetDataNotClosed ==
  /\ \/ /\ content = iType
        /\ Goto("data", IF iType = "image" THEN "image" ELSE "closeclip")
     \/ Goto("data", "idle")
  /\ UNCHANGED clipboardVars

\* GetClipboardData returns NULL when another program has changed the content
\* since its format was asked for.
GetClipboardData ==
  /\ \/ /\ content = iType
        /\ Goto("data", IF iType = "image" THEN "image" ELSE "closeclip")
     \/ Goto("data", "closeclip")
  /\ UNCHANGED clipboardVars

\* The buffer is freed, by its owner or by ~WriteBufferIo.
FreeBuffer == io' = NoBuffer /\ new_size' = 0 /\ chunk' = 0 /\ written' = 0

\* CloseClipboard, and free(NewData).
CloseClipboard ==
  /\ Goto("closeclip", "idle")
  /\ clipOpen' = "nobody" /\ iType' = Empty
  /\ FreeBuffer
  /\ UNCHANGED content

\* Clipboard::DispatchMessages; DisableFunction does nothing.
ClipboardDispatch ==
  /\ DispatchTo("format")
  /\ UNCHANGED clipboardVars

-----------------------------------------------------------------------------
(* GetClipboardImage and FromBitMap.                                          *)

\* GetDIBits, png_create_write_struct, png_create_info_struct, an unsupported
\* bit count and an error of libpng: NULL, and the buffer is freed.  (A vector that
\* throws instead is HandlerThrows of Components.)
ImageFails ==
  /\ Goto("image", "closeclip")
  /\ FreeBuffer
  /\ UNCHANGED <<clipOpen, content, iType>>

\* The image is complete: io.release().
ImageDone ==
  /\ written > 0
  /\ Goto("image", "closeclip")
  /\ UNCHANGED clipboardVars

\* Seeded fault: the size is doubled from 0.
WriteFromZero(n) ==
  /\ written + n <= MaxImage
  /\ chunk' = n
  /\ IF io.pos + n > io.size
     THEN Goto("image", "grow") /\ new_size' = (io.size * 2) % WordSize
     ELSE Goto("image", "copy") /\ UNCHANGED new_size
  /\ UNCHANGED <<clipOpen, content, iType, io, written>>

\* write_to_bufio: the sum is a size_t, the sizes are 32 bits.
WriteToBufio(n) ==
  /\ written + n <= MaxImage
  /\ chunk' = n
  /\ IF io.pos + n > io.size
     THEN /\ Goto("image", "grow")
          /\ new_size' = IF io.size # 0 THEN (io.size * 2) % WordSize ELSE FirstSize
     ELSE Goto("image", "copy") /\ UNCHANGED new_size
  /\ UNCHANGED <<clipOpen, content, iType, io, written>>

\* Seeded fault: the size is doubled at most once more.
GrowOnce ==
  /\ Goto("grow", "realloc")
  /\ new_size' = IF io.pos + chunk >= new_size THEN (new_size * 2) % WordSize ELSE new_size
  /\ UNCHANGED <<clipOpen, content, iType, io, chunk, written>>

\* while (io.pos + size >= new_size) new_size *= 2
Grow ==
  /\ IF io.pos + chunk >= new_size
     THEN dpc = "grow" /\ new_size' = (new_size * 2) % WordSize /\ UNCHANGED dpc
     ELSE Goto("grow", "realloc") /\ UNCHANGED new_size
  /\ UNCHANGED <<clipOpen, content, iType, io, chunk, written>>

\* realloc; NULL leaves through png_error and longjmp.
Realloc ==
  /\ \/ /\ Goto("realloc", "copy")
        /\ io' = [pos |-> io.pos, size |-> new_size, alloc |-> new_size]
        /\ UNCHANGED <<new_size, chunk, written>>
     \/ Goto("realloc", "closeclip") /\ FreeBuffer
  /\ UNCHANGED <<clipOpen, content, iType>>

\* memcpy; io.pos += size.
Copy ==
  /\ Goto("copy", "image")
  /\ io' = [io EXCEPT !.pos = (io.pos + chunk) % WordSize]
  /\ written' = written + chunk
  /\ new_size' = 0 /\ chunk' = 0
  /\ UNCHANGED <<clipOpen, content, iType>>

-----------------------------------------------------------------------------

ClipboardHandler ==
  \/ GetClipboardFormat \/ IsClipboardFormatAvailable \/ OpenClipboard
  \/ GetClipboardData \/ CloseClipboard
  \/ ImageFails \/ ImageDone \/ (\E n \in Chunks : WriteToBufio(n))
  \/ Grow \/ Realloc \/ Copy

OtherPrograms == OtherOpens \/ OtherCloses

-----------------------------------------------------------------------------
(* Properties.                                                                *)

\* An image of half the range of the sizes: doubling reaches 0 and stays there.
Oversized == written + chunk >= WordSize \div 2

(* What write_to_bufio copies lies inside the buffer, the buffer holds every  *)
(* byte written so far and its position has not wrapped, for images of any    *)
(* size, those for which the loop never ends included (ClipboardManage.cpp    *)
(* 180-192).                                                                  *)
BufferHoldsImage ==
  /\ io.pos = written /\ written <= io.size
  /\ io.alloc = io.size
  /\ dpc = "copy" => io.pos + chunk <= io.alloc

(* The dispatch thread has the clipboard open exactly between the second      *)
(* OpenClipboard and CloseClipboard, on every path of Init: whatever fails,    *)
(* and whatever other programs do, it is not left open when Init returns, nor  *)
(* after an exception out of Init, with which the process ends.                *)
ClipboardGivenBack ==
  clipOpen = "service" <=>
    dpc \in {"data", "image", "grow", "realloc", "copy", "closeclip"}
=============================================================================
