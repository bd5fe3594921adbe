----------------------------- MODULE PngTarget -----------------------------
(***************************************************************************)
(* libpng-1.2.56/target.cc: decodes one input after the other.  libpng asks *)
(* the target for bytes through user_read_data, and reports errors, also    *)
(* those that user_read_data raises, by a longjmp back to line 99.  The     *)
(* destructor of O gives everything back.  What libpng makes of the bytes   *)
(* is open: it may ask for any number of them and fail at any point.        *)
(***************************************************************************)
EXTENDS Integers

CONSTANTS
  kPngHeaderSize,  \* 8
  MaxSize,         \* the fuzzer's limit on the size of an input
  MaxDim,          \* libpng's limit on the width and the height of an image
  Limit,           \* 2000000
  WordSize,        \* the number of values of png_uint_32, an unsigned long
  MaxRead          \* bound: the largest length that libpng asks for

ASSUME SizesAssumption ==
  /\ kPngHeaderSize \in Nat /\ MaxSize \in Nat /\ MaxRead \in Nat
  /\ MaxDim \in Nat \ {0} /\ Limit \in Nat

\* unsigned long has 64 bits, and libpng 1.2.56 stops at 1000000 pixels either way.
ASSUME WordAssumption == WordSize \in Nat /\ MaxDim * MaxDim < WordSize

VARIABLES
  pc,      \* where the target is
  size,    \* size
  taken,   \* buf_state->data - data
  left,    \* buf_state->bytes_left
  held,    \* what the call has allocated
  lost,    \* what earlier calls have allocated and not given back
  row,     \* O.row
  image,   \* width, height and interlacing, as png_get_IHDR gives them
  rows     \* calls of png_read_row so far

vars == << pc, size, taken, left, held, lost, row, image, rows >>

Images == [width : 1..MaxDim, height : 1..MaxDim, passes : {1, 7}]

NoImage == [width |-> 0, height |-> 0, passes |-> 0]

-----------------------------------------------------------------------------
Init ==
  /\ pc = "idle" /\ size = 0 /\ taken = 0 /\ left = 0
  /\ held = {} /\ lost = {} /\ row = "null" /\ image = NoImage /\ rows = 0

\* Calls with an input that is too short, or has not the signature, do nothing.
Enter ==
  /\ pc = "idle"
  /\ \E n \in kPngHeaderSize..MaxSize : size' = n
  /\ pc' = "create"
  /\ UNCHANGED << taken, left, held, lost, row, image, rows >>

\* Mutant: the signature is counted but not skipped.
Create_unskipped ==
  /\ pc = "create"
  /\ held' = held \union {"png", "info", "buf_state"}
  /\ taken' = kPngHeaderSize
  /\ left' = size
  /\ pc' = "read_info"
  /\ UNCHANGED << size, lost, row, image, rows >>

\* The structures, the position behind the signature, and setjmp, with O.row still NULL.
Create ==
  /\ pc = "create"
  /\ held' = held \union {"png", "info", "buf_state"}
  /\ taken' = kPngHeaderSize
  /\ left' = size - kPngHeaderSize
  /\ pc' = "read_info"
  /\ UNCHANGED << size, lost, row, image, rows >>

InLibpng == pc \in {"read_info", "start", "rows"}

\* longjmp to line 99, which returns.  O.row is neither volatile nor what it was when setjmp
\* was called, so after the jump it may have its value from then.
png_error ==
  /\ pc' = "longjmp"
  /\ row' \in {row, "null"}
  /\ UNCHANGED << size, taken, left, held, lost, image, rows >>

Fail == InLibpng /\ png_error

\* Mutant: the length is not compared with what is left.
user_read_data_unchecked ==
  /\ InLibpng
  /\ \E n \in 0..MaxRead : left' = left - n /\ taken' = taken + n
  /\ UNCHANGED << pc, size, held, lost, row, image, rows >>

\* libpng asks for n bytes of the input.
user_read_data ==
  /\ InLibpng
  /\ \E n \in 0..MaxRead :
       \/ n > left /\ png_error
       \/ /\ n <= left
          /\ left' = left - n
          /\ taken' = taken + n
          /\ UNCHANGED << pc, size, held, lost, row, image, rows >>

\* png_read_info; png_get_IHDR may still have nothing to say.
ReadInfo ==
  /\ pc = "read_info"
  /\ \/ image' \in Images /\ pc' = "check"
     \/ image' = NoImage /\ pc' = "return"
  /\ UNCHANGED << size, taken, left, held, lost, row, rows >>

\* Mutant: the sides are looked at one by one.
TooSlow_sides == image.height > Limit \/ image.width > Limit

\* height * width > 2000000, in png_uint_32
TooSlow == (image.height * image.width) % WordSize > Limit

CheckSize ==
  /\ pc = "check"
  /\ pc' = IF TooSlow THEN "return" ELSE "start"
  /\ UNCHANGED << size, taken, left, held, lost, row, image, rows >>

\* png_start_read_image and the buffer for a row
AllocateRow ==
  /\ pc = "start"
  /\ held' = held \union {"row"}
  /\ row' = "row"
  /\ pc' = "rows"
  /\ UNCHANGED << size, taken, left, lost, image, rows >>

png_read_row ==
  /\ pc = "rows"
  /\ rows < image.passes * image.height
  /\ rows' = rows + 1
  /\ UNCHANGED << pc, size, taken, left, held, lost, row, image >>

LastRow ==
  /\ pc = "rows"
  /\ rows = image.passes * image.height
  /\ pc' = "return"
  /\ UNCHANGED << size, taken, left, held, lost, row, image, rows >>

\* Mutant: buf_state is left to the next call.
Released_two == {"png", "info"} \union (IF row = "null" THEN {} ELSE {"row"})

\* ~ScopedPngObject
Released == {"png", "info", "buf_state"} \union (IF row = "null" THEN {} ELSE {"row"})

Return ==
  /\ pc \in {"return", "longjmp"}
  /\ pc' = "idle"
  /\ lost' = lost \union (held \ Released)
  /\ held' = {}
  /\ size' = 0 /\ taken' = 0 /\ left' = 0 /\ row' = "null" /\ image' = NoImage /\ rows' = 0

Next ==
  \/ Enter \/ Create \/ Fail \/ user_read_data \/ ReadInfo \/ CheckSize \/ AllocateRow
  \/ png_read_row \/ LastRow \/ Return

Spec == Init /\ [][Next]_vars

-----------------------------------------------------------------------------
TypeOK ==
  /\ pc \in {"idle", "create", "read_info", "check", "start", "rows", "return", "longjmp"}
  /\ size \in 0..MaxSize /\ taken \in 0..MaxSize /\ left \in 0..MaxSize
  /\ held \subseteq {"png", "info", "buf_state", "row"}
  /\ lost \subseteq {"png", "info", "buf_state", "row"}
  /\ row \in {"null", "row"}
  /\ image \in Images \union {NoImage}
  /\ rows \in Nat

\* The bytes that libpng has been given and those it may still be given are those of the
\* input, whatever lengths it asks for and wherever it fails (lines 16 to 24, 92, 93).
ReadsTheInput == InLibpng => taken + left = size

\* No input makes the target decode an image of more than Limit pixels or read more than seven
\* times as many rows, whatever its sides are: "This is going to be too slow" (line 117).
BoundedWork ==
  pc = "rows" => image.height * image.width <= Limit /\ rows <= 7 * Limit

\* On whichever way a call returns, everything but the buffer for a row is given back, and that
\* buffer is lost only when an error is raised after it was allocated: O.row is set between
\* setjmp and longjmp (lines 28 to 42, 99, 123).
OnlyErrorsLeak == [][lost' # lost => pc = "longjmp" /\ lost' = lost \union {"row"}]_vars

=============================================================================
