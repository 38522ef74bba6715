\* Two buffers of four characters: NUL, a letter and a delimiter.
CONSTANTS
  SIZE = 4
  Chars = {0, 1, 2}
  Delims = {{2}}
  NULL = NULL
SPECIFICATION Spec
VIEW View
PROPERTIES SearchesAgree CopiesExactly TokenizerAgrees
