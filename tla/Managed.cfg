\* Lengths and positions reach past MaxLen and up to UMax, where a sum overflows;
\* three bytes are two pages, the second of them not whole; a reader's buffer is
\* shorter than the mapping.  No action reads the answer: Unanswered leaves it
\* out of the state, and every step is still compared with the model.
CONSTANTS
  Byte = {0, 1}
  MaxLen = 3
  UMax = 4
  MaxData = 2
  PageSize = 2
  READER_BUF_LEN = 2
SPECIFICATION Spec
VIEW Unanswered
PROPERTIES
  ImplementsModel
  PrivateStaysPrivate
