SPECIFICATION Spec
CONSTANTS
  lcd = lcd
  jtag = jtag
  fs = fs
  dev_null = dev_null
  NIL = NIL
  ALT_MAX_FD = 6
  Devices = {dev_null, lcd, jtag}
  Filesystems = {fs}
  NameOf <- MCNameOf
  Names <- MCNames
  MayFail = {fs}
  ALT_STDIN <- Jtag
  ALT_STDOUT <- Jtag
  ALT_STDERR <- File
INVARIANTS
  LockIsExclusive
