SPECIFICATION Spec
CONSTANTS
  Clients = {c1}
  Invoices = {1, 2}
  CashInvoices = {1}
  Total = 300
  Amounts = {100, 301}
  DEC = 1
  MaxPays = 2
  MaxAllocs = 2
PROPERTIES
  UserMoneyStays
